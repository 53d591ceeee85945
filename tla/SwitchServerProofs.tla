------------------------- MODULE SwitchServerProofs -------------------------
(* Proofs about SwitchServer, for every set of turn-outs and every list of  *)
(* listeners that is long enough.                                          *)
EXTENDS SwitchServer, FiniteSetTheorems, TLAPS

Changes == [sw : Switches, direction : Directions]

\* Who works on a change has one.
ChangesAtHand ==
  /\ server = "switching" => current \in Changes
  /\ \A p \in Parents : parent[p] # "receive" => request[p] \in Changes
  /\ \A p \in Parents : courier[p] = "reporting" => report[p] \in Changes

Senders == {Self(p) : p \in Parents} \cup {Courier(p) : p \in Parents}

\* A parent or a courier is at one place: in the send queue, on the list, or away.
OnePlaceEach ==
  /\ \A i, j \in DOMAIN inbox : inbox[i] = inbox[j] => i = j
  /\ \A i \in DOMAIN inbox, p \in Parents : inbox[i] = Self(p) => parent[p] = "setting"
  /\ \A i \in DOMAIN inbox, p \in Parents : inbox[i] = Courier(p) => courier[p] = "asking"
  /\ \A i, j \in DOMAIN event_list : event_list[i] = event_list[j] => i = j
  /\ \A i \in DOMAIN event_list : courier[event_list[i]] = "listening"

\* What excuses the track server's copy.
OnTheWay(sw) ==
  \/ sw \in missed
  \/ courier[Track] = "reporting" /\ report[Track].sw = sw
  \/ server = "switching" /\ current.sw = sw

\* What the track server is about to record itself is right, or excused.
RecordExcused ==
  parent[Track] = "set" /\ request[Track].direction # switch_table[request[Track].sw] =>
    OnTheWay(request[Track].sw)

\* What its courier is about to report is right, or it missed a later change.
ReportExcused ==
  courier[Track] = "reporting" /\ report[Track].direction # switch_table[report[Track].sw] =>
    report[Track].sw \in missed

IInv == /\ TypeOK /\ ChangesAtHand /\ OnePlaceEach
        /\ RecordExcused /\ ReportExcused /\ CopiesGoStaleOnlyWhileAway

-----------------------------------------------------------------------------
\* The list of listeners, which holds each courier once, is never full.
LEMMA ListFits ==
  ASSUME NEW list \in Seq(Parents),
         \A i, j \in DOMAIN list : list[i] = list[j] => i = j
  PROVE  Len(list) < MAX_EVENT_QUEUE_SIZE
<1>1. Parents = {Main, Track} /\ Main # Track
  BY DEF Parents, Main, Track
<1>2. Cardinality(Parents) = 2
  <2>1. IsFiniteSet({Main}) /\ Cardinality({Main}) = 1
    BY FS_Singleton
  <2>2. Cardinality({Main} \cup {Track}) = Cardinality({Main}) + 1
    BY <1>1, <2>1, FS_AddElement
  <2>3. Parents = {Main} \cup {Track}
    BY <1>1
  <2>4. Cardinality(Parents) = Cardinality({Main} \cup {Track})
    BY <2>3
  <2>5. Cardinality({Main} \cup {Track}) = 2
    BY <2>1, <2>2
  <2>6. QED
    BY <2>4, <2>5
<1>3. Len(list) <= 2
  <2>1. SUFFICES ASSUME Len(list) > 2 PROVE FALSE
    OBVIOUS
  <2>2. 1 \in DOMAIN list /\ 2 \in DOMAIN list /\ 3 \in DOMAIN list
    BY <2>1
  <2>3. list[1] \in Parents /\ list[2] \in Parents /\ list[3] \in Parents
    BY <2>2
  <2>4. QED
    BY <1>1, <2>2, <2>3
<1>4. QED
  BY <1>2, <1>3, QueueAssumption

\* A message at the head of the queue is taken: the others move up.
LEMMA TakeMessage ==
  ASSUME TypeOK, OnePlaceEach, NEW sender, Received(sender)
  PROVE  /\ inbox' \in Seq(Senders)
         /\ \A i, j \in DOMAIN inbox' : inbox'[i] = inbox'[j] => i = j
         /\ \A i \in DOMAIN inbox' :
              inbox'[i] # sender /\ \E k \in DOMAIN inbox : inbox'[i] = inbox[k]
         /\ \E k \in DOMAIN inbox : inbox[k] = sender
<1>1. inbox \in Seq(Senders) /\ inbox # << >> /\ inbox' = Tail(inbox)
  BY DEF Received, TypeOK, Senders
<1>2. /\ inbox' \in Seq(Senders)
      /\ 1 \in DOMAIN inbox /\ inbox[1] = sender
      /\ \A i \in DOMAIN inbox' :
           i + 1 \in DOMAIN inbox /\ inbox'[i] = inbox[i + 1] /\ i \in Nat \ {0}
  BY <1>1 DEF Received
<1>3. ASSUME NEW i \in DOMAIN inbox', NEW j \in DOMAIN inbox', inbox'[i] = inbox'[j]
      PROVE  i = j
  <2>1. i + 1 = j + 1
    BY <1>2, <1>3 DEF OnePlaceEach
  <2>2. QED
    BY <1>2, <2>1
<1>4. ASSUME NEW i \in DOMAIN inbox', inbox'[i] = sender
      PROVE  FALSE
  <2>1. i + 1 = 1
    BY <1>2, <1>4 DEF OnePlaceEach
  <2>2. QED
    BY <1>2, <2>1
<1>5. QED
  BY <1>2, <1>3, <1>4

\* A message of somebody who has none in the queue is added at the end.
LEMMA AddMessage ==
  ASSUME TypeOK, OnePlaceEach, NEW sender \in Senders,
         \A k \in DOMAIN inbox : inbox[k] # sender,
         inbox' = Append(inbox, sender)
  PROVE  /\ inbox' \in Seq(Senders)
         /\ \A i, j \in DOMAIN inbox' : inbox'[i] = inbox'[j] => i = j
         /\ \A i \in DOMAIN inbox' :
              inbox'[i] = sender \/ \E k \in DOMAIN inbox : inbox'[i] = inbox[k]
<1>1. inbox \in Seq(Senders)
  BY DEF TypeOK, Senders
<1>2. /\ inbox' \in Seq(Senders)
      /\ \A i \in DOMAIN inbox' :
           \/ i \in DOMAIN inbox /\ inbox'[i] = inbox[i]
           \/ i = Len(inbox) + 1 /\ inbox'[i] = sender
  BY <1>1
<1>3. QED
  BY <1>2 DEF OnePlaceEach

\* Names of parents and couriers differ.
LEMMA Names ==
  ASSUME NEW p \in Parents
  PROVE  /\ Self(p) \in Senders /\ Courier(p) \in Senders
         /\ \A q \in Parents : /\ Self(p) # Courier(q)
                               /\ Self(p) = Self(q) => p = q
                               /\ Courier(p) = Courier(q) => p = q
BY DEF Senders, Self, Courier

LEMMA InitIInv == Init => IInv
<1>1. SUFFICES ASSUME Init PROVE IInv
  OBVIOUS
<1>2. Parents = {Main, Track} /\ Main # Track
  BY DEF Parents, Main, Track
<1>3. /\ Courier(Main) # Courier(Track)
      /\ \A p \in Parents : Self(p) # Courier(Main) /\ Self(p) # Courier(Track)
  BY <1>2, Names
<1>4. OnePlaceEach
  BY <1>1, <1>2, <1>3 DEF Init, OnePlaceEach
<1>5. TypeOK
  <2>1. Len(event_list) < MAX_EVENT_QUEUE_SIZE
    <3>1. /\ event_list \in Seq(Parents)
          /\ \A i, j \in DOMAIN event_list : event_list[i] = event_list[j] => i = j
      BY <1>1, <1>4 DEF Init, OnePlaceEach
    <3>2. QED
      BY <3>1, ListFits
  <2>2. inbox \in Seq({Self(p) : p \in Parents} \cup {Courier(p) : p \in Parents})
    <3>1. Courier(Main) \in Senders /\ Courier(Track) \in Senders
      BY <1>2, Names
    <3>2. /\ <<Courier(Track), Courier(Main)>> \in Seq(Senders)
          /\ <<Courier(Main), Courier(Track)>> \in Seq(Senders)
      BY <3>1
    <3>3. QED
      BY <1>1, <3>2 DEF Init, Senders
  <2>3. QED
    BY <1>1, <2>1, <2>2 DEF Init, TypeOK, Reports
<1>6. ChangesAtHand /\ RecordExcused /\ ReportExcused
  BY <1>1, <1>2 DEF Init, ChangesAtHand, RecordExcused, ReportExcused
<1>7. CopiesGoStaleOnlyWhileAway
  BY <1>1 DEF Init, CopiesGoStaleOnlyWhileAway
<1>8. QED
  BY <1>4, <1>5, <1>6, <1>7 DEF IInv

LEMMA SetDirectionIInv ==
  ASSUME IInv, NEW p \in Parents, NEW sw \in Switches, NEW direction \in Directions,
         SetDirection(p, sw, direction)
  PROVE  IInv'
<1> USE DEF IInv
<1>1. [sw |-> sw, direction |-> direction] \in Changes
  BY DEF Changes
<1>2. /\ inbox' = Append(inbox, Self(p))
      /\ \A k \in DOMAIN inbox : inbox[k] # Self(p)
  BY DEF SetDirection, OnePlaceEach
<1>3. /\ inbox' \in Seq(Senders)
      /\ \A i, j \in DOMAIN inbox' : inbox'[i] = inbox'[j] => i = j
      /\ \A i \in DOMAIN inbox' :
           inbox'[i] = Self(p) \/ \E k \in DOMAIN inbox : inbox'[i] = inbox[k]
  BY <1>2, AddMessage, Names
<1>4. OnePlaceEach'
  BY <1>3, Names DEF SetDirection, serverVars, OnePlaceEach, TypeOK
<1>5. TypeOK'
  BY <1>1, <1>3 DEF SetDirection, serverVars, TypeOK, Reports, Changes, Senders
<1>6. ChangesAtHand'
  BY <1>1 DEF SetDirection, serverVars, ChangesAtHand, TypeOK
<1>7. RecordExcused' /\ ReportExcused' /\ CopiesGoStaleOnlyWhileAway'
  BY DEF SetDirection, serverVars, RecordExcused, ReportExcused, OnTheWay,
         CopiesGoStaleOnlyWhileAway, TypeOK
<1>8. QED
  BY <1>4, <1>5, <1>6, <1>7

LEMMA DirectionSetIInv ==
  ASSUME IInv, NEW p \in Parents, DirectionSet(p)
  PROVE  IInv'
<1> USE DEF IInv
<1>1. request[p] \in Changes
  BY DEF DirectionSet, ChangesAtHand
<1>2. copy' \in [Switches -> Directions]
  BY <1>1 DEF DirectionSet, TypeOK, Changes
<1>3. TypeOK'
  BY <1>2 DEF DirectionSet, serverVars, TypeOK, Reports
<1>4. ChangesAtHand' /\ OnePlaceEach'
  BY DEF DirectionSet, serverVars, ChangesAtHand, OnePlaceEach, TypeOK
<1>5. RecordExcused' /\ ReportExcused'
  BY DEF DirectionSet, serverVars, RecordExcused, ReportExcused, OnTheWay, TypeOK
<1>6. ASSUME NEW sw \in Switches, copy'[sw] # switch_table[sw]
      PROVE  OnTheWay(sw)
  <2>1. CASE p = Track /\ sw = request[p].sw
    <3>1. copy'[sw] = request[p].direction
      BY <1>1, <2>1 DEF DirectionSet, TypeOK
    <3>2. QED
      BY <1>6, <2>1, <3>1 DEF DirectionSet, RecordExcused
  <2>2. CASE ~(p = Track /\ sw = request[p].sw)
    <3>1. copy'[sw] = copy[sw]
      BY <2>2 DEF DirectionSet, TypeOK
    <3>2. QED
      BY <1>6, <3>1 DEF CopiesGoStaleOnlyWhileAway, OnTheWay
  <2>3. QED
    BY <2>1, <2>2
<1>7. CopiesGoStaleOnlyWhileAway'
  BY <1>6 DEF CopiesGoStaleOnlyWhileAway, OnTheWay, DirectionSet, serverVars
<1>8. QED
  BY <1>3, <1>4, <1>5, <1>7

LEMMA ReportMessageIInv ==
  ASSUME IInv, NEW p \in Parents, ReportMessage(p)
  PROVE  IInv'
<1> USE DEF IInv
<1>1. report[p] \in Changes
  BY DEF ReportMessage, ChangesAtHand
<1>2. courier[p] = "reporting" /\ inbox' = Append(inbox, Courier(p))
  BY DEF ReportMessage
<1>3. \A k \in DOMAIN inbox : inbox[k] # Courier(p)
  BY <1>2 DEF OnePlaceEach
<1>4. /\ inbox' \in Seq(Senders)
      /\ \A i, j \in DOMAIN inbox' : inbox'[i] = inbox'[j] => i = j
      /\ \A i \in DOMAIN inbox' :
           inbox'[i] = Courier(p) \/ \E k \in DOMAIN inbox : inbox'[i] = inbox[k]
  BY <1>2, <1>3, AddMessage, Names
<1>5. TypeOK'
  BY <1>1, <1>4 DEF ReportMessage, serverVars, TypeOK, Reports, Changes, Senders
<1>6. OnePlaceEach'
  BY <1>2, <1>4, Names DEF ReportMessage, serverVars, OnePlaceEach, TypeOK
<1>7. ChangesAtHand' /\ RecordExcused' /\ ReportExcused'
  BY DEF ReportMessage, serverVars, ChangesAtHand, RecordExcused, ReportExcused, OnTheWay, TypeOK
<1>8. ASSUME NEW sw \in Switches, copy'[sw] # switch_table[sw]
      PROVE  OnTheWay(sw)'
  <2>1. CASE p = Track /\ sw = report[p].sw
    <3>1. copy'[sw] = report[p].direction
      BY <1>1, <2>1 DEF ReportMessage, TypeOK
    <3>2. sw \in missed
      BY <1>8, <2>1, <3>1 DEF ReportMessage, ReportExcused
    <3>3. QED
      BY <3>2 DEF OnTheWay, ReportMessage, serverVars
  <2>2. CASE ~(p = Track /\ sw = report[p].sw)
    <3>1. copy'[sw] = copy[sw]
      BY <2>2 DEF ReportMessage, TypeOK
    <3>2. OnTheWay(sw)
      BY <1>8, <3>1 DEF CopiesGoStaleOnlyWhileAway, OnTheWay, ReportMessage, serverVars
    <3>3. QED
      BY <2>2, <3>2 DEF OnTheWay, ReportMessage, serverVars, TypeOK
  <2>3. QED
    BY <2>1, <2>2
<1>9. CopiesGoStaleOnlyWhileAway'
  BY <1>8 DEF CopiesGoStaleOnlyWhileAway, OnTheWay, ReportMessage, serverVars
<1>10. QED
  BY <1>5, <1>6, <1>7, <1>9

LEMMA ListenMessageIInv ==
  ASSUME IInv, NEW p \in Parents, ListenMessage(p)
  PROVE  IInv'
<1> USE DEF IInv
<1>1. Received(Courier(p)) /\ event_list' = Append(event_list, p)
  BY DEF ListenMessage
<1>2. courier[p] = "asking"
  BY <1>1, TakeMessage DEF OnePlaceEach
<1>3. /\ event_list' \in Seq(Parents)
      /\ \A i \in DOMAIN event_list' :
           \/ i \in DOMAIN event_list /\ event_list'[i] = event_list[i]
           \/ i = Len(event_list) + 1 /\ event_list'[i] = p
      /\ \A i \in DOMAIN event_list : event_list[i] # p
  BY <1>1, <1>2 DEF TypeOK, OnePlaceEach
<1>4. \A i, j \in DOMAIN event_list' : event_list'[i] = event_list'[j] => i = j
  BY <1>3 DEF OnePlaceEach
<1>5. Len(event_list') < MAX_EVENT_QUEUE_SIZE
  BY <1>3, <1>4, ListFits
<1>6. courier' = [courier EXCEPT ![p] = "listening"]
  BY DEF ListenMessage
<1>7. OnePlaceEach'
  <2>1. /\ \A i, j \in DOMAIN inbox' : inbox'[i] = inbox'[j] => i = j
        /\ \A i \in DOMAIN inbox' :
             inbox'[i] # Courier(p) /\ \E k \in DOMAIN inbox : inbox'[i] = inbox[k]
    BY <1>1, TakeMessage
  <2>2. parent' = parent
    BY DEF ListenMessage, parentVars
  <2>3. \A i \in DOMAIN inbox', q \in Parents :
          /\ inbox'[i] = Self(q) => parent'[q] = "setting"
          /\ inbox'[i] = Courier(q) => courier'[q] = "asking"
    BY <1>6, <2>1, <2>2 DEF OnePlaceEach, TypeOK
  <2>4. \A i \in DOMAIN event_list' : courier'[event_list'[i]] = "listening"
    BY <1>3, <1>6 DEF OnePlaceEach, TypeOK
  <2>5. QED
    BY <1>4, <2>1, <2>3, <2>4 DEF OnePlaceEach
<1>8. TypeOK'
  BY <1>1, <1>3, <1>5, TakeMessage DEF TypeOK, ListenMessage, parentVars, Senders
<1>9. ChangesAtHand' /\ RecordExcused' /\ ReportExcused' /\ CopiesGoStaleOnlyWhileAway'
  BY <1>2 DEF ListenMessage, parentVars, ChangesAtHand, RecordExcused, ReportExcused,
              CopiesGoStaleOnlyWhileAway, OnTheWay, TypeOK
<1>10. QED
  BY <1>7, <1>8, <1>9

\* The switch server takes a command of p, which waits for its reply.
LEMMA TakeCommand ==
  ASSUME IInv, NEW p \in Parents, Received(Self(p)),
         parent' = [parent EXCEPT ![p] = "set"],
         UNCHANGED <<event_list, courier>>
  PROVE  /\ inbox' \in Seq(Senders) /\ OnePlaceEach'
         /\ parent[p] = "setting" /\ request[p] \in Changes
<1> USE DEF IInv
<1>1. /\ inbox' \in Seq(Senders)
      /\ \A i, j \in DOMAIN inbox' : inbox'[i] = inbox'[j] => i = j
      /\ \A i \in DOMAIN inbox' :
           inbox'[i] # Self(p) /\ \E k \in DOMAIN inbox : inbox'[i] = inbox[k]
      /\ \E k \in DOMAIN inbox : inbox[k] = Self(p)
  BY TakeMessage
<1>2. parent[p] = "setting"
  BY <1>1 DEF OnePlaceEach
<1>3. request[p] \in Changes
  BY <1>2 DEF ChangesAtHand
<1>4. \A i \in DOMAIN inbox', q \in Parents :
        /\ inbox'[i] = Self(q) => parent'[q] = "setting"
        /\ inbox'[i] = Courier(q) => courier'[q] = "asking"
  BY <1>1 DEF OnePlaceEach, TypeOK
<1>5. OnePlaceEach'
  BY <1>1, <1>4 DEF OnePlaceEach
<1>6. QED
  BY <1>1, <1>2, <1>3, <1>5

LEMMA NoChangeIInv ==
  ASSUME IInv, NEW p \in Parents, NoChange(p)
  PROVE  IInv'
<1> USE DEF IInv
<1>1. /\ inbox' \in Seq(Senders) /\ OnePlaceEach'
      /\ parent[p] = "setting" /\ request[p] \in Changes
  BY TakeCommand DEF NoChange, serverVars
<1>2. TypeOK'
  BY <1>1 DEF NoChange, serverVars, TypeOK, Senders
<1>3. ChangesAtHand'
  BY <1>1 DEF NoChange, serverVars, ChangesAtHand, TypeOK
<1>4. RecordExcused' /\ ReportExcused' /\ CopiesGoStaleOnlyWhileAway'
  BY DEF NoChange, serverVars, RecordExcused, ReportExcused, OnTheWay,
         CopiesGoStaleOnlyWhileAway, TypeOK
<1>5. QED
  BY <1>1, <1>2, <1>3, <1>4

LEMMA ChangeIInv ==
  ASSUME IInv, NEW p \in Parents, Change(p)
  PROVE  IInv'
<1> USE DEF IInv
<1>1. /\ inbox' \in Seq(Senders) /\ OnePlaceEach'
      /\ parent[p] = "setting" /\ request[p] \in Changes
  BY TakeCommand DEF Change
<1>2. server = "receive" /\ server' = "switching" /\ current' = request[p]
  BY DEF Change, Received
<1>3. TypeOK'
  BY <1>1 DEF Change, TypeOK, Senders
<1>4. ChangesAtHand'
  BY <1>1 DEF Change, ChangesAtHand, TypeOK
<1>5. RecordExcused'
  <2>1. CASE p = Track
    BY <1>2, <2>1 DEF Change, RecordExcused, OnTheWay
  <2>2. CASE p # Track
    BY <1>2, <2>2 DEF Change, RecordExcused, OnTheWay, TypeOK
  <2>3. QED
    BY <2>1, <2>2
<1>6. ReportExcused' /\ CopiesGoStaleOnlyWhileAway'
  BY <1>2 DEF Change, ReportExcused, CopiesGoStaleOnlyWhileAway
<1>7. QED
  BY <1>1, <1>3, <1>4, <1>5, <1>6

\* The change is done: who is on the list is told of it, who is not has missed it.
LEMMA SwitchedIInv ==
  ASSUME IInv, Switched
  PROVE  IInv'
<1> USE DEF IInv
<1> DEFINE told == {event_list[i] : i \in DOMAIN event_list}
<1>1. /\ current \in Changes /\ server' = "resting" /\ event_list' = << >>
      /\ switch_table' = [switch_table EXCEPT ![current.sw] = current.direction]
      /\ UNCHANGED <<inbox, current, parent, request, copy>>
  BY DEF Switched, ChangesAtHand
<1>2. /\ courier' = [p \in Parents |-> IF p \in told THEN "reporting" ELSE courier[p]]
      /\ report'  = [p \in Parents |-> IF p \in told THEN current ELSE report[p]]
  BY DEF Switched, TellListeners
<1>3. missed' = IF Track \in told THEN missed \ {current.sw}
                ELSE missed \cup {current.sw}
  BY DEF Switched
<1>4. \A p \in told : courier[p] = "listening"
  BY DEF OnePlaceEach
<1>5. TypeOK'
  <2>1. switch_table' \in [Switches -> Directions]
    BY <1>1 DEF TypeOK, Changes
  <2>2. missed' \in SUBSET Switches
    BY <1>1, <1>3 DEF TypeOK, Changes
  <2>3. courier' \in [Parents -> {"asking", "listening", "reporting"}]
    BY <1>2 DEF TypeOK
  <2>4. report' \in [Parents -> Reports]
    BY <1>1, <1>2 DEF TypeOK
  <2>5. event_list' \in Seq(Parents) /\ Len(event_list') < MAX_EVENT_QUEUE_SIZE
    <3>1. << >> \in Seq(Parents) /\ \A i, j \in DOMAIN << >> : << >>[i] = << >>[j] => i = j
      OBVIOUS
    <3>2. Len(<< >>) < MAX_EVENT_QUEUE_SIZE
      BY <3>1, ListFits
    <3>3. QED
      BY <1>1, <3>1, <3>2
  <2>6. QED
    BY <1>1, <2>1, <2>2, <2>3, <2>4, <2>5 DEF TypeOK, Switched
<1>6. ChangesAtHand'
  BY <1>1, <1>2 DEF ChangesAtHand
<1>7. OnePlaceEach'
  <2>1. \A i \in DOMAIN inbox, p \in Parents : inbox[i] = Courier(p) => courier'[p] = "asking"
    BY <1>2, <1>4 DEF OnePlaceEach
  <2>2. QED
    BY <1>1, <2>1 DEF OnePlaceEach
\* A copy that differs from the new table, or a direction about to be recorded:
\* the change is on its way, or an older excuse is still there.
<1>8. OnTheWay(current.sw)'
  BY <1>2, <1>3, <1>1 DEF OnTheWay, Changes, Parents
<1>9. ASSUME NEW sw \in Switches, sw # current.sw, OnTheWay(sw)
      PROVE  OnTheWay(sw)'
  BY <1>1, <1>2, <1>3, <1>4, <1>9 DEF OnTheWay, Parents
<1>10. \A sw \in Switches : sw # current.sw => switch_table'[sw] = switch_table[sw]
  BY <1>1 DEF TypeOK
<1>11. RecordExcused'
  <2>1. SUFFICES ASSUME parent[Track] = "set",
                        request[Track].direction # switch_table'[request[Track].sw]
                 PROVE  OnTheWay(request[Track].sw)'
    BY <1>1 DEF RecordExcused
  <2>2. request[Track].sw \in Switches
    BY <2>1 DEF ChangesAtHand, Changes, Parents
  <2>3. CASE request[Track].sw = current.sw
    BY <1>1, <1>8, <2>3 DEF Parents, OnTheWay
  <2>4. CASE request[Track].sw # current.sw
    <3>1. OnTheWay(request[Track].sw)
      BY <1>10, <2>1, <2>2, <2>4 DEF RecordExcused
    <3>2. QED
      BY <1>1, <1>9, <2>2, <2>4, <3>1 DEF OnTheWay, Parents
  <2>5. QED
    BY <2>3, <2>4
<1>12. ReportExcused'
  <2>1. SUFFICES ASSUME courier'[Track] = "reporting",
                        report'[Track].direction # switch_table'[report'[Track].sw]
                 PROVE  report'[Track].sw \in missed'
    BY DEF ReportExcused
  <2>2. CASE Track \in told
    <3>1. report'[Track] = current /\ switch_table'[current.sw] = current.direction
      BY <1>1, <1>2, <2>2 DEF TypeOK, Changes, Parents
    <3>2. QED
      BY <2>1, <3>1
  <2>3. CASE Track \notin told
    <3>1. /\ courier[Track] = "reporting" /\ report'[Track] = report[Track]
          /\ report[Track].sw \in Switches
      BY <1>2, <2>1, <2>3 DEF ChangesAtHand, Changes, Parents
    <3>2. missed' = missed \cup {current.sw}
      BY <1>3, <2>3
    <3>3. QED
      BY <1>10, <2>1, <3>1, <3>2 DEF ReportExcused
  <2>4. QED
    BY <2>2, <2>3
<1>13. CopiesGoStaleOnlyWhileAway'
  <2>1. SUFFICES ASSUME NEW sw \in Switches, copy[sw] # switch_table'[sw]
                 PROVE  OnTheWay(sw)'
    BY <1>1 DEF CopiesGoStaleOnlyWhileAway, OnTheWay
  <2>2. CASE sw = current.sw
    BY <1>1, <1>8, <2>2 DEF OnTheWay
  <2>3. CASE sw # current.sw
    BY <1>9, <1>10, <2>1, <2>3 DEF CopiesGoStaleOnlyWhileAway, OnTheWay
  <2>4. QED
    BY <2>2, <2>3
<1>14. QED
  BY <1>5, <1>6, <1>7, <1>11, <1>12, <1>13

LEMMA SolenoidOffIInv ==
  ASSUME IInv, SolenoidOff
  PROVE  IInv'
BY DEF IInv, SolenoidOff, parentVars, TypeOK, ChangesAtHand, OnePlaceEach, RecordExcused,
       ReportExcused, CopiesGoStaleOnlyWhileAway, OnTheWay, Reports

LEMMA NextIInv == IInv /\ [Next]_vars => IInv'
<1>1. SUFFICES ASSUME IInv, [Next]_vars PROVE IInv'
  OBVIOUS
<1>2. CASE UNCHANGED vars
  BY <1>1, <1>2 DEF vars, IInv, TypeOK, ChangesAtHand, OnePlaceEach, RecordExcused,
                    ReportExcused, CopiesGoStaleOnlyWhileAway, OnTheWay
<1>3. CASE Server
  BY <1>1, <1>3, ListenMessageIInv, NoChangeIInv, ChangeIInv, SwitchedIInv, SolenoidOffIInv
     DEF Server
<1>4. ASSUME NEW p \in Parents, Parent(p)
      PROVE  IInv'
  BY <1>1, <1>4, SetDirectionIInv, DirectionSetIInv, ReportMessageIInv DEF Parent
<1>5. QED
  BY <1>1, <1>2, <1>3, <1>4 DEF Next

-----------------------------------------------------------------------------
\* The types hold in every reachable state; above all, the list of listeners
\* has room for every courier that asks, so that the AssertF of switch_server.c
\* on a full list never fails.
THEOREM TypeCorrect == Spec => []TypeOK
<1>1. IInv => TypeOK
  BY DEF IInv
<1>2. QED
  BY <1>1, InitIInv, NextIInv, PTL DEF Spec

\* The track server's copy of the table is wrong only about what last changed while
\* its courier was away, or about a change that is on its way.
THEOREM CopiesExcused == Spec => []CopiesGoStaleOnlyWhileAway
<1>1. IInv => CopiesGoStaleOnlyWhileAway
  BY DEF IInv
<1>2. QED
  BY <1>1, InitIInv, NextIInv, PTL DEF Spec
=============================================================================
