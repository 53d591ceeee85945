-------------------------- MODULE CabServiceProofs --------------------------
(* Proofs about CabService, for any number of cabs and dispatches.          *)
EXTENDS CabService, TLAPS

WorkItems == Orders \cup Stops \cup {Answer}

\* A cab that has an order coming is not free, and who is to be answered has
\* not asked again.
WorkInOrder ==
  \A i \in DOMAIN work :
    /\ work[i].op = "route"  => ~Contains(free_cabs_list, work[i].cab)
    /\ work[i].op = "answer" =>
         i = Len(work) /\ main = "asking" /\ ~Contains(inbox, Main)

IInv == TypeOK /\ CabsAccounted /\ WorkInOrder

-----------------------------------------------------------------------------
(* Sequences.                                                              *)

LEMMA AppendContains ==
  ASSUME NEW S, NEW s \in Seq(S), NEW e \in S
  PROVE  /\ Append(s, e) \in Seq(S)
         /\ \A x : Contains(Append(s, e), x) <=> Contains(s, x) \/ x = e
         /\ IsInjective(s) /\ ~Contains(s, e) => IsInjective(Append(s, e))
         /\ Range(Append(s, e)) = Range(s) \cup {e}
<1> DEFINE t == Append(s, e)
<1>1. /\ t \in Seq(S) /\ Len(t) = Len(s) + 1 /\ t[Len(s) + 1] = e
      /\ DOMAIN t = 1 .. Len(s) + 1 /\ DOMAIN s = 1 .. Len(s) /\ Len(s) \in Nat
      /\ \A i \in 1 .. Len(s) : t[i] = s[i]
  OBVIOUS
<1> HIDE DEF t
<1>2. ASSUME NEW x PROVE Contains(t, x) <=> Contains(s, x) \/ x = e
  <2>1. ASSUME Contains(t, x) PROVE Contains(s, x) \/ x = e
    <3>1. PICK i \in 1 .. Len(s) + 1 : t[i] = x
      BY <1>1, <2>1 DEF Contains
    <3>2. QED
      BY <1>1, <3>1 DEF Contains
  <2>2. ASSUME Contains(s, x) PROVE Contains(t, x)
    BY <1>1, <2>2 DEF Contains
  <2>3. Contains(t, e)
    BY <1>1 DEF Contains
  <2>4. QED
    BY <2>1, <2>2, <2>3
<1>3. IsInjective(s) /\ ~Contains(s, e) => IsInjective(t)
  BY <1>1 DEF IsInjective, Contains
<1>4. Range(t) = Range(s) \cup {e}
  BY <1>1 DEF Range
<1>5. QED
  BY <1>1, <1>2, <1>3, <1>4 DEF t

LEMMA TailContains ==
  ASSUME NEW S, NEW s \in Seq(S), s # << >>
  PROVE  /\ Tail(s) \in Seq(S) /\ Head(s) \in S /\ Contains(s, Head(s))
         /\ \A x : Contains(Tail(s), x) => Contains(s, x)
         /\ \A x : Contains(s, x) => Contains(Tail(s), x) \/ x = Head(s)
         /\ IsInjective(s) => IsInjective(Tail(s)) /\ ~Contains(Tail(s), Head(s))
         /\ Range(s) = Range(Tail(s)) \cup {Head(s)}
<1> DEFINE t == Tail(s)
<1>1. /\ t \in Seq(S) /\ Head(s) = s[1] /\ Head(s) \in S
      /\ Len(s) \in Nat \ {0} /\ DOMAIN s = 1 .. Len(s)
      /\ Len(t) = Len(s) - 1 /\ DOMAIN t = 1 .. Len(s) - 1
      /\ \A i \in 1 .. Len(s) - 1 : t[i] = s[i + 1]
  OBVIOUS
<1> HIDE DEF t
<1>2. ASSUME NEW x, Contains(t, x) PROVE Contains(s, x)
  <2>1. PICK i \in 1 .. Len(s) - 1 : t[i] = x
    BY <1>1, <1>2 DEF Contains
  <2>2. i + 1 \in 1 .. Len(s) /\ s[i + 1] = x
    BY <1>1, <2>1
  <2>3. QED
    BY <2>2 DEF Contains
<1>3. ASSUME NEW x, Contains(s, x) PROVE Contains(t, x) \/ x = Head(s)
  <2>1. PICK i \in 1 .. Len(s) : s[i] = x
    BY <1>3 DEF Contains
  <2>2. CASE i = 1
    BY <1>1, <2>1, <2>2
  <2>3. CASE i # 1
    <3>1. i - 1 \in 1 .. Len(t) /\ t[i - 1] = x
      BY <1>1, <2>1, <2>3
    <3>2. QED
      BY <3>1 DEF Contains
  <2>4. QED
    BY <2>2, <2>3
<1>4. ASSUME IsInjective(s) PROVE IsInjective(t) /\ ~Contains(t, Head(s))
  <2>1. ASSUME NEW i \in DOMAIN t, NEW j \in DOMAIN t, t[i] = t[j] PROVE i = j
    <3>1. i + 1 = j + 1
      BY <1>1, <1>4, <2>1 DEF IsInjective
    <3>2. QED
      BY <1>1, <3>1
  <2>2. ASSUME NEW i \in 1 .. Len(t), t[i] = Head(s) PROVE FALSE
    <3>1. i + 1 = 1
      BY <1>1, <1>4, <2>2 DEF IsInjective
    <3>2. QED
      BY <1>1, <3>1
  <2>3. QED
    BY <2>1, <2>2 DEF IsInjective, Contains
<1>5. Range(s) = Range(t) \cup {Head(s)}
  <2>1. Range(s) = {x \in S : Contains(s, x)} /\ Range(t) = {x \in S : Contains(t, x)}
    BY <1>1 DEF Range, Contains
  <2>2. Contains(s, Head(s))
    BY <1>1 DEF Contains
  <2>3. QED
    BY <1>1, <1>2, <1>3, <2>1, <2>2
<1>6. Contains(s, Head(s))
  BY <1>1 DEF Contains
<1>7. QED
  BY <1>1, <1>2, <1>3, <1>4, <1>5, <1>6 DEF t

-----------------------------------------------------------------------------
(* Parts that several actions share.                                       *)

\* The main task is no cab.
LEMMA MainIsNoCab == Main \notin Cabs /\ Cabs \subseteq Senders /\ Main \in Senders
<1>1. Cabs \subseteq Nat \ {0}
  BY CabsAssumption DEF Cabs, Range
<1>2. QED
  BY <1>1 DEF Main, Senders

\* What is left to do after the first item.
LEMMA RestInOrder ==
  ASSUME IInv, work # << >>
  PROVE  /\ Head(work) \in WorkItems /\ Tail(work) \in Seq(WorkItems)
         /\ Head(work).op = "route" => ~Contains(free_cabs_list, Head(work).cab)
         /\ Head(work).op = "answer" => Tail(work) = << >> /\ ~Contains(inbox, Main)
         /\ \A i \in DOMAIN Tail(work) :
              /\ Tail(work)[i].op = "route"  => ~Contains(free_cabs_list, Tail(work)[i].cab)
              /\ Tail(work)[i].op = "answer" =>
                   i = Len(Tail(work)) /\ main = "asking" /\ ~Contains(inbox, Main)
<1>1. work \in Seq(WorkItems)
  BY DEF IInv, TypeOK, WorkItems
<1>2. /\ Head(work) = work[1] /\ 1 \in DOMAIN work /\ Head(work) \in WorkItems
      /\ Tail(work) \in Seq(WorkItems) /\ Len(work) \in Nat \ {0}
      /\ Len(Tail(work)) = Len(work) - 1 /\ DOMAIN Tail(work) = 1 .. Len(work) - 1
      /\ \A i \in 1 .. Len(work) - 1 : Tail(work)[i] = work[i + 1] /\ i + 1 \in DOMAIN work
  BY <1>1
<1>3. Head(work).op = "route" => ~Contains(free_cabs_list, Head(work).cab)
  BY <1>2 DEF IInv, WorkInOrder
<1>4. ASSUME Head(work).op = "answer" PROVE Tail(work) = << >> /\ ~Contains(inbox, Main)
  <2>1. Len(work) = 1 /\ ~Contains(inbox, Main)
    BY <1>2, <1>4 DEF IInv, WorkInOrder
  <2>2. Len(Tail(work)) = 0 /\ Tail(work) \in Seq(WorkItems)
    BY <1>2, <2>1
  <2>3. ASSUME NEW t \in Seq(WorkItems), Len(t) = 0 PROVE t = << >>
    BY <2>3
  <2>4. Tail(work) = << >>
    BY <2>2, <2>3
  <2>5. QED
    BY <2>1, <2>4
<1>5. ASSUME NEW i \in DOMAIN Tail(work)
      PROVE  /\ Tail(work)[i].op = "route"  => ~Contains(free_cabs_list, Tail(work)[i].cab)
             /\ Tail(work)[i].op = "answer" =>
                  i = Len(Tail(work)) /\ main = "asking" /\ ~Contains(inbox, Main)
  <2>1. Tail(work)[i] = work[i + 1] /\ i + 1 \in DOMAIN work
    BY <1>2
  <2>2. /\ work[i + 1].op = "route" => ~Contains(free_cabs_list, work[i + 1].cab)
        /\ work[i + 1].op = "answer" =>
             i + 1 = Len(work) /\ main = "asking" /\ ~Contains(inbox, Main)
    BY <2>1 DEF IInv, WorkInOrder
  <2>3. i + 1 = Len(work) => i = Len(Tail(work))
    BY <1>2
  <2>4. QED
    BY <2>1, <2>2, <2>3
<1>6. QED
  BY <1>2, <1>3, <1>4, <1>5

\* A courier that is neither free nor in the queue joins the queue.
LEMMA ReportSent ==
  ASSUME IInv, ~failed, NEW c \in Cabs,
         courier[c] \in {"on_route", "waiting"},
         courier' = [courier EXCEPT ![c] = "reporting"],
         inbox' = Append(inbox, c), UNCHANGED <<main, failed, listVars>>
  PROVE  /\ inbox' \in Seq(Senders) /\ IsInjective(inbox')
         /\ courier' \in [Cabs -> {"receive", "routing", "on_route", "forgotten", "waiting",
                                   "reporting"}]
         /\ Contains(inbox', Main) <=> Contains(inbox, Main)
         /\ CabsAccounted'
<1>1. ~Contains(inbox, c) /\ ~Contains(free_cabs_list, c)
  BY DEF IInv, CabsAccounted
<1>2. inbox \in Seq(Senders) /\ IsInjective(inbox) /\ c \in Senders /\ c # Main
  BY MainIsNoCab DEF IInv, TypeOK
<1>3. /\ inbox' \in Seq(Senders) /\ IsInjective(inbox')
      /\ \A x : Contains(inbox', x) <=> Contains(inbox, x) \/ x = c
  BY <1>1, <1>2, AppendContains
<1>4. courier \in [Cabs -> {"receive", "routing", "on_route", "forgotten", "waiting",
                            "reporting"}]
  BY DEF IInv, TypeOK
<1>5. \A x \in Cabs : courier'[x] = IF x = c THEN "reporting" ELSE courier[x]
  BY <1>4
<1>6. CabsAccounted'
  <2>1. CabsAccounted
    BY DEF IInv
  <2>2. UNCHANGED <<free_cabs_list, free_dispatch_list, dispatch>>
    BY DEF listVars
  <2>3. ASSUME NEW x \in Cabs
        PROVE  /\ Contains(free_cabs_list, x) <=> dispatch[x] = NoDispatch
               /\ Contains(free_cabs_list, x) => courier'[x] = "receive"
               /\ Contains(inbox', x) <=> courier'[x] = "reporting"
    BY <1>1, <1>3, <1>5, <2>1 DEF CabsAccounted
  <2>4. QED
    BY <2>1, <2>2, <2>3 DEF CabsAccounted
<1>7. QED
  BY <1>2, <1>3, <1>4, <1>6

\* The service takes a message.
LEMMA InboxTaken ==
  ASSUME IInv, NEW sender, Received(sender)
  PROVE  /\ inbox' \in Seq(Senders) /\ IsInjective(inbox')
         /\ sender \in Senders /\ Contains(inbox, sender)
         /\ \A x : Contains(inbox', x) <=> Contains(inbox, x) /\ x # sender
<1>1. inbox \in Seq(Senders) /\ IsInjective(inbox) /\ inbox # << >>
  BY DEF IInv, TypeOK, Received
<1>2. QED
  BY <1>1, TailContains DEF Received

\* The service takes a courier's report and answers it.
LEMMA ReportTaken ==
  ASSUME IInv, NEW c \in Cabs, NEW e, Reported(c, e)
  PROVE  /\ ~failed /\ work = << >>
         /\ inbox' \in Seq(Senders) /\ IsInjective(inbox')
         /\ Contains(inbox', Main) => main' = "asking"
         /\ courier' \in [Cabs -> {"receive", "routing", "on_route", "forgotten", "waiting",
                                   "reporting"}]
         /\ ~Contains(free_cabs_list, c) /\ courier'[c] = "receive"
         /\ dispatch[c] \in Dispatches
         /\ \A x \in Cabs : /\ Contains(inbox', x) <=> courier'[x] = "reporting"
                            /\ Contains(free_cabs_list, x) => courier'[x] = "receive"
         /\ UNCHANGED <<event, status, main>>
<1>1. /\ inbox' \in Seq(Senders) /\ IsInjective(inbox') /\ Contains(inbox, c)
      /\ \A x : Contains(inbox', x) <=> Contains(inbox, x) /\ x # c
  BY InboxTaken DEF Reported
<1>2. ~failed /\ work = << >> /\ CabsAccounted /\ TypeOK
  BY DEF Reported, Received, IInv
<1>3. courier[c] = "reporting" /\ ~Contains(free_cabs_list, c)
  BY <1>1, <1>2 DEF CabsAccounted
<1>4. courier' \in [Cabs -> {"receive", "routing", "on_route", "forgotten", "waiting",
                             "reporting"}]
      /\ \A x \in Cabs : courier'[x] = IF x = c THEN "receive" ELSE courier[x]
  BY <1>2 DEF TypeOK, Reported
<1>5. \A x \in Cabs : /\ Contains(inbox', x) <=> courier'[x] = "reporting"
                      /\ Contains(free_cabs_list, x) => courier'[x] = "receive"
  BY <1>1, <1>2, <1>3, <1>4 DEF CabsAccounted
<1>6. dispatch[c] \in Dispatches
  BY <1>2, <1>3 DEF CabsAccounted, TypeOK
<1>7. UNCHANGED <<event, status, main>>
  BY DEF Reported
<1>8. Contains(inbox', Main) => main' = "asking"
  BY <1>1, <1>2, <1>7 DEF TypeOK
<1>9. QED
  BY <1>1, <1>2, <1>3, <1>4, <1>5, <1>6, <1>7, <1>8

-----------------------------------------------------------------------------
(* The initial state.                                                      *)

LEMMA InitIInv == Init => IInv
<1>1. SUFFICES ASSUME Init PROVE IInv
  OBVIOUS
<1> DEFINE free == [i \in Dispatches |-> i]
<1>2. /\ cab_descriptors \in Seq(Nat \ {0}) /\ IsInjective(cab_descriptors)
      /\ NUM_REQUESTS \in Nat /\ NUM_REQUESTS >= Len(cab_descriptors)
      /\ Len(cab_descriptors) \in Nat /\ DOMAIN cab_descriptors = 1 .. Len(cab_descriptors)
  BY CabsAssumption
<1>3. /\ cab_descriptors \in Seq(Cabs)
      /\ \A c \in Cabs : Contains(cab_descriptors, c)
  BY <1>2 DEF Cabs, Range, Contains
<1>4. free \in Seq(Dispatches) /\ Len(free) = NUM_REQUESTS /\ Range(free) = Dispatches
  <2>1. free \in [1 .. NUM_REQUESTS -> Dispatches] /\ DOMAIN free = 1 .. NUM_REQUESTS
    BY DEF Dispatches
  <2>2. free \in Seq(Dispatches) /\ Len(free) = NUM_REQUESTS
    BY <1>2, <2>1
  <2>3. Range(free) = Dispatches
    BY DEF Range
  <2>4. QED
    BY <2>2, <2>3
<1>5. free = << >> => cab_descriptors = << >>
  BY <1>2, <1>4
<1>6. IsInjective(<< >>) /\ \A x : ~Contains(<< >>, x)
  BY DEF IsInjective, Contains
<1>7. TypeOK
  <2>1. /\ inbox \in Seq(Senders) /\ IsInjective(inbox)
        /\ work \in Seq(Orders \cup Stops \cup {Answer})
        /\ ~Contains(inbox, Main)
    BY <1>1, <1>6 DEF Init
  <2>2. /\ free_cabs_list \in Seq(Cabs)
        /\ free_dispatch_list \in Seq(Dispatches) /\ Len(free_dispatch_list) <= NUM_REQUESTS
    BY <1>1, <1>2, <1>3, <1>4 DEF Init
  <2>3. /\ dispatch \in [Cabs -> Dispatches \cup {NoDispatch}]
        /\ courier \in [Cabs -> {"receive", "routing", "on_route", "forgotten", "waiting",
                                 "reporting"}]
        /\ event \in [Cabs -> {"CAB_DISPATCH_ARRIVE", "CAB_DISPATCH_COMPLETE"}]
        /\ status \in [Cabs -> {0, -1}]
        /\ main \in {"idle", "asking"} /\ controller \in {"serving", "waiting"}
        /\ failed \in BOOLEAN
    BY <1>1 DEF Init
  <2>4. QED
    BY <2>1, <2>2, <2>3 DEF TypeOK
<1>8. CabsAccounted
  <2>1. free_dispatch_list = free /\ free_cabs_list = cab_descriptors /\ inbox = << >>
    BY <1>1 DEF Init
  <2>2. ASSUME NEW c \in Cabs
        PROVE  /\ Contains(free_cabs_list, c) <=> dispatch[c] = NoDispatch
               /\ Contains(free_cabs_list, c) => courier[c] = "receive"
               /\ Contains(inbox, c) <=> courier[c] = "reporting"
    BY <1>1, <1>3, <1>6, <2>1 DEF Init
  <2>3. Range(free_dispatch_list) \cup Range(dispatch) \cup {NoDispatch}
          = Dispatches \cup {NoDispatch}
    BY <1>1, <1>4, <2>1 DEF Init, Range
  <2>4. QED
    BY <1>2, <1>5, <2>1, <2>2, <2>3 DEF CabsAccounted
<1>9. WorkInOrder
  BY <1>1 DEF Init, WorkInOrder
<1>10. QED
  BY <1>7, <1>8, <1>9 DEF IInv

-----------------------------------------------------------------------------
(* The Sends and the Reply of a handler.                                   *)

\* The courier that gets an order listens, so it is not in the queue; and it is
\* not free.
LEMMA SendRouteIInv ==
  ASSUME IInv, SendRoute
  PROVE  IInv'
<1> DEFINE c == Head(work).cab
<1>1. TypeOK /\ CabsAccounted /\ ~failed /\ work # << >> /\ courier[c] = "receive"
      /\ Head(work).op = "route"
  BY DEF IInv, SendRoute
<1>2. Head(work) \in Orders
  BY <1>1, RestInOrder DEF WorkItems, Stops, Answer, TrainControllerRouteStop
<1>3. c \in Cabs /\ Head(work).event \in {"CAB_DISPATCH_ARRIVE", "CAB_DISPATCH_COMPLETE"}
  <2>1. PICK x \in Cabs, e \in {"CAB_DISPATCH_ARRIVE", "CAB_DISPATCH_COMPLETE"} :
          Head(work) = CabRoute(x, e)
    BY <1>2 DEF Orders
  <2>2. QED
    BY <2>1 DEF CabRoute
<1>4. ~Contains(free_cabs_list, c)
  BY <1>1, RestInOrder
<1>5. /\ work' = Tail(work) /\ UNCHANGED <<inbox, status, main, failed, controller>>
      /\ UNCHANGED <<free_cabs_list, free_dispatch_list, dispatch>>
      /\ courier' = [courier EXCEPT ![c] = "routing"]
      /\ event'   = [event EXCEPT ![c] = Head(work).event]
  BY DEF SendRoute, listVars
<1> HIDE DEF c
<1>6. TypeOK'
  BY <1>1, <1>3, <1>5, RestInOrder DEF TypeOK, WorkItems
<1>7. CabsAccounted'
  <2>1. \A x \in Cabs : courier'[x] = IF x = c THEN "routing" ELSE courier[x]
    BY <1>1, <1>5 DEF TypeOK
  <2>2. ASSUME NEW x \in Cabs
        PROVE  /\ Contains(free_cabs_list, x) => courier'[x] = "receive"
               /\ Contains(inbox, x) <=> courier'[x] = "reporting"
    BY <1>1, <1>4, <2>1 DEF CabsAccounted
  <2>3. QED
    BY <1>1, <1>5, <2>2 DEF CabsAccounted
<1>8. WorkInOrder'
  BY <1>1, <1>5, RestInOrder DEF WorkInOrder
<1>9. QED
  BY <1>6, <1>7, <1>8 DEF IInv

LEMMA SendStopIInv ==
  ASSUME IInv, SendStop
  PROVE  IInv'
<1> DEFINE b == Head(work).cab
<1>1. TypeOK /\ CabsAccounted /\ ~failed /\ work # << >> /\ Head(work).op = "stop"
  BY DEF IInv, SendStop, Stopping
<1>2. Head(work) \in Stops
  BY <1>1, RestInOrder DEF WorkItems, Orders, Answer, CabRoute
<1>3. b \in Cabs
  <2>1. PICK x \in Cabs, y \in Cabs : Head(work) = TrainControllerRouteStop(x, y)
    BY <1>2 DEF Stops
  <2>2. QED
    BY <2>1 DEF TrainControllerRouteStop
<1>4. work' = Tail(work) /\ UNCHANGED <<event, main, failed, controller, listVars>>
  BY DEF SendStop
<1>5. TypeOK' /\ CabsAccounted' /\ (Contains(inbox', Main) <=> Contains(inbox, Main))
  <2>1. CASE UNCHANGED <<courier, status, inbox>>
    <3>1. TypeOK'
      BY <1>1, <1>4, <2>1, RestInOrder DEF TypeOK, WorkItems, listVars
    <3>2. CabsAccounted'
      BY <1>1, <1>4, <2>1 DEF CabsAccounted, listVars
    <3>3. QED
      BY <2>1, <3>1, <3>2
  <2>2. CASE ~UNCHANGED <<courier, status, inbox>>
    <3>1. /\ courier[b] \in {"on_route", "waiting"}
          /\ courier' = [courier EXCEPT ![b] = "reporting"]
          /\ status'  = [status EXCEPT ![b] = -1]
          /\ inbox'   = Append(inbox, b)
      BY <2>2 DEF SendStop
    <3>2. /\ inbox' \in Seq(Senders) /\ IsInjective(inbox')
          /\ courier' \in [Cabs -> {"receive", "routing", "on_route", "forgotten", "waiting",
                                    "reporting"}]
          /\ Contains(inbox', Main) <=> Contains(inbox, Main)
          /\ CabsAccounted'
      BY <1>1, <1>3, <1>4, <3>1, ReportSent
    <3>3. status' \in [Cabs -> {0, -1}]
      BY <1>1, <1>3, <3>1 DEF TypeOK
    <3>4. TypeOK'
      BY <1>1, <1>4, <3>2, <3>3, RestInOrder DEF TypeOK, WorkItems, listVars
    <3>5. QED
      BY <3>2, <3>4
  <2>3. QED
    BY <2>1, <2>2
<1>6. WorkInOrder'
  BY <1>1, <1>4, <1>5, RestInOrder DEF WorkInOrder, listVars
<1>7. QED
  BY <1>5, <1>6 DEF IInv

LEMMA SkipStopIInv ==
  ASSUME IInv, SkipStop
  PROVE  IInv'
<1>1. TypeOK /\ CabsAccounted /\ work # << >>
  BY DEF IInv, SkipStop, Stopping
<1>2. work' = Tail(work) /\ UNCHANGED <<inbox, main, failed, controller, listVars, courierVars>>
  BY DEF SkipStop
<1>3. TypeOK'
  BY <1>1, <1>2, RestInOrder DEF TypeOK, WorkItems, listVars, courierVars
<1>4. CabsAccounted'
  BY <1>1, <1>2 DEF CabsAccounted, listVars, courierVars
<1>5. WorkInOrder'
  BY <1>1, <1>2, RestInOrder DEF WorkInOrder, listVars
<1>6. QED
  BY <1>3, <1>4, <1>5 DEF IInv

LEMMA SendAnswerIInv ==
  ASSUME IInv, SendAnswer
  PROVE  IInv'
<1>1. TypeOK /\ CabsAccounted /\ ~failed /\ work # << >> /\ Head(work).op = "answer"
  BY DEF IInv, SendAnswer
<1>2. Tail(work) = << >> /\ ~Contains(inbox, Main)
  BY <1>1, RestInOrder
<1>3. work' = << >> /\ main' = "idle" /\ UNCHANGED <<inbox, failed, controller, listVars, courierVars>>
  BY <1>2 DEF SendAnswer
<1>4. TypeOK'
  BY <1>1, <1>2, <1>3 DEF TypeOK, listVars, courierVars
<1>5. CabsAccounted'
  BY <1>1, <1>3 DEF CabsAccounted, listVars, courierVars
<1>6. WorkInOrder'
  BY <1>3 DEF WorkInOrder
<1>7. QED
  BY <1>4, <1>5, <1>6 DEF IInv

-----------------------------------------------------------------------------
(* The couriers.                                                           *)

\* A courier in a call of the train controller is neither free nor in the queue,
\* and is not afterwards.
LEMMA CourierStep ==
  ASSUME IInv, NEW c \in Cabs, NEW from, NEW to, Step(c, from, to), UNCHANGED inbox,
         from \in {"routing", "on_route"}, to \in {"on_route", "waiting", "forgotten"},
         status' \in [Cabs -> {0, -1}]
  PROVE  IInv'
<1>1. /\ TypeOK /\ CabsAccounted /\ WorkInOrder /\ ~failed /\ courier[c] = from
      /\ courier' = [courier EXCEPT ![c] = to]
      /\ UNCHANGED <<work, event, main, failed, controller, listVars>>
  BY DEF IInv, Step
<1>2. TypeOK'
  BY <1>1 DEF TypeOK, listVars
<1>3. CabsAccounted'
  <2>1. \A x \in Cabs : courier'[x] = IF x = c THEN to ELSE courier[x]
    BY <1>1 DEF TypeOK
  <2>2. ASSUME NEW x \in Cabs
        PROVE  /\ Contains(free_cabs_list, x) => courier'[x] = "receive"
               /\ Contains(inbox, x) <=> courier'[x] = "reporting"
    BY <1>1, <2>1 DEF CabsAccounted
  <2>3. QED
    BY <1>1, <2>2 DEF CabsAccounted, listVars
<1>4. WorkInOrder'
  BY <1>1 DEF WorkInOrder, listVars
<1>5. QED
  BY <1>2, <1>3, <1>4 DEF IInv

LEMMA ReportEventIInv ==
  ASSUME IInv, NEW c \in Cabs, ReportEvent(c)
  PROVE  IInv'
<1>1. /\ TypeOK /\ WorkInOrder /\ ~failed /\ courier[c] \in {"on_route", "waiting"}
      /\ courier' = [courier EXCEPT ![c] = "reporting"] /\ inbox' = Append(inbox, c)
      /\ UNCHANGED <<work, event, status, main, failed, controller, listVars>>
  BY DEF IInv, ReportEvent, Step
<1>2. /\ inbox' \in Seq(Senders) /\ IsInjective(inbox')
      /\ courier' \in [Cabs -> {"receive", "routing", "on_route", "forgotten", "waiting",
                                "reporting"}]
      /\ Contains(inbox', Main) <=> Contains(inbox, Main)
      /\ CabsAccounted'
  BY <1>1, ReportSent
<1>3. TypeOK'
  BY <1>1, <1>2 DEF TypeOK, listVars
<1>4. WorkInOrder'
  BY <1>1, <1>2 DEF WorkInOrder, listVars
<1>5. QED
  BY <1>2, <1>3, <1>4 DEF IInv

-----------------------------------------------------------------------------
(* The main task's request.                                                *)

LEMMA CabRequestIInv ==
  ASSUME IInv, CabRequest
  PROVE  IInv'
<1>1. /\ TypeOK /\ CabsAccounted /\ WorkInOrder /\ main = "idle"
      /\ main' = "asking" /\ inbox' = Append(inbox, Main)
      /\ UNCHANGED <<work, failed, controller, listVars, courierVars>>
  BY DEF IInv, CabRequest
<1>2. inbox \in Seq(Senders) /\ IsInjective(inbox) /\ ~Contains(inbox, Main)
  BY <1>1 DEF TypeOK
<1>3. /\ inbox' \in Seq(Senders) /\ IsInjective(inbox')
      /\ \A x : Contains(inbox', x) <=> Contains(inbox, x) \/ x = Main
  BY <1>1, <1>2, MainIsNoCab, AppendContains
<1>4. TypeOK'
  BY <1>1, <1>3 DEF TypeOK, listVars, courierVars
<1>5. CabsAccounted'
  <2>1. \A x \in Cabs : Contains(inbox', x) <=> Contains(inbox, x)
    BY <1>3, MainIsNoCab
  <2>2. UNCHANGED <<free_cabs_list, free_dispatch_list, dispatch, courier, failed, controller>>
    BY <1>1 DEF listVars, courierVars
  <2>3. QED
    BY <1>1, <2>1, <2>2 DEF CabsAccounted
<1>6. WorkInOrder'
  BY <1>1 DEF WorkInOrder, listVars
<1>7. QED
  BY <1>4, <1>5, <1>6 DEF IInv

LEMMA RequestBusyIInv ==
  ASSUME IInv, RequestBusy
  PROVE  IInv'
<1>1. /\ TypeOK /\ CabsAccounted /\ work' = <<Answer>>
      /\ UNCHANGED <<main, failed, controller, listVars, courierVars>>
  BY DEF IInv, RequestBusy
<1>2. /\ inbox' \in Seq(Senders) /\ IsInjective(inbox') /\ Contains(inbox, Main)
      /\ \A x : Contains(inbox', x) <=> Contains(inbox, x) /\ x # Main
  BY InboxTaken DEF RequestBusy
<1>3. main = "asking"
  BY <1>1, <1>2 DEF TypeOK
<1>4. work' \in Seq(Orders \cup Stops \cup {Answer})
  BY <1>1
<1>5. TypeOK'
  BY <1>1, <1>2, <1>3, <1>4 DEF TypeOK, listVars, courierVars
<1>6. CabsAccounted'
  <2>1. \A x \in Cabs : Contains(inbox', x) <=> Contains(inbox, x)
    BY <1>2, MainIsNoCab
  <2>2. UNCHANGED <<free_cabs_list, free_dispatch_list, dispatch, courier, failed, controller>>
    BY <1>1 DEF listVars, courierVars
  <2>3. QED
    BY <1>1, <2>1, <2>2 DEF CabsAccounted
<1>7. WorkInOrder'
  <2>1. DOMAIN work' = {1} /\ work'[1] = Answer /\ Len(work') = 1
    BY <1>1
  <2>2. work'[1].op = "answer" /\ main' = "asking" /\ ~Contains(inbox', Main)
    BY <1>1, <1>2, <1>3, <2>1 DEF Answer
  <2>3. QED
    BY <2>1, <2>2 DEF WorkInOrder
<1>8. QED
  BY <1>5, <1>6, <1>7 DEF IInv

\* Every free cab gets the dispatch at the head of the list, and is not free any
\* more: there is one, and it is with those cabs afterwards.
LEMMA RequestIInv ==
  ASSUME IInv, Request
  PROVE  IInv'
<1> DEFINE d == Head(free_dispatch_list)
           orders == DispatchCabs
<1>1. /\ TypeOK /\ CabsAccounted /\ ~failed /\ free_cabs_list # << >>
      /\ free_cabs_list' = << >> /\ free_dispatch_list' = Tail(free_dispatch_list)
      /\ dispatch' = [c \in Cabs |-> IF Contains(free_cabs_list, c) THEN d ELSE dispatch[c]]
      /\ work' = orders \o <<Answer>>
      /\ UNCHANGED <<main, failed, controller, courier, event, status>>
  BY DEF IInv, Request, Received, courierVars
<1>2. /\ inbox' \in Seq(Senders) /\ IsInjective(inbox') /\ Contains(inbox, Main)
      /\ \A x : Contains(inbox', x) <=> Contains(inbox, x) /\ x # Main
  BY InboxTaken DEF Request
<1>3. main = "asking"
  BY <1>1, <1>2 DEF TypeOK
<1>4. /\ free_dispatch_list \in Seq(Dispatches) /\ free_dispatch_list # << >>
      /\ Tail(free_dispatch_list) \in Seq(Dispatches) /\ d \in Dispatches
      /\ Range(free_dispatch_list) = Range(free_dispatch_list') \cup {d}
      /\ Len(free_dispatch_list') <= NUM_REQUESTS
  <2>1. free_dispatch_list \in Seq(Dispatches) /\ free_dispatch_list # << >>
        /\ Len(free_dispatch_list) <= NUM_REQUESTS /\ NUM_REQUESTS \in Nat
    BY <1>1, CabsAssumption DEF TypeOK, CabsAccounted
  <2>2. Len(Tail(free_dispatch_list)) = Len(free_dispatch_list) - 1
    BY <2>1
  <2>3. Len(Tail(free_dispatch_list)) <= NUM_REQUESTS
    BY <2>1, <2>2
  <2>4. QED
    BY <1>1, <2>1, <2>3, TailContains
<1>5. d # NoDispatch
  BY <1>4 DEF Dispatches, NoDispatch
<1>6. PICK first \in Cabs : Contains(free_cabs_list, first)
  <2>1. free_cabs_list \in Seq(Cabs)
    BY <1>1 DEF TypeOK
  <2>2. QED
    BY <1>1, <2>1, TailContains
<1>7. /\ orders \in Seq(Orders) /\ Len(orders) \in Nat
      /\ \A i \in 1 .. Len(orders) : orders[i].op = "route"
  <2>1. free_cabs_list \in Seq(Cabs) /\ DOMAIN free_cabs_list = 1 .. Len(free_cabs_list)
        /\ Len(free_cabs_list) \in Nat
    BY <1>1 DEF TypeOK
  <2>2. \A i \in 1 .. Len(free_cabs_list) :
          CabRoute(free_cabs_list[i], "CAB_DISPATCH_ARRIVE") \in Orders
    BY <2>1 DEF Orders
  <2>3. orders \in [1 .. Len(free_cabs_list) -> Orders]
    BY <2>1, <2>2 DEF DispatchCabs
  <2>4. orders \in Seq(Orders) /\ Len(orders) = Len(free_cabs_list)
    BY <2>1, <2>3
  <2>5. \A i \in 1 .. Len(free_cabs_list) : orders[i].op = "route"
    BY <2>1 DEF DispatchCabs, CabRoute
  <2>6. QED
    BY <2>1, <2>4, <2>5
<1> HIDE DEF d, orders
<1>8. /\ work' \in Seq(Orders \cup Stops \cup {Answer}) /\ Len(work') = Len(orders) + 1
      /\ DOMAIN work' = 1 .. Len(orders) + 1
      /\ \A i \in 1 .. Len(orders) : work'[i] = orders[i]
  <2>1. orders \in Seq(Orders \cup Stops \cup {Answer})
    BY <1>7
  <2>2. <<Answer>> \in Seq(Orders \cup Stops \cup {Answer}) /\ Len(<<Answer>>) = 1
    OBVIOUS
  <2>3. QED
    BY <1>1, <2>1, <2>2
<1>9. IsInjective(<< >>) /\ \A x : ~Contains(<< >>, x)
  BY DEF IsInjective, Contains
<1>10. TypeOK'
  <2>1. dispatch' \in [Cabs -> Dispatches \cup {NoDispatch}]
    BY <1>1, <1>4 DEF TypeOK
  <2>2. /\ free_cabs_list' \in Seq(Cabs) /\ free_dispatch_list' \in Seq(Dispatches)
        /\ ~Contains(inbox', Main)
    BY <1>1, <1>2, <1>4
  <2>3. QED
    BY <1>1, <1>2, <1>3, <1>4, <1>8, <2>1, <2>2 DEF TypeOK
<1>11. CabsAccounted'
  <2>1. ASSUME NEW c \in Cabs
        PROVE  /\ ~Contains(free_cabs_list', c) /\ dispatch'[c] # NoDispatch
               /\ Contains(inbox', c) <=> courier'[c] = "reporting"
    BY <1>1, <1>2, <1>5, <1>9, MainIsNoCab DEF CabsAccounted
  <2>2. Range(free_dispatch_list') \cup Range(dispatch') \cup {NoDispatch}
          = Dispatches \cup {NoDispatch}
    <3>1. DOMAIN dispatch' = Cabs /\ DOMAIN dispatch = Cabs
      BY <1>1 DEF TypeOK
    <3>2. Range(dispatch') \subseteq Range(dispatch) \cup {d}
      BY <1>1, <3>1 DEF Range
    <3>3. d \in Range(dispatch')
      BY <1>1, <1>6, <3>1 DEF Range
    <3>4. Range(dispatch) \subseteq Range(dispatch') \cup {NoDispatch}
      BY <1>1, <3>1 DEF Range, CabsAccounted
    <3>5. Range(free_dispatch_list) \cup Range(dispatch) \cup {NoDispatch}
            = Dispatches \cup {NoDispatch}
      BY <1>1 DEF CabsAccounted
    <3>6. QED
      BY <1>4, <3>2, <3>3, <3>4, <3>5
  <2>3. QED
    BY <1>1, <1>9, <2>1, <2>2 DEF CabsAccounted
<1>12. WorkInOrder'
  <2>1. ASSUME NEW i \in DOMAIN work', work'[i].op = "answer"
        PROVE  i = Len(work') /\ main' = "asking" /\ ~Contains(inbox', Main)
    BY <1>1, <1>2, <1>3, <1>7, <1>8, <2>1
  <2>2. \A x : ~Contains(free_cabs_list', x)
    BY <1>1, <1>9
  <2>3. QED
    BY <2>1, <2>2 DEF WorkInOrder
<1>13. QED
  BY <1>10, <1>11, <1>12 DEF IInv

-----------------------------------------------------------------------------
(* The couriers' reports.                                                  *)

\* The cab that arrived is not free, and gets the only order there is after the
\* stops.
LEMMA DispatchArriveIInv ==
  ASSUME IInv, NEW c \in Cabs, DispatchArrive(c)
  PROVE  IInv'
<1> DEFINE stops == [i \in DOMAIN cab_descriptors |->
                       TrainControllerRouteStop(cab_descriptors[i], c)]
           order == CabRoute(c, "CAB_DISPATCH_COMPLETE")
<1>1. /\ TypeOK /\ CabsAccounted /\ Reported(c, "CAB_DISPATCH_ARRIVE")
      /\ work' = stops \o <<order>>
      /\ UNCHANGED <<failed, controller, free_cabs_list, free_dispatch_list, dispatch>>
  BY DEF IInv, DispatchArrive, listVars
<1>2. /\ inbox' \in Seq(Senders) /\ IsInjective(inbox')
      /\ Contains(inbox', Main) => main' = "asking"
      /\ courier' \in [Cabs -> {"receive", "routing", "on_route", "forgotten", "waiting",
                                "reporting"}]
      /\ ~Contains(free_cabs_list, c)
      /\ \A x \in Cabs : /\ Contains(inbox', x) <=> courier'[x] = "reporting"
                         /\ Contains(free_cabs_list, x) => courier'[x] = "receive"
      /\ UNCHANGED <<event, status, main>>
  BY <1>1, ReportTaken
<1>3. /\ stops \in Seq(Stops) /\ Len(stops) \in Nat
      /\ \A i \in 1 .. Len(stops) : stops[i].op = "stop"
  <2>1. /\ cab_descriptors \in Seq(Nat \ {0}) /\ Len(cab_descriptors) \in Nat
        /\ DOMAIN cab_descriptors = 1 .. Len(cab_descriptors)
    BY CabsAssumption
  <2>2. \A i \in 1 .. Len(cab_descriptors) : cab_descriptors[i] \in Cabs
    BY <2>1 DEF Cabs, Range
  <2>3. stops \in [1 .. Len(cab_descriptors) -> Stops]
    BY <2>1, <2>2 DEF Stops
  <2>4. stops \in Seq(Stops) /\ Len(stops) = Len(cab_descriptors)
    BY <2>1, <2>3
  <2>5. \A i \in 1 .. Len(cab_descriptors) : stops[i].op = "stop"
    BY <2>1 DEF TrainControllerRouteStop
  <2>6. QED
    BY <2>1, <2>4, <2>5
<1>4. order \in Orders /\ order.op = "route" /\ order.cab = c
  BY DEF Orders, CabRoute
<1> HIDE DEF stops, order
<1>5. /\ work' \in Seq(Orders \cup Stops \cup {Answer})
      /\ DOMAIN work' = 1 .. Len(stops) + 1 /\ work'[Len(stops) + 1] = order
      /\ \A i \in 1 .. Len(stops) : work'[i] = stops[i]
  <2>1. stops \in Seq(Orders \cup Stops \cup {Answer})
    BY <1>3
  <2>2. <<order>> \in Seq(Orders \cup Stops \cup {Answer}) /\ Len(<<order>>) = 1
    BY <1>4
  <2>3. QED
    BY <1>1, <2>1, <2>2
<1>6. TypeOK'
  BY <1>1, <1>2, <1>5 DEF TypeOK
<1>7. CabsAccounted'
  BY <1>1, <1>2 DEF CabsAccounted
<1>8. WorkInOrder'
  <2>1. ASSUME NEW i \in DOMAIN work'
        PROVE  work'[i].op # "answer"
               /\ (work'[i].op = "route" => ~Contains(free_cabs_list', work'[i].cab))
    <3>1. CASE i = Len(stops) + 1
      BY <1>1, <1>2, <1>4, <1>5, <3>1
    <3>2. CASE i # Len(stops) + 1
      <4>1. i \in 1 .. Len(stops) /\ work'[i].op = "stop"
        BY <1>3, <1>5, <2>1, <3>2
      <4>2. QED
        BY <4>1
    <3>3. QED
      BY <3>1, <3>2
  <2>2. QED
    BY <2>1 DEF WorkInOrder
<1>9. QED
  BY <1>6, <1>7, <1>8 DEF IInv

LEMMA DispatchFailedIInv ==
  ASSUME IInv, NEW c \in Cabs, DispatchFailed(c)
  PROVE  IInv'
<1>1. /\ TypeOK /\ CabsAccounted /\ WorkInOrder /\ Reported(c, "CAB_DISPATCH_ARRIVE")
      /\ UNCHANGED <<work, failed, controller, free_cabs_list, free_dispatch_list, dispatch>>
  BY DEF IInv, DispatchFailed, listVars
<1>2. /\ work = << >>
      /\ inbox' \in Seq(Senders) /\ IsInjective(inbox')
      /\ Contains(inbox', Main) => main' = "asking"
      /\ courier' \in [Cabs -> {"receive", "routing", "on_route", "forgotten", "waiting",
                                "reporting"}]
      /\ \A x \in Cabs : /\ Contains(inbox', x) <=> courier'[x] = "reporting"
                         /\ Contains(free_cabs_list, x) => courier'[x] = "receive"
      /\ UNCHANGED <<event, status, main>>
  BY <1>1, ReportTaken
<1>3. TypeOK'
  BY <1>1, <1>2 DEF TypeOK
<1>4. CabsAccounted'
  BY <1>1, <1>2 DEF CabsAccounted
<1>5. WorkInOrder'
  BY <1>1, <1>2 DEF WorkInOrder
<1>6. QED
  BY <1>3, <1>4, <1>5 DEF IInv

\* The cab was not on the list, so it is there once; and its dispatch goes back.
LEMMA DispatchCompleteIInv ==
  ASSUME IInv, NEW c \in Cabs, DispatchComplete(c)
  PROVE  IInv'
<1>1. /\ TypeOK /\ CabsAccounted /\ Reported(c, "CAB_DISPATCH_COMPLETE")
      /\ free_cabs_list' = Append(free_cabs_list, c) /\ UNCHANGED <<work, controller>>
  BY DEF IInv, DispatchComplete
<1>2. /\ ~failed /\ work = << >>
      /\ inbox' \in Seq(Senders) /\ IsInjective(inbox')
      /\ Contains(inbox', Main) => main' = "asking"
      /\ courier' \in [Cabs -> {"receive", "routing", "on_route", "forgotten", "waiting",
                                "reporting"}]
      /\ ~Contains(free_cabs_list, c) /\ courier'[c] = "receive"
      /\ dispatch[c] \in Dispatches
      /\ \A x \in Cabs : /\ Contains(inbox', x) <=> courier'[x] = "reporting"
                         /\ Contains(free_cabs_list, x) => courier'[x] = "receive"
      /\ UNCHANGED <<event, status, main>>
  BY <1>1, ReportTaken
<1>3. /\ free_cabs_list' \in Seq(Cabs)
      /\ \A x : Contains(free_cabs_list', x) <=> Contains(free_cabs_list, x) \/ x = c
      /\ IsInjective(free_cabs_list')
  <2>1. free_cabs_list \in Seq(Cabs) /\ IsInjective(free_cabs_list)
    BY <1>1, <1>2 DEF TypeOK, CabsAccounted
  <2>2. QED
    BY <1>1, <1>2, <2>1, AppendContains
<1>4. WorkInOrder'
  BY <1>1, <1>2 DEF WorkInOrder
<1>5. CASE Len(free_dispatch_list) >= NUM_REQUESTS
  <2>1. failed' = TRUE /\ UNCHANGED <<free_dispatch_list, dispatch>>
    <3>1. Len(free_dispatch_list) \in Nat /\ NUM_REQUESTS \in Nat
      BY <1>1, CabsAssumption DEF TypeOK
    <3>2. ~(Len(free_dispatch_list) < NUM_REQUESTS)
      BY <1>5, <3>1
    <3>3. QED
      BY <3>2 DEF DispatchComplete
  <2>2. TypeOK'
    BY <1>1, <1>2, <1>3, <2>1 DEF TypeOK
  <2>3. CabsAccounted'
    BY <2>1 DEF CabsAccounted
  <2>4. QED
    BY <1>4, <2>2, <2>3 DEF IInv
<1>6. CASE Len(free_dispatch_list) < NUM_REQUESTS
  <2>1. /\ free_dispatch_list' = Append(free_dispatch_list, dispatch[c])
        /\ dispatch' = [dispatch EXCEPT ![c] = NoDispatch]
        /\ UNCHANGED failed
    BY <1>6 DEF DispatchComplete
  <2>2. /\ free_dispatch_list' \in Seq(Dispatches)
        /\ Range(free_dispatch_list') = Range(free_dispatch_list) \cup {dispatch[c]}
        /\ free_dispatch_list' # << >> /\ Len(free_dispatch_list') <= NUM_REQUESTS
    <3>1. /\ free_dispatch_list \in Seq(Dispatches) /\ NUM_REQUESTS \in Nat
          /\ Len(free_dispatch_list) \in Nat
      BY <1>1, CabsAssumption DEF TypeOK
    <3>2. Len(free_dispatch_list') = Len(free_dispatch_list) + 1
      BY <1>2, <2>1, <3>1
    <3>3. free_dispatch_list' # << >> /\ Len(free_dispatch_list') <= NUM_REQUESTS
      BY <1>6, <3>1, <3>2
    <3>4. QED
      BY <1>2, <2>1, <3>1, <3>3, AppendContains
  <2>3. TypeOK'
    <3>1. dispatch' \in [Cabs -> Dispatches \cup {NoDispatch}]
      BY <1>1, <2>1 DEF TypeOK
    <3>2. QED
      BY <1>1, <1>2, <1>3, <2>1, <2>2, <3>1 DEF TypeOK
  <2>4. CabsAccounted'
    <3>1. DOMAIN dispatch = Cabs /\ DOMAIN dispatch' = Cabs
          /\ \A x \in Cabs : dispatch'[x] = IF x = c THEN NoDispatch ELSE dispatch[x]
      BY <1>1, <2>1 DEF TypeOK
    <3>2. ASSUME NEW x \in Cabs
          PROVE  /\ Contains(free_cabs_list', x) <=> dispatch'[x] = NoDispatch
                 /\ Contains(free_cabs_list', x) => courier'[x] = "receive"
      BY <1>1, <1>2, <1>3, <3>1 DEF CabsAccounted
    <3>3. Range(free_dispatch_list') \cup Range(dispatch') \cup {NoDispatch}
            = Dispatches \cup {NoDispatch}
      <4>1. Range(dispatch') \subseteq Range(dispatch) \cup {NoDispatch}
        BY <3>1 DEF Range
      <4>2. Range(dispatch) \subseteq Range(dispatch') \cup {dispatch[c]}
        BY <3>1 DEF Range
      <4>3. dispatch[c] \in Range(dispatch)
        BY <3>1 DEF Range
      <4>4. Range(free_dispatch_list) \cup Range(dispatch) \cup {NoDispatch}
              = Dispatches \cup {NoDispatch}
        BY <1>1, <1>2 DEF CabsAccounted
      <4>5. QED
        BY <2>2, <4>1, <4>2, <4>3, <4>4
    <3>4. QED
      BY <1>2, <1>3, <2>2, <3>2, <3>3 DEF CabsAccounted
  <2>5. QED
    BY <1>4, <2>3, <2>4 DEF IInv
<1>7. QED
  <2>1. Len(free_dispatch_list) \in Nat /\ NUM_REQUESTS \in Nat
    BY <1>1, CabsAssumption DEF TypeOK
  <2>2. QED
    BY <1>5, <1>6, <2>1

-----------------------------------------------------------------------------
(* The theorems.                                                           *)

LEMMA NextIInv == IInv /\ [Next]_vars => IInv'
<1>1. SUFFICES ASSUME IInv, [Next]_vars PROVE IInv'
  OBVIOUS
<1>2. CASE CabRequest
  BY <1>1, <1>2, CabRequestIInv
<1>3. CASE Service
  <2>1. CASE SendRoute \/ SkipStop \/ SendStop \/ SendAnswer
    BY <1>1, <2>1, SendRouteIInv, SkipStopIInv, SendStopIInv, SendAnswerIInv
  <2>2. CASE RequestBusy \/ Request
    BY <1>1, <2>2, RequestBusyIInv, RequestIInv
  <2>3. CASE \E c \in Cabs : DispatchArrive(c) \/ DispatchFailed(c) \/ DispatchComplete(c)
    BY <1>1, <2>3, DispatchArriveIInv, DispatchFailedIInv, DispatchCompleteIInv
  <2>4. QED
    BY <1>3, <2>1, <2>2, <2>3 DEF Service
<1>4. ASSUME NEW c \in Cabs, RouteRefused(c) \/ RouteEnded(c)
      PROVE  IInv'
  <2>1. /\ UNCHANGED inbox /\ status' = [status EXCEPT ![c] = 0]
        /\ Step(c, "routing", "waiting") \/ Step(c, "on_route", "waiting")
    BY <1>4 DEF RouteRefused, RouteEnded, Serves
  <2>2. status' \in [Cabs -> {0, -1}]
    BY <1>1, <2>1 DEF IInv, TypeOK
  <2>3. QED
    BY <1>1, <2>1, <2>2, CourierStep
<1>5. ASSUME NEW c \in Cabs, RouteAccepted(c) \/ RouteForgotten(c)
      PROVE  IInv'
  <2>1. /\ UNCHANGED <<status, inbox>>
        /\ Step(c, "routing", "on_route") \/ Step(c, "on_route", "forgotten")
    BY <1>5 DEF RouteAccepted, RouteForgotten, Serves
  <2>2. status' \in [Cabs -> {0, -1}]
    BY <1>1, <2>1 DEF IInv, TypeOK
  <2>3. QED
    BY <1>1, <2>1, <2>2, CourierStep
<1>6. ASSUME NEW c \in Cabs, ReportEvent(c) PROVE IInv'
  BY <1>1, <1>6, ReportEventIInv
<1>7. CASE ControllerWaits \/ ControllerGoesOn
  BY <1>1, <1>7 DEF ControllerWaits, ControllerGoesOn, IInv, TypeOK, CabsAccounted,
    WorkInOrder, listVars, courierVars
<1>8. CASE UNCHANGED vars
  BY <1>1, <1>8 DEF IInv, TypeOK, CabsAccounted, WorkInOrder, vars
<1>9. QED
  BY <1>1, <1>2, <1>3, <1>4, <1>5, <1>6, <1>7, <1>8 DEF Next

THEOREM Inductive == Spec => []IInv
<1>1. Init => IInv
  BY InitIInv
<1>2. IInv /\ [Next]_vars => IInv'
  BY NextIInv
<1>3. QED
  BY <1>1, <1>2, PTL DEF Spec

\* The variables have their types, nobody is in the service's queue twice, and
\* the list of dispatches holds no more than there are: with DispatchFreedOnce
\* violated in the code, what overflows is caught by the AssertF, never written.
THEOREM TypeCorrect == Spec => []TypeOK
<1>1. IInv => TypeOK
  BY DEF IInv
<1>2. QED
  BY <1>1, Inductive, PTL

\* Until an AssertF stops the system, a cab is free exactly if it has no
\* dispatch, and its courier listens then; every dispatch is on the list or with
\* a cab, and one is left for the cabs that may be sent: for any fleet and any
\* number of dispatches that is not smaller.
THEOREM CabsAccountedFor == Spec => []CabsAccounted
<1>1. IInv => CabsAccounted
  BY DEF IInv
<1>2. QED
  BY <1>1, Inductive, PTL

\* Who is to be answered is waiting for the answer, and is answered by the last
\* thing a handler does; no cab is sent while it counts as free.
THEOREM HandlersInOrder == Spec => []WorkInOrder
<1>1. IInv => WorkInOrder
  BY DEF IInv
<1>2. QED
  BY <1>1, Inductive, PTL
=============================================================================
