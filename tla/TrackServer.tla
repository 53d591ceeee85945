---------------------------- MODULE TrackServer ----------------------------
(***************************************************************************)
(* The track server's reservations (tasks/track_server.c).                 *)
(*                                                                         *)
(* Every train has a table of segments.  A request walks along the track   *)
(* as the server's copy of the turn-outs has them, checks each piece       *)
(* against what other trains hold, frees what the train held before and    *)
(* enters the new pieces, each on both edges of the rail, into the table   *)
(* and into the edge's list of reservations.  A list is a set here: the    *)
(* code only ever searches it.                                             *)
(*                                                                         *)
(* The server handles one message at a time, so a request is one action;   *)
(* the one call it makes in between, to the switch server, is modelled in  *)
(* SwitchServer.                                                           *)
(***************************************************************************)
EXTENDS Track

CONSTANTS
  Trains,                   \* the trains get_reservation knows
  BranchSafety(_),          \* of a train's requests: its train->length
  Lengths,                  \* the lengths asked for
  Offsets,                  \* and the offsets: the controller asks with 0
  SEGMENTS_PER_TRAIN,       \* 44 in the code
  MAX_RESERVATION_LENGTH    \* 30000 in the code

Locations == [node : Sensors, offset : Offsets]
Slots     == 1..SEGMENTS_PER_TRAIN

NoEdge == <<"none", "none">>
Free   == [edge |-> NoEdge, start |-> 0, stop |-> 0]
Segments == [edge : Edges, start : Nat, stop : Nat] \cup {Free}

ASSUME RequestsAssumption ==
  /\ \A t \in Trains : BranchSafety(t) \in Nat \ {0}
  /\ Lengths \subseteq Nat \ {0}
  /\ Offsets \subseteq Nat
  /\ SEGMENTS_PER_TRAIN \in Nat
  /\ MAX_RESERVATION_LENGTH \in Nat
  /\ NoEdge \notin Edges

\* A piece takes two slots.
MostPieces == SEGMENTS_PER_TRAIN \div 2

\* reservation_verify returns, for every request that can be made, and the
\* pieces fit the table: the AssertFs of reservation_insert hold.
ASSUME WalksAssumption ==
  \A table \in SwitchTables, location \in Locations,
     length \in Lengths, train \in Trains :
    LET position == Normalize(table, location) IN
    position # NotOnTrack =>
      \E n \in 1 .. MostPieces :
        Ends(Along(table, position, length, BranchSafety(train), MostPieces)[n])

VARIABLES
  switch_table,         \* the server's copy of the turn-outs
  train_reservations,   \* each train's table of segments
  reservation_node,     \* the reservations on an edge: trains and their slots
  status,               \* the last answer to each train's requests
  thrown                \* history: turn-outs thrown in what a train has reserved

vars == <<switch_table, train_reservations, reservation_node, status, thrown>>

Init ==
  /\ switch_table \in SwitchTables
  /\ train_reservations = [t \in Trains |-> [i \in Slots |-> Free]]
  /\ reservation_node   = [e \in Edges |-> {}]
  /\ status = [t \in Trains |-> -1]
  /\ thrown = [t \in Trains |-> {}]

-----------------------------------------------------------------------------
(* Requests for track.                                                     *)

\* Defect for NoCollision: only where the new piece starts is looked at.
CrossesAtStart(start, stop, r) == start >= r.start /\ start <= r.stop

Crosses(start, stop, r) ==
  \/ start >= r.start /\ start <= r.stop
  \/ stop  >= r.start /\ stop  <= r.stop
  \/ start <= r.start /\ stop  >= r.stop

Available(train, piece) ==
  \A x \in reservation_node[piece.edge] :
    x[1] # train => ~Crosses(piece.start, piece.stop, train_reservations[x[1]][x[2]])

\* 0, -1 if the track is taken or ends, -2 if it is too much.  (The -3 for an
\* exit is never reached: the test before it returns -1.)
Verify(train, walk) ==
  IF \E i \in DOMAIN walk :
       \/ ~Available(train, walk[i])
       \/ IsExit(Dest(walk[i].edge)) /\ walk[i].left # 0
  THEN -1
  ELSE IF walk # << >> /\ walk[Len(walk)].total >= MAX_RESERVATION_LENGTH THEN -2 ELSE 0

\* Defect for ListsMatchTables: only the pieces in the direction of travel.
LinkedForward(train, i) ==
  /\ train_reservations[train][i].edge # NoEdge
  /\ <<train, i>> \in reservation_node[train_reservations[train][i].edge]
  /\ i % 2 = 1

\* The segments clear_train_reservations finds on the list of their edge.
Linked(train, i) ==
  /\ train_reservations[train][i].edge # NoEdge
  /\ <<train, i>> \in reservation_node[train_reservations[train][i].edge]

\* Defect for ForwardAndReverse: the reverse piece is measured from the wrong end.
NewSegmentUnmirrored(walk, i) ==
  IF i % 2 = 1
  THEN LET p == walk[(i + 1) \div 2]
       IN  [edge |-> p.edge, start |-> p.start, stop |-> p.stop]
  ELSE LET p == walk[i \div 2]
       IN  [edge |-> ReverseEdge(p.edge), start |-> p.start, stop |-> p.stop]

\* A piece and, in the next slot, the same piece seen from the other direction.
NewSegment(walk, i) ==
  IF i % 2 = 1
  THEN LET p == walk[(i + 1) \div 2]
       IN  [edge |-> p.edge, start |-> p.start, stop |-> p.stop]
  ELSE LET p == walk[i \div 2]
       IN  [edge  |-> ReverseEdge(p.edge),
            start |-> Dist(p.edge) - p.stop,
            stop  |-> Dist(p.edge) - p.start]

\* clear_train_reservations, then reservation_insert.
ClearAndInsert(train, walk) ==
  LET new == 1..(2 * Len(walk)) IN
  /\ train_reservations' = [train_reservations EXCEPT ![train] =
       [i \in Slots |-> IF i \in new THEN NewSegment(walk, i)
                        ELSE IF Linked(train, i) THEN Free
                        ELSE train_reservations[train][i]]]
  /\ reservation_node' = [e \in Edges |->
       {x \in reservation_node[e] :
          ~(x[1] = train /\ Linked(train, x[2]) /\ train_reservations[train][x[2]].edge = e)}
       \cup {<<train, i>> : i \in {j \in new : NewSegment(walk, j).edge = e}}]

\* TRACK_OP_RESERVATION: the track is free.
Grant(train, walk) ==
  /\ ClearAndInsert(train, walk)
  /\ status' = [status EXCEPT ![train] = 0]
  /\ thrown' = [thrown EXCEPT ![train] = {}]
  /\ UNCHANGED switch_table

\* Defect for KeepsItsPromise: the old reservation goes before the new is verified.
RefuseCleared(train, answer) ==
  /\ ClearAndInsert(train, << >>)
  /\ status' = [status EXCEPT ![train] = answer]
  /\ UNCHANGED <<switch_table, thrown>>

\* It is not, it ends, or it is too long: nothing changes.
Refuse(train, answer) ==
  /\ status' = [status EXCEPT ![train] = answer]
  /\ UNCHANGED <<switch_table, train_reservations, reservation_node, thrown>>

Request(train, location, length) ==
  \E position \in {Normalize(switch_table, location)} :
    \/ /\ position = NotOnTrack
       /\ Refuse(train, -1)
    \/ /\ position # NotOnTrack
       /\ \E walk \in {Walk(switch_table, position, length, BranchSafety(train), MostPieces)} :
            \/ Verify(train, walk) # 0 /\ Refuse(train, Verify(train, walk))
            \/ Verify(train, walk) = 0 /\ Grant(train, walk)

-----------------------------------------------------------------------------
(* Turn-outs.                                                              *)

\* TRACK_OP_NODE_IS_RESERVED: a piece of one of the edges from the node.
NodeIsReserved(train, n) ==
  \E e \in Edges : Src(e) = n /\ \E x \in reservation_node[e] : x[1] = train

Throw(n, direction) ==
  /\ switch_table' = [switch_table EXCEPT ![n] = direction]
  /\ thrown' = [t \in Trains |->
       IF switch_table[n] # direction /\ NodeIsReserved(t, n)
       THEN thrown[t] \cup {n} ELSE thrown[t]]
  /\ UNCHANGED <<train_reservations, reservation_node, status>>

\* TRACK_OP_SWITCH_DIRECTION for a branch and the next node of the train's
\* route.  If the train has not reserved the branch nothing happens.
SwitchDirection(train, n, next_node) ==
  /\ NodeIsReserved(train, n)
  /\ Throw(n, IF Dest(<<n, DIR_CURVED>>) = next_node THEN SWITCH_CURVED ELSE SWITCH_STRAIGHT)

\* The courier's report of a turn-out somebody else has thrown.
SwitchReport(n, direction) == Throw(n, direction)

Next ==
  \/ \E train \in Trains, location \in Locations, length \in Lengths :
       Request(train, location, length)
  \/ \E train \in Trains, n \in Branches, next_node \in Nodes :
       /\ next_node \in {Dest(<<n, DIR_AHEAD>>), Dest(<<n, DIR_CURVED>>)}
       /\ SwitchDirection(train, n, next_node)
  \/ \E n \in Branches, direction \in {SWITCH_STRAIGHT, SWITCH_CURVED} :
       SwitchReport(n, direction)

Spec == Init /\ [][Next]_vars

-----------------------------------------------------------------------------
(* Properties.                                                             *)

\* Types of the variables.
TypeOK ==
  /\ switch_table \in SwitchTables
  /\ train_reservations \in [Trains -> [Slots -> Segments]]
  /\ reservation_node \in [Edges -> SUBSET (Trains \X Slots)]
  /\ status \in [Trains -> {0, -1, -2}]
  /\ thrown \in [Trains -> SUBSET Branches]

\* The lists of the edges and the tables of the trains agree: a segment is on
\* the list of its edge and no other, a free one on none.  Clearing frees all
\* that was held, so that no list holds a segment that was used again.
ListsMatchTables ==
  \A e \in Edges, t \in Trains, i \in Slots :
    <<t, i>> \in reservation_node[e] <=> train_reservations[t][i].edge = e

Held(t, i) == train_reservations[t][i].edge # NoEdge

\* What a train holds in one direction it holds in the other, so that a train
\* that comes towards it is refused (the pairs of reservation_insert).
ForwardAndReverse ==
  \A t \in Trains, i \in Slots : Held(t, i) =>
    \E j \in Slots :
      LET s == train_reservations[t][i]
          r == train_reservations[t][j]
      IN  /\ r.edge  = ReverseEdge(s.edge)
          /\ r.start = Dist(s.edge) - s.stop
          /\ r.stop  = Dist(s.edge) - s.start

\* No two trains hold a common point of a rail, whichever way they go and
\* whatever was reserved, refused and thrown before: reservation_available.
NoCollision ==
  \A t, u \in Trains, i, j \in Slots :
    LET s == train_reservations[t][i]
        r == train_reservations[u][j]
    IN  t # u /\ Held(t, i) /\ Held(u, j) /\ s.edge = r.edge =>
          s.stop < r.start \/ r.stop < s.start

\* The pieces in the direction of travel, how many there are, and how much of the
\* track is reserved after one of them.
Forward(t, i) == train_reservations[t][2 * i - 1]
Count(t) == LET held == {i \in 1 .. MostPieces : Held(t, 2 * i - 1)}
            IN  IF held = {} THEN 0 ELSE CHOOSE n \in held : \A i \in held : i <= n
After(t, i) ==
  LET upto[n \in 0 .. MostPieces] ==
        IF n <= i THEN 0 ELSE upto[n - 1] + Forward(t, n).stop
  IN  upto[Count(t)]

\* A reservation has no gap, and ends clear of switches: not on an edge from a
\* branch, and at least the train's length after one (the comments "so we don't
\* get stuck on the switch" and "reserve branch_safety more afterwards").
ClearOfSwitches ==
  \A t \in Trains : LET n == Count(t) IN
    /\ \A i \in 1..(n - 1) :
         /\ Forward(t, i).stop = Dist(Forward(t, i).edge)
         /\ Forward(t, i + 1).start = 0
         /\ Src(Forward(t, i + 1).edge) = Dest(Forward(t, i).edge)
    /\ n > 0 => ~FromBranch(Forward(t, n).edge)
    /\ \A i \in 1..n : FromBranch(Forward(t, i).edge) =>
         After(t, i) >= BranchSafety(t)

\* A reservation follows the turn-outs, but for those thrown in it since: the train
\* that runs on may leave what it has reserved until it reserves again.
ReservationsFollowTurnouts ==
  \A t \in Trains : \A i \in 1..Count(t) :
    LET n == Src(Forward(t, i).edge) IN
    IsBranch(n) /\ n \notin thrown[t] =>
      (Forward(t, i).edge[2] = DIR_CURVED) = (switch_table[n] = SWITCH_CURVED)

\* What a train holds, as pieces of rail. A piece and its mirror image are the same
\* rail; two pieces clash if they have a point in common.
Rails     == [edge : Edges, start : Nat, stop : Nat]
RailsOf(segments) == {segments[i] : i \in {j \in Slots : segments[j].edge # NoEdge}}
Mirror(s) == [edge |-> ReverseEdge(s.edge), start |-> Dist(s.edge) - s.stop,
              stop |-> Dist(s.edge) - s.start]
Clash(s, r) == s.edge = r.edge /\ ~(s.stop < r.start \/ r.stop < s.start)

\* The server is a RailReservations, where turn-outs and lists do not occur: a train
\* keeps what it holds until it is granted another reservation itself, which clashes
\* with no other train's; no refusal, no other train's request and no turn-out takes
\* track from it (handle_reservation, the two loops of reservation_insert).
Promise == INSTANCE RailReservations
             WITH holds <- [t \in Trains |-> RailsOf(train_reservations[t])], answer <- status
KeepsItsPromise == Promise!Spec
=============================================================================
