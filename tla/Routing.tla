------------------------------ MODULE Routing ------------------------------
(***************************************************************************)
(* The search for a route (tasks/routing.c) and the answer the track       *)
(* server makes of it (TRACK_OP_ROUTE in tasks/track_server.c).            *)
(*                                                                         *)
(* mark_path takes the nearest node off the heap, marks it as visited and  *)
(* offers its neighbours a shorter way: the node ahead, that on the curved *)
(* edge of a branch, and the node itself in the other direction, which is  *)
(* a reversal of the train.  One turn of its loop is one action.           *)
(*                                                                         *)
(* The array of the heap is on the stack and not initialised.  ASSUMED: it *)
(* holds nodes of the track, as calls of mark_path before have left them   *)
(* there.  bubble_down compares what it finds past the end of the heap; if *)
(* that is no node, as may be in a first call, the pointer it follows is   *)
(* undefined behaviour, which is not modelled.                             *)
(***************************************************************************)
EXTENDS Track, FiniteSets

CONSTANTS
  REVERSE_WEIGHT,   \* 1000 in the code
  UNREACHED,        \* the greatest unsigned integer in the code
  TRACK_MAX,        \* slots in the heap
  MaxTaken,         \* rails taken by other trains
  Leftovers         \* bound: what the heap's slots may hold at first

INSTANCE Heap WITH node_size <- TRACK_MAX

None == "none"
REVERSE_COMMAND == "reverse"      \* -99 in the code

ASSUME RoutingAssumption ==
  /\ REVERSE_WEIGHT \in Nat \ {0} /\ UNREACHED \in Nat \ {0} /\ TRACK_MAX \in Nat
  /\ Leftovers \subseteq Nodes
  /\ None \notin Nodes /\ REVERSE_COMMAND \notin Nodes

\* No route is so long that its length overflows.
Longest(far) == REVERSE_WEIGHT <= far /\ \A e \in Edges : Dist(e) <= far

ASSUME LengthsAssumption ==
  /\ IsFiniteSet(Nodes)
  /\ \E far \in 0 .. UNREACHED : Longest(far) /\ Cardinality(Nodes) * far < UNREACHED

VARIABLES
  start, end,       \* the sensors asked for
  taken,            \* the edges another train has reserved a part of
  heap,
  distance,         \* routing_info of the nodes
  previous,
  visited,
  state,            \* "marking", "marked", "answered"
  path,             \* the answer, from the end
  lost,             \* history: a node to visit has fallen out of the heap
  turns             \* history: how often the loop was run

searchVars == <<start, end, taken, heap, distance, previous, visited, state, path, lost, turns>>

\* Reservations cover both directions of a rail.
Takings == {S \in SUBSET Edges : Cardinality(S) <= 2 * MaxTaken
              /\ \A e \in S : ReverseEdge(e) \in S}

SearchInit ==
  /\ start \in Sensors /\ end \in Sensors
  /\ taken \in Takings
  /\ distance = [n \in Nodes |-> IF n = start THEN 0 ELSE UNREACHED]
  /\ previous = [n \in Nodes |-> None]
  /\ visited  = [n \in Nodes |-> FALSE]
  /\ \E left \in Leftovers :
       heap = Push([nodes |-> [i \in 0..(TRACK_MAX - 1) |-> left], num_nodes |-> 0],
                   distance, start)
  /\ state = "marking"
  /\ path  = << >>
  /\ lost  = FALSE
  /\ turns = 0

-----------------------------------------------------------------------------

\* reservation_edge_available; of a node that is no branch, the curved edge is
\* blank, and available.
EdgeAvailable(e) == e \notin taken

\* The ways on from a node: where to, how far, whether nobody has taken it.
WayAhead(v) == [to |-> Dest(<<v, DIR_AHEAD>>), far |-> Dist(<<v, DIR_AHEAD>>),
                free |-> EdgeAvailable(<<v, DIR_AHEAD>>)]
WayCurved(v) == [to |-> Dest(<<v, DIR_CURVED>>), far |-> Dist(<<v, DIR_CURVED>>),
                 free |-> EdgeAvailable(<<v, DIR_CURVED>>)]
WayBack(v) == [to |-> Reverse(v), far |-> REVERSE_WEIGHT,
               free |-> EdgeAvailable(<<v, DIR_CURVED>>)]

Ways(v) == (IF IsExit(v) THEN << >> ELSE <<WayAhead(v)>>)
        \o (IF IsBranch(v) THEN <<WayCurved(v)>> ELSE << >>)
        \o <<WayBack(v)>>

\* Defect for RouteIsDrivable: the way is taken without a look at reservations.
RelaxTaken(r, v, way, seen) ==
  LET far == r.distance[v] + way.far IN
  IF seen[way.to] \/ r.distance[way.to] <= far THEN r
  ELSE LET now == [r.distance EXCEPT ![way.to] = far] IN
       [distance |-> now,
        heap     |-> IF r.previous[way.to] = None THEN Push(r.heap, now, way.to)
                     ELSE Update(r.heap, now, way.to),
        previous |-> [r.previous EXCEPT ![way.to] = v]]

\* A shorter way to a node not visited yet: it is pushed when it is first
\* reached, and moved in the heap after that.
Relax(r, v, way, seen) ==
  LET far == r.distance[v] + way.far IN
  IF seen[way.to] \/ r.distance[way.to] <= far \/ ~way.free THEN r
  ELSE LET now == [r.distance EXCEPT ![way.to] = far] IN
       [distance |-> now,
        heap     |-> IF r.previous[way.to] = None THEN Push(r.heap, now, way.to)
                     ELSE Update(r.heap, now, way.to),
        previous |-> [r.previous EXCEPT ![way.to] = v]]

\* To the node ahead, to that on the curved edge, then back.
RelaxAhead(r, v, seen)  == IF IsExit(v) THEN r ELSE Relax(r, v, WayAhead(v), seen)
RelaxCurved(r, v, seen) == IF IsBranch(v) THEN Relax(r, v, WayCurved(v), seen) ELSE r
RelaxBack(r, v, seen)   == Relax(r, v, WayBack(v), seen)

\* A node that has been reached and is still to be visited is not in the heap.
Lost(r, seen) ==
  \E n \in Nodes : r.distance[n] < UNREACHED /\ ~seen[n] /\ n \notin InHeap(r.heap)

\* One turn of the loop of mark_path.
Explore ==
  /\ state = "marking" /\ heap.num_nodes > 0
  /\ LET v    == Top(heap)
         seen == [visited EXCEPT ![v] = TRUE]
     IN  /\ visited' = seen
         /\ \E popped \in {[distance |-> distance, heap |-> Pop(heap, distance),
                           previous |-> previous]} :
            \E ahead  \in {IF v = end THEN popped ELSE RelaxAhead(popped, v, seen)} :
            \E curved \in {IF v = end THEN popped ELSE RelaxCurved(ahead, v, seen)} :
            \E new    \in {IF v = end THEN popped ELSE RelaxBack(curved, v, seen)} :
              /\ heap'     = new.heap
              /\ distance' = new.distance
              /\ previous' = new.previous
              /\ lost'     = (lost \/ \E r \in {popped, ahead, curved, new} : Lost(r, seen))
         /\ state' = IF v = end THEN "marked" ELSE "marking"
  /\ turns' = turns + 1
  /\ UNCHANGED <<start, end, taken, path>>

\* The heap is empty: there is no route.
GiveUp ==
  /\ state = "marking" /\ heap.num_nodes = 0
  /\ distance' = [distance EXCEPT ![start] = UNREACHED]
  /\ visited'  = [visited EXCEPT ![end] = FALSE]
  /\ state'    = "marked"
  /\ UNCHANGED <<start, end, taken, heap, previous, path, lost, turns>>

\* The nodes from the end back to the start, with a command to reverse where
\* one is the other's reverse.  An enter or exit node has no number for
\* node_to_location, which leaves that of the node after it; here the node itself
\* is named.  A shortest route has none: what a turn at an exit leads to, a turn at
\* the last node before it that is no branch leads to sooner, and a start is one.
PathTo(n) ==
  LET back[m \in Nodes] ==
        IF previous[m] = None \/ m = start
        THEN IF m = start THEN <<m>> ELSE << >>
        ELSE (IF previous[m] = Reverse(m) THEN <<m, REVERSE_COMMAND>> ELSE <<m>>)
             \o back[previous[m]]
  IN  back[n]

\* The answer: the path, or nothing at all.
Answer ==
  /\ state = "marked"
  /\ state' = "answered"
  /\ path'  = IF visited[end] THEN PathTo(end) ELSE << >>
  /\ UNCHANGED <<start, end, taken, heap, distance, previous, visited, lost, turns>>

SearchTurn == Explore \/ GiveUp \/ Answer

-----------------------------------------------------------------------------
(* Properties.                                                             *)

\* Types of the variables.
SearchTypeOK ==
  /\ start \in Sensors /\ end \in Sensors
  /\ taken \subseteq Edges
  /\ heap.nodes \in [0..(TRACK_MAX - 1) -> Nodes] /\ heap.num_nodes \in 0..TRACK_MAX
  /\ distance \in [Nodes -> 0..UNREACHED]
  /\ previous \in [Nodes -> Nodes \cup {None}]
  /\ visited  \in [Nodes -> BOOLEAN]
  /\ state \in {"marking", "marked", "answered"}
  /\ path \in Seq(Nodes \cup {REVERSE_COMMAND})
  /\ lost \in BOOLEAN
  /\ turns \in Nat

\* The ways from a node that can be driven.
FreeWays(n) == {Ways(n)[i] : i \in {j \in DOMAIN Ways(n) : Ways(n)[j].free}}

\* bubble_down, which looks at slots up to the second after the last one, stays
\* within the array.
HeapFits == heap.num_nodes <= TRACK_MAX - 3

\* What is in the heap has been reached, whatever was in its slots before: a node
\* that was not would be visited at the greatest distance, and a sum with that
\* overflows to a small one (the unsigned distance of track_node.h). The heap
\* never outgrows its array.
HeapHoldsReached ==
  /\ SearchTypeOK /\ HeapFits
  /\ state = "marking" => \A n \in InHeap(heap) : distance[n] < UNREACHED

\* The answer can be driven: it ends at the start, each node is followed by one
\* from which a free edge or, after a command to reverse, a reversal leads to it,
\* and no node comes twice.
RouteIsDrivable ==
  state = "answered" /\ path # << >> =>
    /\ path[1] = end /\ path[Len(path)] = start
    /\ \A i, j \in DOMAIN path : path[i] = path[j] /\ i # j => path[i] = REVERSE_COMMAND
    /\ \A i \in 1..(Len(path) - 1) :
         IF path[i + 1] = REVERSE_COMMAND
         THEN /\ path[i] # REVERSE_COMMAND /\ path[i + 2] = Reverse(path[i])
              /\ WayBack(path[i + 2]).free
         ELSE path[i] # REVERSE_COMMAND =>
                \E w \in FreeWays(path[i + 1]) : w.to = path[i] /\ path[i] # Reverse(path[i + 1])

\* Where the train can get to at all.
Reachable ==
  LET within[k \in 0..Cardinality(Nodes)] ==
        IF k = 0 THEN {start}
        ELSE UNION {{n} \cup {w.to : w \in FreeWays(n)} : n \in within[k - 1]}
  IN  within[Cardinality(Nodes)]

\* No way to the end can be shorter than its distance, if no step shortens the way
\* to a node by more than it is long, distances beyond that of the
\* end counted as equal.
NearEnd(n) == IF distance[n] < distance[end] THEN distance[n] ELSE distance[end]
NoShorterWay ==
  /\ NearEnd(start) = 0
  /\ \A n \in Nodes : \A w \in FreeWays(n) : NearEnd(w.to) <= NearEnd(n) + w.far

\* As long as the heap has not lost a node the answer is right: the shortest route
\* if there is one, and none if there is none.
ShortestUnlessLost ==
  state = "answered" /\ ~lost =>
    IF path = << >> THEN end \notin Reachable ELSE NoShorterWay

\* Every search ends, however often nodes come back into the heap: no more turns
\* than there are nodes.
SearchEnds == turns <= Cardinality(Nodes)

\* "Could not find route!" (track_server.c:682) is said only if there is none.
NotFoundMeansNoRoute ==
  state = "answered" /\ path = << >> => end \notin Reachable
=============================================================================
