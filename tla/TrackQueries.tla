---------------------------- MODULE TrackQueries ----------------------------
(***************************************************************************)
(* The track server at one of the requests it answers from the layout and  *)
(* what it knows of it, changing neither (tasks/track_server.c): a route,  *)
(* which Routing searches for, or a walk of Distances.  It takes the next  *)
(* message when it has answered this one.                                  *)
(***************************************************************************)
EXTENDS Routing, Distances

queryVars == <<searchVars, walkVars>>

ForRoute == [operation |-> "route"]     \* TRACK_OP_ROUTE; its nodes are start and end

\* What is not asked for is at rest, anywhere.
NoWalk ==
  /\ request = ForRoute
  /\ table   = [b \in Branches |-> SWITCH_STRAIGHT]
  /\ current = start
  /\ walked  = 0
  /\ answer  = NoAnswer

NoSearch ==
  /\ start = CHOOSE n \in Leftovers \cap Sensors : TRUE
  /\ end   = start
  /\ taken = {}
  /\ heap.nodes[TRACK_MAX - 1] = start

QueriesInit == SearchInit /\ (NoWalk \/ (NoSearch /\ WalkInit))

Answered == IF request = ForRoute THEN state = "answered" ELSE answer # NoAnswer

\* The request is answered, or the walk has come to the bound.
Done == (Answered \/ walked >= MaxDistance) /\ UNCHANGED queryVars

QueriesNext ==
  \/ request = ForRoute /\ SearchTurn /\ UNCHANGED walkVars
  \/ WalkTurn /\ UNCHANGED searchVars
  \/ Done

\* Straight code: a walk takes one turn after the other.  (That a search ends is a
\* bound on its turns, SearchEnds.)
QueriesSpec == QueriesInit /\ [][QueriesNext]_queryVars /\ WF_walkVars(WalkTurn)

\* Every walk that the train controller waits for in its Send is answered: one that
\* runs into a loop which its start is not part of comes to the stopping distance or
\* to a sensor (track_server.c:438, 478).  The distance between two nodes, which
\* nobody asks for, has no such end.
WalksEnd == request.operation \in {"until goal", "next sensor"} ~> answer # NoAnswer
=============================================================================
