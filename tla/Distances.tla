----------------------------- MODULE Distances ------------------------------
(***************************************************************************)
(* The walks of the track server along the way the turn-outs lie: how far  *)
(* it is to a node, to the goal of a train, to the next sensor             *)
(* (tasks/track_server.c).  The train controller stops a train, reverses   *)
(* it and expects it at a sensor by what they answer.                      *)
(*                                                                         *)
(* A turn of a walk's loop is an action.  Switches are not thrown          *)
(* meanwhile, as the server does nothing else.                             *)
(***************************************************************************)
EXTENDS Track, FiniteSets

CONSTANTS
  StartOffsets,   \* past the start: how far the train is past its last sensor
  GoalOffsets,    \* past the goal: 0, or 4/3 of a train's length to reverse in
  StopDists,      \* the stopping distances asked about
  MaxDistance     \* bound: how far a walk without an end is followed

NoSensor == "-1"     \* the answer if there is no next sensor
Loop     == -1       \* and if there is no distance between two nodes

ASSUME DistancesAssumption ==
  /\ StartOffsets \subseteq Nat /\ GoalOffsets \subseteq Nat /\ StopDists \subseteq Nat
  /\ MaxDistance \in Nat
  /\ NoSensor \notin Nodes

Goals == {n \in Nodes : NodeType(n) \in {"sensor", "branch", "merge"}}

\* node2 of a request for the next sensor: the way to take at every branch, or
\* -1 for the way they lie.
AsTheyLie  == "as they lie"
Directions == {AsTheyLie, SWITCH_STRAIGHT, SWITCH_CURVED}

NoAnswer == << >>    \* or <<x>>: x is the answer

VARIABLES
  request,     \* operation; start, offset; goal, goal_offset; stop_dist; direction
  table,       \* switch_table
  current, walked,
  answer

walkVars == <<request, table, current, walked, answer>>

Requests ==
  [operation : {"distance"}, start : Nodes, goal : Nodes]
  \cup [operation : {"until goal"}, start : Sensors, offset : StartOffsets,
        goal : Goals, goal_offset : GoalOffsets, stop_dist : StopDists]
  \cup [operation : {"next sensor"}, start : Sensors, direction : Directions]

Asked(operation) == request.operation = operation /\ answer = NoAnswer

\* Defect for WalksTellTheWay: the train is taken to be at its last sensor.
StartAtSensor == 0

StartDistance == IF request.operation = "until goal" THEN 0 - request.offset ELSE 0

WalkInit ==
  /\ request \in Requests
  /\ table   \in SwitchTables
  /\ current = request.start
  /\ walked  = StartDistance
  /\ answer = NoAnswer

-----------------------------------------------------------------------------

AnswerWith(x) == answer' = <<x>> /\ UNCHANGED <<request, table, current, walked>>

\* One edge on.
WalkOn(turnouts) ==
  LET e == Ahead(turnouts, current) IN
  /\ walked < MaxDistance
  /\ current' = Dest(e)
  /\ walked'  = walked + Dist(e)
  /\ UNCHANGED <<request, table>>

\* dist_between_nodes.
DistanceFound ==
  /\ Asked("distance") /\ current = request.goal
  /\ AnswerWith(walked)

DistanceOffTrack ==
  /\ Asked("distance") /\ current # request.goal /\ IsExit(current)
  /\ AnswerWith(0)

DistanceOn ==
  /\ Asked("distance") /\ current # request.goal /\ ~IsExit(current)
  /\ WalkOn(table)
  /\ answer' = IF current' = request.start THEN <<Loop>> ELSE NoAnswer

\* dist_until_goal.
Smaller(x, y) == IF x < y THEN x ELSE y

GoalFound ==
  /\ Asked("until goal") /\ current = request.goal
  /\ AnswerWith(Smaller(Longer(0, walked + request.goal_offset), request.stop_dist))

GoalOffTrack ==
  /\ Asked("until goal") /\ current # request.goal /\ IsExit(current)
  /\ AnswerWith(0)

\* Defect for WalksEnd: only a loop through the start ends the walk.
FarAwayInLoop(n, d) == n = request.start

FarAway(n, d) == n = request.start \/ d >= request.stop_dist

GoalOn ==
  /\ Asked("until goal") /\ current # request.goal /\ ~IsExit(current)
  /\ WalkOn(table)
  /\ answer' = IF FarAway(current', walked') THEN <<request.stop_dist>> ELSE NoAnswer

\* next_sensor_node.
SensorOffTrack ==
  /\ Asked("next sensor") /\ IsExit(current)
  /\ AnswerWith(NoSensor)

Turnouts ==
  IF request.direction = AsTheyLie THEN table ELSE [b \in Branches |-> request.direction]

SensorOn ==
  /\ Asked("next sensor") /\ ~IsExit(current)
  /\ WalkOn(Turnouts)
  /\ answer' = IF current' \in Sensors THEN <<current'>> ELSE NoAnswer

WalkTurn ==
  \/ DistanceFound \/ DistanceOffTrack \/ DistanceOn
  \/ GoalFound \/ GoalOffTrack \/ GoalOn
  \/ SensorOffTrack \/ SensorOn

-----------------------------------------------------------------------------
(* Properties.  What the walks answer is compared with normalize_location, *)
(* which tells where one gets to in a given distance.                      *)

At(turnouts, n, offset) == Normalize(turnouts, [node |-> n, offset |-> offset])

\* A goal that is answered to be less than the stopping distance ahead is exactly
\* there, and one without an offset that is answered to be farther is nowhere
\* nearer; so is a node whose distance is asked for (track_server.c:374-448).
\* 0 stands for a goal that the train is at or past, and for a way that ends:
\* see StopsAtGoal.
GoalIsThere ==
  /\ request.operation = "until goal" /\ answer # NoAnswer =>
       LET goal     == At(table, request.goal, request.goal_offset)
           train(d) == At(table, request.start, request.offset + d)
           ahead    == answer[1]
       IN  /\ ahead \in 1 .. request.stop_dist - 1 => train(ahead) = goal
           /\ ahead = request.stop_dist /\ request.goal_offset = 0 =>
                \A d \in 1 .. request.stop_dist - 1 : train(d) # goal
  /\ request.operation = "distance" /\ answer \notin {NoAnswer, <<0>>, <<Loop>>} =>
       At(table, request.start, answer[1]) = At(table, request.goal, 0)

\* The sensor that is answered is as far ahead as the distance says, and there is
\* none before it; where none is answered there is none (450-488).
SensorIsNext ==
  request.operation = "next sensor" /\ answer # NoAnswer =>
    LET asked == [b \in Branches |->
                   IF request.direction = AsTheyLie THEN table[b] ELSE request.direction]
        place(d) == At(asked, request.start, d)
        sensorAt(d) == \E n \in Sensors : place(d) = [node |-> n, offset |-> 0]
    IN  /\ \A d \in 1 .. walked - 1 : ~sensorAt(d)
        /\ IF answer = <<NoSensor>>
           THEN place(walked) = NotOnTrack
           ELSE place(walked) = [node |-> answer[1], offset |-> 0]

\* The controller may go by what a walk answers: the goal and the next sensor are
\* where it says and no nearer (the comments of track_server.c:374-488).
WalksTellTheWay == GoalIsThere /\ SensorIsNext

\* "Returns the distance between node1,offset to travel to node2,offset, up to
\* maximum 'distance'" (track_server.c:811): what is nearer than the stopping
\* distance is the goal, ahead or passed.
StopsAtGoal ==
  /\ request.operation = "until goal"
  /\ answer # NoAnswer /\ answer # <<request.stop_dist>>
  => current = request.goal
=============================================================================
