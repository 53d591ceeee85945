-------------------------- MODULE TrainController --------------------------
(***************************************************************************)
(* The train controller and one train task per train                       *)
(* (tasks/train_controller.c, tasks/train.c).                              *)
(*                                                                         *)
(* The controller serves the command line, the cab service and its         *)
(* couriers, a pinger, the sensor courier and the train tasks.  To change  *)
(* a speed or to reverse it Sends to the train's task, in the middle of a  *)
(* handler; a task that reverses waits four seconds and then Sends to the  *)
(* controller, twice.  A handler is therefore a list of things left to do, *)
(* `work', and it can be stuck at any of its Sends.                        *)
(*                                                                         *)
(* Positions, velocities, distances and what the track server answers are  *)
(* choices: whether a train moves, is close to its goal or has paused long *)
(* enough may be true or false at every ping.  The pinger and the sensor   *)
(* courier have no state of their own: what they bring may be next         *)
(* whenever the controller receives.                                       *)
(***************************************************************************)
EXTENDS Integers, Sequences

CONSTANTS
  TrainMap,       \* the trains of train_map by increasing number
  MaxSpeed,       \* 14 in the code
  DefaultSpeed,   \* the speed of a train on a route, 13 in the code
  MaxErrors,      \* sensors off the path before a new one is made, 3 in the code
  MaxReversals    \* bound: the reversals on a route after its start

ASSUME TrainMapAssumption ==
  /\ DOMAIN TrainMap = 1 .. Len(TrainMap) /\ Len(TrainMap) \in Nat
  /\ \A i, j \in DOMAIN TrainMap : TrainMap[i] = TrainMap[j] => i = j
ASSUME SpeedAssumption ==
  /\ MaxSpeed \in Nat /\ DefaultSpeed \in 1 .. MaxSpeed
  /\ MaxErrors \in Nat \ {0}
  /\ MaxReversals \in Nat

Trains == {TrainMap[i] : i \in DOMAIN TrainMap}
Speeds == 0 .. MaxSpeed

\* What calls the controller: main_task's command line, the cab service, the
\* courier of each cab, and the train tasks.
Cli        == <<"cli", "any">>
CabService == <<"cab_service", "any">>
Courier(t) == <<"courier", t>>
Task(t)    == <<"train", t>>
NoTask     == <<"none", "any">>
Callers    == {Cli, CabService} \cup {Courier(t) : t \in Trains}

\* speed_index: an index of 1 .. MaxSpeed for a speed reached by accelerating,
\* MaxSpeed + speed for one reached by slowing down.  A train that paused is
\* given back an index as its speed, so speeds have the same range.
Indices == 0 .. 2 * MaxSpeed

VARIABLES
  profile,   \* per train: speed, indices, direction, paused, located
  route,     \* per train: is it on a route, has it started, the reversals
             \* left, the sensors off its path that the train hit in a
             \* row, and reply_tid, the caller that waits for its end
  work,      \* what is left of the controller's handler
  inbox,     \* the controller's send queue
  request,   \* the call that a caller is blocked in
  task,      \* where the train's task is, and its message's data
  rail       \* the train itself: its speed and the way it faces

vars == <<profile, route, work, inbox, request, task, rail>>

NoCall == [command |-> "none", train |-> "any", speed |-> 0]
Call(command, t, s) == [command |-> command, train |-> t, speed |-> s]

\* What each caller asks for.  A courier's route is a blocking one.
Calls(c) ==
  CASE c = Cli        -> {Call("SPEED", t, s) : t \in Trains, s \in Speeds}
                         \cup {Call("REVERSE", t, 0) : t \in Trains}
                         \cup {Call("ROUTE", t, 0) : t \in Trains}
    [] c = CabService -> {Call("ROUTE_STOP", t, 0) : t \in Trains}
    [] OTHER          -> {Call("ROUTE", t, 0) : t \in {u \in Trains : c = Courier(u)}}

\* A task that receives has no use for the data of its last message.
Receiving == [at |-> "receive", data |-> 0]

\* latest_sensor_node # -1 is `located', route.cursor # -1 is `on'.  A train's own
\* profile may give it a sensor to start from, as those of 35 and 41 do; one that
\* leaves the -1 of train_profile_init has to be found (SensorLocates).
Init ==
  /\ \E given \in SUBSET Trains :
       profile = [t \in Trains |->
         [current_speed |-> 0, speed_index |-> 0, previous_speed_index |-> 0,
          direction |-> "straight", paused |-> FALSE, located |-> t \in given]]
  /\ route = [t \in Trains |->
       [on |-> FALSE, started |-> FALSE, reversals |-> 0, errors |-> 0,
        reply_tid |-> NoTask]]
  /\ work    = << >>
  /\ inbox   = << >>
  /\ request = [c \in Callers |-> NoCall]
  /\ task    = [t \in Trains |-> Receiving]
  /\ rail    = [t \in Trains |-> [speed |-> 0, facing |-> "straight"]]

Turned(direction) == IF direction = "straight" THEN "reversed" ELSE "straight"

-----------------------------------------------------------------------------
(* The steps of a handler.                                                 *)

SetSpeed(t, s)   == [op |-> "speed", train |-> t, speed |-> s]
Reverse(t, s)    == [op |-> "reverse", train |-> t, speed |-> s]
Hit(t)           == [op |-> "hit", train |-> t]
Reserve(t)       == [op |-> "reserve", train |-> t]
Drive(t, st, el) == [op |-> "drive", train |-> t, status |-> st, elapsed |-> el]
Pause(t)         == [op |-> "pause", train |-> t]
Finish(t)        == [op |-> "finish", train |-> t]
Hold(t, c)       == [op |-> "hold", train |-> t, to |-> c]
Answer(c)        == [op |-> "answer", to |-> c]

\* Defect for ReversesStanding: the train is not stopped first.
TrainReverseMoving(t, old_speed) == <<Reverse(t, old_speed)>>

\* train_reverse: stop first, and let the task restore the speed it had.
TrainReverse(t, old_speed) == <<SetSpeed(t, 0), Reverse(t, old_speed)>>

\* The step at the head of `work', of kind op, is taken.
Doing(op) == work # << >> /\ Head(work).op = op

\* What train_set_speed writes once the task has the new speed.
AfterSpeed(p, s) ==
  IF s = p.current_speed THEN p
  ELSE [p EXCEPT !.current_speed        = s,
                 !.previous_speed_index = p.speed_index,
                 !.paused               = p.paused /\ s = 0,
                 !.speed_index          = IF s # 0 /\ s < p.current_speed
                                          THEN MaxSpeed + s ELSE s]

\* Defect for PausedTrainsStand: a pause is not ended by a new speed.
TrainSetSpeedPaused ==
  /\ Doing("speed")
  /\ LET t == Head(work).train
         s == Head(work).speed
     IN  /\ task[t].at = "receive"
         /\ task'    = [task EXCEPT ![t] = [at |-> "speed", data |-> s]]
         /\ profile' = [profile EXCEPT ![t] = [AfterSpeed(@, s) EXCEPT !.paused = profile[t].paused]]
  /\ work' = Tail(work)
  /\ UNCHANGED <<route, inbox, request, rail>>

\* train_set_speed: blocked until the train's task receives.  The snapshot it
\* computes (its stopping distance has an AssertF) is data and left out.
TrainSetSpeed ==
  /\ Doing("speed")
  /\ LET t == Head(work).train
         s == Head(work).speed
     IN  /\ task[t].at = "receive"
         /\ task'    = [task EXCEPT ![t] = [at |-> "speed", data |-> s]]
         /\ profile' = [profile EXCEPT ![t] = AfterSpeed(@, s)]
  /\ work' = Tail(work)
  /\ UNCHANGED <<route, inbox, request, rail>>

\* TrainReverse: blocked until the train's task receives.
SendReverse ==
  /\ Doing("reverse")
  /\ LET t == Head(work).train
     IN  /\ task[t].at = "receive"
         /\ task' = [task EXCEPT ![t] = [at |-> "reversing", data |-> Head(work).speed]]
  /\ work' = Tail(work)
  /\ UNCHANGED <<profile, route, inbox, request, rail>>

Replied(c) == IF c = NoTask THEN request ELSE [request EXCEPT ![c] = NoCall]

\* The Reply at the end of a handler.
SendAnswer ==
  /\ Doing("answer")
  /\ request' = Replied(Head(work).to)
  /\ work'    = Tail(work)
  /\ UNCHANGED <<profile, route, inbox, task, rail>>

\* A planned route that is not blocking is answered; a blocking one is not.
HoldAnswer ==
  /\ Doing("hold")
  /\ route' = [route EXCEPT ![Head(work).train].reply_tid = Head(work).to]
  /\ work'  = Tail(work)
  /\ UNCHANGED <<profile, inbox, request, task, rail>>

\* Defect for AnswersMatchCalls: reply_tid is not reset.
FinishRouteKeeping ==
  /\ Doing("finish")
  /\ LET t == Head(work).train
     IN  /\ request' = Replied(route[t].reply_tid)
         /\ route'   = [route EXCEPT ![t].on = FALSE, ![t].started = FALSE,
                                     ![t].reversals = 0]
  /\ work' = Tail(work)
  /\ UNCHANGED <<profile, inbox, task, rail>>

\* train_route_stop.
FinishRoute ==
  /\ Doing("finish")
  /\ LET t == Head(work).train
     IN  /\ request' = Replied(route[t].reply_tid)
         /\ route'   = [route EXCEPT ![t].on = FALSE, ![t].started = FALSE,
                                     ![t].reversals = 0, ![t].reply_tid = NoTask]
  /\ work' = Tail(work)
  /\ UNCHANGED <<profile, inbox, task, rail>>

-----------------------------------------------------------------------------
(* Planning a route (train_plan_route), at the head of a handler whose     *)
(* other steps are `rest'.  A route may begin with a reversal.             *)

RoutePlanned(t, rest) ==
  \E reversals \in 0 .. MaxReversals, first \in BOOLEAN :
    /\ route' = [route EXCEPT ![t].on = TRUE, ![t].started = FALSE,
                              ![t].reversals = reversals, ![t].errors = 0]
    /\ work'  = <<SetSpeed(t, DefaultSpeed)>>
                \o (IF first THEN TrainReverse(t, DefaultSpeed) ELSE << >>)
                \o rest

RouteNotFound(t, rest) ==
  /\ route' = [route EXCEPT ![t].on = FALSE, ![t].started = FALSE,
                            ![t].reversals = 0, ![t].errors = 0]
  /\ work'  = rest

\* A new path for a train on its way: whoever waits for the route is not told.
Replan(t, rest) == RoutePlanned(t, rest) \/ RouteNotFound(t, rest)

-----------------------------------------------------------------------------
(* Messages.                                                               *)

\* A caller calls and joins the send queue.
MakeCall(c) ==
  /\ request[c] = NoCall
  /\ request' \in {[request EXCEPT ![c] = call] : call \in Calls(c)}
  /\ inbox'   = Append(inbox, c)
  /\ UNCHANGED <<profile, route, work, task, rail>>

\* The controller is done with a handler and receives from `sender'.
Received(sender) ==
  /\ work = << >>
  /\ inbox # << >> /\ Head(inbox) = sender
  /\ inbox' = Tail(inbox)

ReceivedCall(c, command) == Received(c) /\ request[c].command = command

\* Answered before the speed is set.
SpeedMessage(c) ==
  /\ ReceivedCall(c, "SPEED")
  /\ request' = Replied(c)
  /\ work'    = <<SetSpeed(request[c].train, request[c].speed)>>
  /\ UNCHANGED <<profile, route, task, rail>>

\* The same from the train's own task, which goes back to Receive.
RestoreMessage(t) ==
  /\ Received(Task(t))
  /\ task[t].at = "restoring"
  /\ task' = [task EXCEPT ![t] = Receiving]
  /\ work' = <<SetSpeed(t, task[t].data)>>
  /\ UNCHANGED <<profile, route, request, rail>>

\* Answered after the reversal was handed to the train's task.
ReverseMessage(c) ==
  /\ ReceivedCall(c, "REVERSE")
  /\ LET t == request[c].train
     IN  work' = Append(TrainReverse(t, profile[t].current_speed), Answer(c))
  /\ UNCHANGED <<profile, route, request, task, rail>>

\* Defect for RailsAgree: a reversed train is set to reversed, not turned.
ReverseResetMessageOnce(t) ==
  /\ Received(Task(t))
  /\ task[t].at = "resetting"
  /\ profile' = [profile EXCEPT ![t].direction = "reversed"]
  /\ task'    = [task EXCEPT ![t].at = "reset"]
  /\ UNCHANGED <<route, work, request, rail>>

\* TRAIN_CONTROLLER_REVERSE_RESET.
ReverseResetMessage(t) ==
  /\ Received(Task(t))
  /\ task[t].at = "resetting"
  /\ profile' = [profile EXCEPT ![t].direction = Turned(@)]
  /\ task'    = [task EXCEPT ![t].at = "reset"]
  /\ UNCHANGED <<route, work, request, rail>>

Routable(t) == profile[t].located /\ profile[t].current_speed = 0

\* A train that is not located or moves is not routed.
RouteRefused(c) ==
  /\ ReceivedCall(c, "ROUTE")
  /\ ~Routable(request[c].train)
  /\ request' = Replied(c)
  /\ UNCHANGED <<profile, route, work, task, rail>>

\* A blocking caller is remembered once the route has begun.
RouteMessage(c) ==
  /\ ReceivedCall(c, "ROUTE")
  /\ LET t == request[c].train
     IN  /\ Routable(t)
         /\ RoutePlanned(t, IF c = Cli THEN <<Hold(t, NoTask), Answer(c)>>
                                       ELSE <<Hold(t, c)>>)
  /\ UNCHANGED <<profile, request, task, rail>>

\* No path: the caller is answered, and reply_tid is forgotten.
RouteFails(c) ==
  /\ ReceivedCall(c, "ROUTE")
  /\ LET t == request[c].train
     IN  Routable(t) /\ RouteNotFound(t, <<Hold(t, NoTask), Answer(c)>>)
  /\ UNCHANGED <<profile, request, task, rail>>

UnderWay(t) == route[t].on /\ route[t].started
OnRoute(t)  == profile[t].located /\ route[t].on

RouteStopRefused(c) ==
  /\ ReceivedCall(c, "ROUTE_STOP")
  /\ ~OnRoute(request[c].train)
  /\ request' = Replied(c)
  /\ UNCHANGED <<profile, route, work, task, rail>>

RouteStopMessage(c) ==
  /\ ReceivedCall(c, "ROUTE_STOP")
  /\ LET t == request[c].train
     IN  /\ OnRoute(t)
         /\ work' = (IF profile[t].current_speed # 0 THEN <<SetSpeed(t, 0)>> ELSE << >>)
                    \o <<Finish(t), Answer(c)>>
  /\ UNCHANGED <<profile, route, request, task, rail>>

-----------------------------------------------------------------------------
(* Sensor reports.  A report with several sensors is several reports.      *)

\* Trains are located in increasing order; the one found is stopped.
SensorLocates ==
  /\ work = << >>
  /\ \E i \in DOMAIN TrainMap :
       /\ ~profile[TrainMap[i]].located
       /\ \A j \in 1 .. i - 1 : profile[TrainMap[j]].located
       /\ work' = <<SetSpeed(TrainMap[i], 0), Hit(TrainMap[i])>>
  /\ UNCHANGED <<profile, route, inbox, request, task, rail>>

AllLocated == \A t \in Trains : profile[t].located

\* The sensor is attributed to a train.
SensorHits ==
  /\ work = << >>
  /\ AllLocated
  /\ work' \in {<<Hit(t)>> : t \in Trains}
  /\ UNCHANGED <<profile, route, inbox, request, task, rail>>

\* A sensor that no train explains stops them all.  (The code also stops train 36,
\* which is not in train_map: it reads a task id through a null pointer.  What
\* comes of that is undefined and left out; a system it stops has no further step.)
SensorSpurious ==
  /\ work = << >>
  /\ AllLocated
  /\ work' = [i \in DOMAIN TrainMap |-> SetSpeed(TrainMap[i], 0)]
  /\ UNCHANGED <<profile, route, inbox, request, task, rail>>

\* The sensor is where the route's cursor is, or one of the two after it.
SensorOnPath(t) ==
  /\ route[t].on
  /\ \E errors \in {0, route[t].errors} :
       route' = [route EXCEPT ![t].started = TRUE, ![t].errors = errors]
  /\ work' = Tail(work)

\* The sensor is none of these, or there is no route.  A train that has not
\* reached its path yet may be anywhere; one that has is lost the third time.
SensorOffPath(t) ==
  \/ /\ ~UnderWay(t)
     /\ work' = Tail(work) /\ UNCHANGED route
  \/ /\ UnderWay(t) /\ route[t].errors + 1 < MaxErrors
     /\ route' = [route EXCEPT ![t].errors = @ + 1]
     /\ work'  = Tail(work)
  \/ /\ UnderWay(t) /\ route[t].errors + 1 = MaxErrors
     /\ Replan(t, Tail(work))

\* train_controller_sensor_update, with update_route_path.
SensorUpdate ==
  /\ Doing("hit")
  /\ LET t == Head(work).train
     IN  /\ profile' = [profile EXCEPT ![t].located = TRUE]
         /\ SensorOnPath(t) \/ SensorOffPath(t)
  /\ UNCHANGED <<inbox, request, task, rail>>

-----------------------------------------------------------------------------
(* The ping: for each train, reserve the track ahead, then drive.          *)

Ping ==
  /\ work = << >>
  /\ work' = [i \in DOMAIN TrainMap |-> Reserve(TrainMap[i])]
  /\ UNCHANGED <<profile, route, inbox, request, task, rail>>

\* The reservation's status is ok, refused (-1, -3) or too big (-2).  A train
\* that has paused long enough starts again once its reservation is ok.
ReserveTrack ==
  /\ Doing("reserve")
  /\ LET t == Head(work).train
         p == profile[t]
     IN  IF ~p.located
         THEN work' = Tail(work) /\ UNCHANGED profile
         ELSE \E status \in {"ok", "refused", "too big"},
                 elapsed \in IF p.paused THEN BOOLEAN ELSE {FALSE} :
                IF status = "ok" /\ elapsed /\ p.speed_index = 0
                THEN /\ profile' = [profile EXCEPT ![t].paused = FALSE]
                     /\ work' = <<SetSpeed(t, p.previous_speed_index),
                                 Drive(t, status, FALSE)>> \o Tail(work)
                ELSE /\ work' = <<Drive(t, status, elapsed)>> \o Tail(work)
                     /\ UNCHANGED profile
  /\ UNCHANGED <<route, inbox, request, task, rail>>

DriveOf(t) == Doing("drive") /\ Head(work).train = t

\* Close enough to the goal.
Arrive(t) ==
  /\ DriveOf(t)
  /\ UnderWay(t)
  /\ work' = <<SetSpeed(t, 0), Finish(t)>> \o Tail(work)
  /\ UNCHANGED <<profile, route, inbox, request, task, rail>>

\* Close enough to the next reversal.
TurnBack(t) ==
  /\ DriveOf(t)
  /\ UnderWay(t) /\ route[t].reversals > 0
  /\ work'  = TrainReverse(t, profile[t].current_speed) \o Tail(work)
  /\ route' = [route EXCEPT ![t].reversals = @ - 1]
  /\ UNCHANGED <<profile, inbox, request, task, rail>>

\* The track ahead is not the train's: it stops, and pauses unless its
\* reservation was too big.
Halt(t) ==
  /\ DriveOf(t)
  /\ Head(work).status # "ok" /\ profile[t].speed_index > 0
  /\ work' = (IF Head(work).status = "refused" THEN <<SetSpeed(t, 0), Pause(t)>>
                                               ELSE <<SetSpeed(t, 0)>>) \o Tail(work)
  /\ UNCHANGED <<profile, route, inbox, request, task, rail>>

\* A train that does not move and has paused too long gets a new route.
Reroute(t) ==
  /\ DriveOf(t)
  /\ UnderWay(t)
  /\ profile[t].paused /\ Head(work).elapsed
  /\ Replan(t, Tail(work))
  /\ UNCHANGED <<profile, inbox, request, task, rail>>

\* Nothing to do: the train does not move, or it moves on its track.
RollOn(t) ==
  /\ DriveOf(t)
  /\ work' = Tail(work)
  /\ UNCHANGED <<profile, route, inbox, request, task, rail>>

PauseTrain ==
  /\ Doing("pause")
  /\ profile' = [profile EXCEPT ![Head(work).train].paused = TRUE]
  /\ work'    = Tail(work)
  /\ UNCHANGED <<route, inbox, request, task, rail>>

-----------------------------------------------------------------------------
(* The train's task.                                                       *)

\* TRAIN_SPEED.  The train command server refuses a speed out of range.
CommandSpeed(t) ==
  /\ task[t].at = "speed"
  /\ rail' = IF task[t].data \in Speeds
             THEN [rail EXCEPT ![t].speed = task[t].data] ELSE rail
  /\ task' = [task EXCEPT ![t] = Receiving]
  /\ UNCHANGED <<profile, route, work, inbox, request>>

\* TRAIN_REVERSE after its four seconds: reverse, then tell the controller.
CommandReverse(t) ==
  /\ task[t].at = "reversing"
  /\ rail'  = [rail EXCEPT ![t].facing = Turned(@)]
  /\ task'  = [task EXCEPT ![t].at = "resetting"]
  /\ inbox' = Append(inbox, Task(t))
  /\ UNCHANGED <<profile, route, work, request>>

\* The controller has answered; now the old speed.
RestoreSpeed(t) ==
  /\ task[t].at = "reset"
  /\ task'  = [task EXCEPT ![t].at = "restoring"]
  /\ inbox' = Append(inbox, Task(t))
  /\ UNCHANGED <<profile, route, work, request, rail>>

-----------------------------------------------------------------------------

\* A message from the send queue.
Serve ==
  \/ \E c \in Callers :
       \/ SpeedMessage(c) \/ ReverseMessage(c)
       \/ RouteRefused(c) \/ RouteMessage(c) \/ RouteFails(c)
       \/ RouteStopRefused(c) \/ RouteStopMessage(c)
  \/ \E t \in Trains : RestoreMessage(t) \/ ReverseResetMessage(t)

\* A step of the handler that runs.
Work ==
  \/ TrainSetSpeed \/ SendReverse \/ SendAnswer \/ HoldAnswer \/ FinishRoute
  \/ SensorUpdate \/ ReserveTrack \/ PauseTrain
  \/ \E t \in Trains : Arrive(t) \/ TurnBack(t) \/ Halt(t) \/ Reroute(t) \/ RollOn(t)

RunTask(t) == CommandSpeed(t) \/ CommandReverse(t) \/ RestoreSpeed(t)

Next ==
  \/ \E c \in Callers : MakeCall(c)
  \/ Serve
  \/ SensorLocates \/ SensorHits \/ SensorSpurious \/ Ping
  \/ Work
  \/ \E t \in Trains : RunTask(t)

Spec == Init /\ [][Next]_vars

-----------------------------------------------------------------------------
(* Properties.                                                             *)

Steps ==
  [op : {"speed", "reverse"}, train : Trains, speed : Indices]
  \cup [op : {"hit", "reserve", "pause", "finish"}, train : Trains]
  \cup [op : {"drive"}, train : Trains, status : {"ok", "refused", "too big"}, elapsed : BOOLEAN]
  \cup [op : {"hold"}, train : Trains, to : Callers \cup {NoTask}]
  \cup [op : {"answer"}, to : Callers]

\* Types; in particular an index that is used as a speed, by a train that
\* starts again after a pause, leads to no index above 2 * MaxSpeed, the size of
\* the tables of stopping distances (train_controller.c:146-202).
TypeOK ==
  /\ profile \in [Trains -> [current_speed : Indices, speed_index : Indices,
                             previous_speed_index : Indices,
                             direction : {"straight", "reversed"},
                             paused : BOOLEAN, located : BOOLEAN]]
  /\ route \in [Trains -> [on : BOOLEAN, started : BOOLEAN, reversals : 0 .. MaxReversals,
                           errors : 0 .. MaxErrors - 1, reply_tid : Callers \cup {NoTask}]]
  /\ work \in Seq(Steps)
  /\ inbox \in Seq(Callers \cup {Task(t) : t \in Trains})
  /\ \A c \in Callers : request[c] = NoCall \/ request[c] \in Calls(c)
  /\ task \in [Trains -> [at : {"receive", "speed", "reversing", "resetting", "reset",
                                "restoring"}, data : Indices]]
  /\ rail \in [Trains -> [speed : Speeds, facing : {"straight", "reversed"}]]

Times(sender) == {i \in DOMAIN inbox : inbox[i] = sender}
Answers(c)    == {i \in DOMAIN work : work[i].op \in {"answer", "hold"} /\ work[i].to = c}
Routes(c)     == {t \in Trains : route[t].reply_tid = c}

\* Whoever the controller is going to answer waits for that answer: a caller is
\* at one place among the send queue, the handler that runs and one reply_tid,
\* and at none when it is not in a call.  A stale reply_tid would answer a
\* later call with an earlier route's end (train_controller.c:515-529, 893-905).
\* Nor is a call of the command line or the cab service forgotten (779-928); what
\* a courier's blocking route comes to is RouteEndsAnswered.
AnswersMatchCalls ==
  /\ TypeOK
  /\ \A c \in Callers :
       /\ request[c] = NoCall => Times(c) = {} /\ Answers(c) = {} /\ Routes(c) = {}
       /\ \A i, j \in Times(c) : i = j
       /\ \A i, j \in Answers(c) : i = j
       /\ Times(c) # {} => Answers(c) = {} /\ Routes(c) = {}
       /\ Answers(c) # {} => Routes(c) = {}
       /\ Routes(c) \subseteq {request[c].train}
       /\ c \in {Cli, CabService} /\ request[c] # NoCall => Times(c) # {} \/ Answers(c) # {}

\* The controller's idea of a train is what the train does: its speed, except
\* while the task still has to send it, and the way it faces, except between
\* the reversal and its report (train_controller.c:146-188, 836-880; train.c:50-58).
RailsAgree ==
  \A t \in Trains :
    /\ task[t].at # "speed" /\ profile[t].current_speed \in Speeds
         => rail[t].speed = profile[t].current_speed
    /\ task[t].at # "resetting" => rail[t].facing = profile[t].direction

\* A train is only ever reversed when it was told to stand: no speed reaches it
\* while its task waits to reverse it (train_controller.c:204-211, train.c:50-58).
ReversesStanding ==
  \A t \in Trains : task[t].at \in {"reversing", "resetting", "reset"} => rail[t].speed = 0

\* A train that pauses stands, so that starting it again is the only way out
\* (train_controller.c:166-168, 616-619, 698-706).
PausedTrainsStand ==
  \A t \in Trains :
    profile[t].paused => profile[t].current_speed = 0 /\ profile[t].speed_index = 0

\* The controller waits for a task that waits for the controller.
CircularWait(t) ==
  /\ work # << >> /\ Head(work).op \in {"speed", "reverse"} /\ Head(work).train = t
  /\ task[t].at \in {"resetting", "restoring"}

\* "Reply immediately to avoid deadlock" (train_controller.c:784) and "we must
\* set the speed here [...] otherwise, there's a dead lock between this task
\* and the train's task" (train_controller.c:830-831).  Not so: anything that
\* sets the speed of a train within four seconds of its reversal waits for a
\* task that comes to wait for the controller.
NoCircularWait == \A t \in Trains : ~CircularWait(t)

\* The assertion of train.c:38, "Invalid speed".  Not so: a paused train is
\* started again with previous_speed_index, which is not a speed after a
\* slow-down (train_controller.c:618).
TasksGetValidSpeeds == \A t \in Trains : task[t].at = "speed" => task[t].data \in Speeds

\* "should reply to this after train was router (successfully or otherwise)"
\* (train_profile.h:90).  Not so: when a train that got stuck or lost is given a
\* new route and there is none, its route ends and reply_tid is left waiting
\* (train_controller.c:320, 729).
RouteEndsAnswered ==
  \A t \in Trains : work = << >> /\ route[t].reply_tid # NoTask => route[t].on
=============================================================================
