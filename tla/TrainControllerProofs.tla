----------------------- MODULE TrainControllerProofs -----------------------
(* Proofs about TrainController, for any trains and speeds: what the        *)
(* controller believes of a train is so, a train is reversed, or paused,    *)
(* only while it stands, and whoever is answered waits for that answer.     *)
EXTENDS TrainController, TLAPS

Profiles == [current_speed : Nat, speed_index : Nat, previous_speed_index : Nat,
             direction : {"straight", "reversed"}, paused : BOOLEAN, located : BOOLEAN]
Tasks    == [at : {"receive", "speed", "reversing", "resetting", "reset", "restoring"},
             data : Nat]
Rails    == [speed : Speeds, facing : {"straight", "reversed"}]
Commands == [command : {"SPEED", "REVERSE", "ROUTE", "ROUTE_STOP"}, train : Trains,
             speed : Nat]

\* Steps, with whatever number is used for a speed.
AnySteps ==
  [op : {"speed", "reverse"}, train : Trains, speed : Nat]
  \cup [op : {"hit", "reserve", "pause", "finish"}, train : Trains]
  \cup [op : {"drive"}, train : Trains, status : {"ok", "refused", "too big"}, elapsed : BOOLEAN]
  \cup [op : {"hold"}, train : Trains, to : Callers \cup {NoTask}]
  \cup [op : {"answer"}, to : Callers \cup {NoTask}]

Types ==
  /\ profile \in [Trains -> Profiles]
  /\ task \in [Trains -> Tasks]
  /\ rail \in [Trains -> Rails]
  /\ request \in [Callers -> Commands \cup {NoCall}]

\* Steps that need a train that was told to stand.
Standing(step) == step.op \in {"reverse", "pause"}

\* In a list of things to do, such a step comes right after the train is stopped,
\* except at the front.
Joined(w) ==
  \A i \in 2 .. Len(w) : Standing(w[i]) => w[i - 1] = SetSpeed(w[i].train, 0)

\* A list that can be put in front of any other, or behind.
Orderly(w) ==
  /\ w \in Seq(AnySteps)
  /\ Joined(w)
  /\ w # << >> => ~Standing(w[1])

\* What is left of a handler.  If its first step needs a train that stands, then
\* the controller has stopped the train.
WorkOK ==
  /\ work \in Seq(AnySteps)
  /\ Joined(work)
  /\ work # << >> /\ Standing(work[1]) => profile[work[1].train].current_speed = 0

\* What the controller has written about a train, where its task is and what the
\* train does.  A speed that is on its way is the controller's; so is a reversal
\* but for the report; and a train that stands has the speed index 0.
Agrees(p, k, r) ==
  /\ k.at = "speed" => k.data = p.current_speed
  /\ k.at = "resetting" => r.facing = Turned(p.direction)
  /\ p.current_speed = 0 => p.speed_index = 0
  /\ k.at # "speed" /\ p.current_speed \in Speeds => r.speed = p.current_speed
  /\ k.at # "resetting" => r.facing = p.direction
  /\ k.at \in {"reversing", "resetting", "reset"} => r.speed = 0
  /\ p.paused => p.current_speed = 0 /\ p.speed_index = 0

IInv ==
  /\ Types
  /\ WorkOK
  /\ \A t \in Trains : Agrees(profile[t], task[t], rail[t])

-----------------------------------------------------------------------------
(* Steps, and lists of them.                                               *)

LEMMA StepsOK ==
  ASSUME NEW t \in Trains
  PROVE  /\ \A s \in Nat : SetSpeed(t, s) \in AnySteps /\ ~Standing(SetSpeed(t, s))
         /\ \A s \in Nat : Reverse(t, s) \in AnySteps /\ Reverse(t, s).train = t
         /\ Pause(t) \in AnySteps /\ Pause(t).train = t
         /\ Hit(t) \in AnySteps /\ ~Standing(Hit(t))
         /\ Reserve(t) \in AnySteps /\ ~Standing(Reserve(t))
         /\ Finish(t) \in AnySteps /\ ~Standing(Finish(t))
         /\ \A status \in {"ok", "refused", "too big"}, elapsed \in BOOLEAN :
              /\ Drive(t, status, elapsed) \in AnySteps
              /\ ~Standing(Drive(t, status, elapsed))
         /\ \A c \in Callers \cup {NoTask} :
              Hold(t, c) \in AnySteps /\ ~Standing(Hold(t, c))
BY DEF AnySteps, Standing, SetSpeed, Reverse, Pause, Hit, Reserve, Finish, Drive, Hold

LEMMA AnswerOK ==
  ASSUME NEW c \in Callers \cup {NoTask}
  PROVE  Answer(c) \in AnySteps /\ ~Standing(Answer(c))
BY DEF AnySteps, Standing, Answer

LEMMA StepOf ==
  ASSUME NEW step \in AnySteps
  PROVE  /\ step.op # "answer" => step.train \in Trains
         /\ step.op \in {"speed", "reverse"} => step.speed \in Nat
         /\ step.op = "speed" => step = SetSpeed(step.train, step.speed)
         /\ step.op = "drive" => step.status \in {"ok", "refused", "too big"}
BY DEF AnySteps, SetSpeed

LEMMA OrderlyOne ==
  ASSUME NEW step \in AnySteps, ~Standing(step)
  PROVE  Orderly(<<step>>)
BY DEF Orderly, Joined

LEMMA OrderlyTwo ==
  ASSUME NEW one \in AnySteps, NEW two \in AnySteps, ~Standing(one), ~Standing(two)
  PROVE  Orderly(<<one, two>>)
<1> DEFINE w == <<one, two>>
<1>1. w \in Seq(AnySteps) /\ Len(w) = 2 /\ w[1] = one /\ w[2] = two
  OBVIOUS
<1> HIDE DEF w
<1>2. \A i \in 2 .. Len(w) : i = 2
  BY <1>1
<1>3. Joined(w)
  BY <1>1, <1>2 DEF Joined
<1>4. Orderly(w)
  BY <1>1, <1>3 DEF Orderly
<1> QED
  BY <1>4 DEF w

LEMMA OrderlyNone == Orderly(<< >>)
BY DEF Orderly, Joined

LEMMA OrderlyPair ==
  ASSUME NEW t \in Trains, NEW step \in AnySteps, step.train = t
  PROVE  Orderly(<<SetSpeed(t, 0), step>>)
<1> DEFINE w == <<SetSpeed(t, 0), step>>
<1>1. SetSpeed(t, 0) \in AnySteps /\ ~Standing(SetSpeed(t, 0))
  BY StepsOK
<1>2. w \in Seq(AnySteps) /\ Len(w) = 2 /\ w[1] = SetSpeed(t, 0) /\ w[2] = step
  BY <1>1
<1> HIDE DEF w
<1>3. \A i \in 2 .. Len(w) : i = 2
  BY <1>2
<1>4. Joined(w)
  <2>1. SUFFICES ASSUME NEW i \in 2 .. Len(w) PROVE w[i - 1] = SetSpeed(w[i].train, 0)
    BY DEF Joined
  <2>2. i = 2 /\ i - 1 = 1
    BY <1>3, <2>1
  <2> QED
    BY <1>2, <2>2
<1>5. Orderly(w)
  BY <1>1, <1>2, <1>4 DEF Orderly
<1> QED
  BY <1>5 DEF w

LEMMA OrderlyConcat ==
  ASSUME NEW u, NEW v, Orderly(u), Orderly(v)
  PROVE  Orderly(u \o v)
<1> DEFINE w == u \o v
           n == Len(u)
<1>1. /\ u \in Seq(AnySteps) /\ v \in Seq(AnySteps) /\ Joined(u) /\ Joined(v)
      /\ u # << >> => ~Standing(u[1])
      /\ v # << >> => ~Standing(v[1])
  BY DEF Orderly
<1>2. /\ w \in Seq(AnySteps) /\ n \in Nat /\ Len(v) \in Nat /\ Len(w) = n + Len(v)
      /\ \A i \in 1 .. n : w[i] = u[i]
      /\ \A i \in n + 1 .. Len(w) : w[i] = v[i - n]
  BY <1>1
<1> HIDE DEF w
<1>3. w # << >> => ~Standing(w[1])
  <2>1. SUFFICES ASSUME w # << >> PROVE ~Standing(w[1])
    OBVIOUS
  <2>2. CASE n = 0
    <3>1. Len(w) >= 1 /\ w[1] = v[1] /\ v # << >>
      BY <1>1, <1>2, <2>1, <2>2
    <3> QED
      BY <1>1, <3>1
  <2>3. CASE n # 0
    <3>1. w[1] = u[1] /\ u # << >>
      BY <1>1, <1>2, <2>3
    <3> QED
      BY <1>1, <3>1
  <2> QED
    BY <2>2, <2>3
<1>4. ASSUME NEW i \in 2 .. Len(w), Standing(w[i])
      PROVE  w[i - 1] = SetSpeed(w[i].train, 0)
  <2>1. CASE i <= n
    <3>1. i \in 2 .. Len(u) /\ w[i] = u[i] /\ w[i - 1] = u[i - 1]
      BY <1>2, <1>4, <2>1
    <3> QED
      BY <1>1, <1>4, <3>1 DEF Joined
  <2>2. CASE i = n + 1
    <3>1. w[i] = v[1] /\ v # << >>
      BY <1>1, <1>2, <1>4, <2>2
    <3> QED
      BY <1>1, <1>4, <3>1
  <2>3. CASE i > n + 1
    <3>1. i - n \in 2 .. Len(v) /\ w[i] = v[i - n] /\ w[i - 1] = v[(i - n) - 1]
      <4>1. /\ i \in n + 1 .. Len(w) /\ i - 1 \in n + 1 .. Len(w)
            /\ i - n \in 2 .. Len(v) /\ (i - 1) - n = (i - n) - 1
        BY <1>2, <1>4, <2>3
      <4>2. w[i] = v[i - n] /\ w[i - 1] = v[(i - 1) - n]
        BY <1>2, <4>1
      <4> QED
        BY <4>1, <4>2
    <3> QED
      BY <1>1, <1>4, <3>1 DEF Joined
  <2> QED
    BY <1>2, <2>1, <2>2, <2>3
<1>5. Orderly(w)
  BY <1>2, <1>3, <1>4 DEF Orderly, Joined
<1> QED
  BY <1>5 DEF w

\* What is left after any step but the setting of a speed.
LEMMA OrderlyRest ==
  ASSUME NEW w \in Seq(AnySteps), w # << >>, Joined(w), w[1].op # "speed"
  PROVE  Orderly(Tail(w))
<1> DEFINE r == Tail(w)
<1>1. /\ r \in Seq(AnySteps) /\ Len(w) \in Nat /\ Len(r) = Len(w) - 1
      /\ \A i \in 1 .. Len(r) : r[i] = w[i + 1]
  OBVIOUS
<1> HIDE DEF r
<1>2. r # << >> => ~Standing(r[1])
  <2>1. SUFFICES ASSUME r # << >>, Standing(r[1]) PROVE FALSE
    OBVIOUS
  <2>2. 2 \in 2 .. Len(w) /\ r[1] = w[2]
    BY <1>1, <2>1
  <2>3. w[2 - 1] = SetSpeed(w[2].train, 0)
    BY <2>1, <2>2 DEF Joined
  <2>4. w[1].op = "speed"
    BY <2>3 DEF SetSpeed
  <2> QED
    BY <2>4
<1>3. ASSUME NEW i \in 2 .. Len(r), Standing(r[i])
      PROVE  r[i - 1] = SetSpeed(r[i].train, 0)
  <2>1. /\ i + 1 \in 2 .. Len(w) /\ r[i] = w[i + 1]
        /\ r[i - 1] = w[(i + 1) - 1]
    BY <1>1, <1>3
  <2> QED
    BY <1>3, <2>1 DEF Joined
<1>4. Orderly(r)
  BY <1>1, <1>2, <1>3 DEF Orderly, Joined
<1> QED
  BY <1>4 DEF r

\* A step for every train.
LEMMA OrderlyEach ==
  ASSUME NEW w \in [DOMAIN TrainMap -> AnySteps], \A i \in DOMAIN TrainMap : ~Standing(w[i])
  PROVE  Orderly(w)
<1>1. DOMAIN TrainMap = 1 .. Len(TrainMap) /\ Len(TrainMap) \in Nat
  BY TrainMapAssumption
<1>2. w \in Seq(AnySteps) /\ Len(w) = Len(TrainMap)
  BY <1>1
<1>3. \A i \in 1 .. Len(w) : ~Standing(w[i])
  BY <1>1, <1>2
<1>4. Joined(w)
  BY <1>2, <1>3 DEF Joined
<1>5. w # << >> => ~Standing(w[1])
  BY <1>2, <1>3
<1> QED
  BY <1>2, <1>4, <1>5 DEF Orderly

LEMMA TrainReverseOK ==
  ASSUME NEW t \in Trains, NEW s \in Nat
  PROVE  Orderly(TrainReverse(t, s))
BY StepsOK, OrderlyPair DEF TrainReverse

-----------------------------------------------------------------------------
(* What a step may change.                                                 *)

\* The controller's list, the routes, the queue and the calls.
LEMMA HandlerStep ==
  ASSUME IInv, Orderly(work'), UNCHANGED <<profile, task, rail>>,
         request' \in [Callers -> Commands \cup {NoCall}]
  PROVE  IInv'
<1>1. Types'
  BY DEF IInv, Types
<1>2. WorkOK'
  BY DEF Orderly, WorkOK
<1>3. \A t \in Trains : Agrees(profile[t], task[t], rail[t])'
  BY DEF IInv
<1> QED
  BY <1>1, <1>2, <1>3 DEF IInv

\* What belongs to one train.
LEMMA OneTrain ==
  ASSUME IInv, NEW t \in Trains, NEW p \in Profiles, NEW k \in Tasks, NEW r \in Rails,
         Agrees(p, k, r),
         profile' = [profile EXCEPT ![t] = p],
         task' = [task EXCEPT ![t] = k],
         rail' = [rail EXCEPT ![t] = r],
         UNCHANGED request,
         WorkOK'
  PROVE  IInv'
<1>1. /\ profile \in [Trains -> Profiles] /\ task \in [Trains -> Tasks]
      /\ rail \in [Trains -> Rails] /\ request \in [Callers -> Commands \cup {NoCall}]
  BY DEF IInv, Types
<1>2. Types'
  BY <1>1 DEF Types
<1>3. ASSUME NEW u \in Trains PROVE Agrees(profile'[u], task'[u], rail'[u])
  <2>1. CASE u = t
    <3>1. profile'[u] = p /\ task'[u] = k /\ rail'[u] = r
      BY <1>1, <2>1
    <3> QED
      BY <3>1
  <2>2. CASE u # t
    <3>1. profile'[u] = profile[u] /\ task'[u] = task[u] /\ rail'[u] = rail[u]
      BY <1>1, <2>2
    <3>2. Agrees(profile[u], task[u], rail[u])
      BY DEF IInv
    <3> QED
      BY <3>1, <3>2
  <2> QED
    BY <2>1, <2>2
<1> QED
  BY <1>2, <1>3 DEF IInv

\* The records of a train.
LEMMA TrainOf ==
  ASSUME IInv, NEW t \in Trains
  PROVE  /\ profile[t] \in Profiles /\ task[t] \in Tasks /\ rail[t] \in Rails
         /\ Agrees(profile[t], task[t], rail[t])
         /\ profile = [profile EXCEPT ![t] = profile[t]]
         /\ task = [task EXCEPT ![t] = task[t]]
         /\ rail = [rail EXCEPT ![t] = rail[t]]
BY DEF IInv, Types

LEMMA RequestOf ==
  ASSUME IInv, NEW c \in Callers, request[c].command # "none"
  PROVE  request[c] \in Commands /\ request[c].train \in Trains /\ request[c].speed \in Nat
BY DEF IInv, Types, Commands, NoCall

LEMMA RepliedOK ==
  ASSUME IInv, NEW c
  PROVE  Replied(c) \in [Callers -> Commands \cup {NoCall}]
BY DEF IInv, Types, Replied

\* The first step, and the rest when it does not set a speed.
LEMMA DoingOK ==
  ASSUME IInv, NEW op, Doing(op)
  PROVE  /\ work # << >> /\ work \in Seq(AnySteps) /\ Joined(work)
         /\ Head(work) = work[1] /\ Head(work) \in AnySteps /\ Head(work).op = op
         /\ op # "speed" => Orderly(Tail(work))
<1>1. /\ work # << >> /\ work \in Seq(AnySteps) /\ Joined(work)
      /\ Head(work) = work[1] /\ Head(work) \in AnySteps /\ Head(work).op = op
  BY DEF IInv, WorkOK, Doing
<1> QED
  BY <1>1, OrderlyRest

-----------------------------------------------------------------------------
(* Routes.                                                                 *)

LEMMA RoutePlannedOK ==
  ASSUME NEW t \in Trains, NEW rest, Orderly(rest), RoutePlanned(t, rest)
  PROVE  Orderly(work')
<1>1. PICK first \in BOOLEAN :
        work' = <<SetSpeed(t, DefaultSpeed)>>
                \o (IF first THEN TrainReverse(t, DefaultSpeed) ELSE << >>) \o rest
  BY DEF RoutePlanned
<1>2. DefaultSpeed \in Nat
  BY SpeedAssumption
<1>3. Orderly(<<SetSpeed(t, DefaultSpeed)>>)
  BY <1>2, StepsOK, OrderlyOne
<1>4. Orderly(IF first THEN TrainReverse(t, DefaultSpeed) ELSE << >>)
  BY <1>2, TrainReverseOK, OrderlyNone
<1>5. Orderly(<<SetSpeed(t, DefaultSpeed)>>
                \o (IF first THEN TrainReverse(t, DefaultSpeed) ELSE << >>))
  BY <1>3, <1>4, OrderlyConcat
<1>6. Orderly(<<SetSpeed(t, DefaultSpeed)>>
                \o (IF first THEN TrainReverse(t, DefaultSpeed) ELSE << >>) \o rest)
  BY <1>5, OrderlyConcat
<1> QED
  BY <1>1, <1>6, Zenon

LEMMA ReplanOK ==
  ASSUME NEW t \in Trains, NEW rest, Orderly(rest), Replan(t, rest)
  PROVE  Orderly(work')
BY RoutePlannedOK DEF Replan, RouteNotFound

-----------------------------------------------------------------------------
(* The steps that change no train.                                         *)

LEMMA MakeCallOK ==
  ASSUME IInv, NEW c \in Callers, MakeCall(c)
  PROVE  IInv'
<1>1. PICK call \in Calls(c) : request' = [request EXCEPT ![c] = call]
  BY DEF MakeCall
<1>2. call \in Commands
  <2>1. Speeds \subseteq Nat
    BY SpeedAssumption DEF Speeds
  <2> QED
    BY <2>1 DEF Calls, Call, Commands
<1>3. Types'
  BY <1>1, <1>2 DEF IInv, Types, MakeCall
<1>4. WorkOK'
  BY DEF IInv, WorkOK, MakeCall
<1>5. \A t \in Trains : Agrees(profile[t], task[t], rail[t])'
  BY DEF IInv, MakeCall
<1> QED
  BY <1>3, <1>4, <1>5 DEF IInv

LEMMA PopOK ==
  ASSUME IInv, SendAnswer \/ HoldAnswer \/ FinishRoute
  PROVE  IInv'
<1>1. /\ \E op \in {"answer", "hold", "finish"} : Doing(op)
      /\ work' = Tail(work)
      /\ UNCHANGED <<profile, task, rail>>
      /\ request' = request \/ \E c : request' = Replied(c)
  BY DEF SendAnswer, HoldAnswer, FinishRoute
<1>2. Orderly(work')
  BY <1>1, DoingOK
<1>3. request' \in [Callers -> Commands \cup {NoCall}]
  BY <1>1, RepliedOK DEF IInv, Types
<1> QED
  BY <1>1, <1>2, <1>3, HandlerStep

LEMMA SpeedMessageOK ==
  ASSUME IInv, NEW c \in Callers, SpeedMessage(c)
  PROVE  IInv'
<1>1. request[c].command = "SPEED"
  BY DEF SpeedMessage, ReceivedCall
<1>2. request[c].train \in Trains /\ request[c].speed \in Nat
  BY <1>1, RequestOf
<1>3. Orderly(work')
  BY <1>2, StepsOK, OrderlyOne DEF SpeedMessage
<1> QED
  BY <1>3, RepliedOK, HandlerStep DEF SpeedMessage

LEMMA ReverseMessageOK ==
  ASSUME IInv, NEW c \in Callers, ReverseMessage(c)
  PROVE  IInv'
<1> DEFINE t == request[c].train
           old_speed == profile[t].current_speed
<1>1. request[c].command = "REVERSE"
  BY DEF ReverseMessage, ReceivedCall
<1>2. t \in Trains /\ old_speed \in Nat
  <2>1. t \in Trains
    BY <1>1, RequestOf
  <2> QED
    BY <2>1 DEF IInv, Types, Profiles
<1>3. work' = Append(TrainReverse(t, old_speed), Answer(c))
  BY DEF ReverseMessage
<1>4. Orderly(TrainReverse(t, old_speed)) /\ Orderly(<<Answer(c)>>)
  BY <1>2, TrainReverseOK, AnswerOK, OrderlyOne
<1>5. work' = TrainReverse(t, old_speed) \o <<Answer(c)>>
  <2>1. TrainReverse(t, old_speed) \in Seq(AnySteps) /\ Answer(c) \in AnySteps
    BY <1>4, AnswerOK DEF Orderly
  <2> QED
    BY <1>3, <2>1
<1>6. Orderly(work')
  BY <1>4, <1>5, OrderlyConcat
<1> QED
  BY <1>6, HandlerStep DEF ReverseMessage, IInv, Types

LEMMA RefusedOK ==
  ASSUME IInv, NEW c \in Callers, RouteRefused(c) \/ RouteStopRefused(c)
  PROVE  IInv'
<1>1. work = << >> /\ UNCHANGED <<profile, work, task, rail>> /\ request' = Replied(c)
  BY DEF RouteRefused, RouteStopRefused, ReceivedCall, Received
<1> QED
  BY <1>1, OrderlyNone, RepliedOK, HandlerStep

LEMMA RouteOK ==
  ASSUME IInv, NEW c \in Callers, RouteMessage(c) \/ RouteFails(c)
  PROVE  IInv'
<1> DEFINE t == request[c].train
<1>1. t \in Trains
  BY RequestOf DEF RouteMessage, RouteFails, ReceivedCall
<1>2. Hold(t, NoTask) \in AnySteps /\ Hold(t, c) \in AnySteps /\ Answer(c) \in AnySteps
      /\ ~Standing(Hold(t, NoTask)) /\ ~Standing(Hold(t, c)) /\ ~Standing(Answer(c))
  BY <1>1, StepsOK, AnswerOK
<1>3. Orderly(<<Hold(t, c)>>) /\ Orderly(<<Hold(t, NoTask), Answer(c)>>)
  BY <1>2, OrderlyOne, OrderlyTwo
<1>4. Orderly(work')
  <2>1. CASE RouteMessage(c)
    <3>1. RoutePlanned(t, IF c = Cli THEN <<Hold(t, NoTask), Answer(c)>> ELSE <<Hold(t, c)>>)
      BY <2>1 DEF RouteMessage
    <3>2. Orderly(IF c = Cli THEN <<Hold(t, NoTask), Answer(c)>> ELSE <<Hold(t, c)>>)
      BY <1>3
    <3> QED
      BY <1>1, <3>1, <3>2, RoutePlannedOK
  <2>2. CASE RouteFails(c)
    BY <1>3, <2>2 DEF RouteFails, RouteNotFound
  <2> QED
    BY <2>1, <2>2
<1> QED
  BY <1>4, HandlerStep DEF RouteMessage, RouteFails, IInv, Types

LEMMA RouteStopMessageOK ==
  ASSUME IInv, NEW c \in Callers, RouteStopMessage(c)
  PROVE  IInv'
<1> DEFINE t    == request[c].train
           stop == IF profile[t].current_speed # 0 THEN <<SetSpeed(t, 0)>> ELSE << >>
<1>1. t \in Trains
  BY RequestOf DEF RouteStopMessage, ReceivedCall
<1>2. Orderly(stop)
  BY <1>1, StepsOK, OrderlyOne, OrderlyNone
<1>3. Orderly(<<Finish(t), Answer(c)>>)
  BY <1>1, StepsOK, AnswerOK, OrderlyTwo
<1>4. work' = stop \o <<Finish(t), Answer(c)>>
  BY DEF RouteStopMessage
<1>5. Orderly(work')
  BY <1>2, <1>3, <1>4, OrderlyConcat
<1> QED
  BY <1>5, HandlerStep DEF RouteStopMessage, IInv, Types

LEMMA SensorOK ==
  ASSUME IInv, SensorLocates \/ SensorHits \/ SensorSpurious \/ Ping
  PROVE  IInv'
<1>1. \A i \in DOMAIN TrainMap : TrainMap[i] \in Trains
  BY DEF Trains
<1>2. CASE SensorLocates
  <2>1. PICK i \in DOMAIN TrainMap : work' = <<SetSpeed(TrainMap[i], 0), Hit(TrainMap[i])>>
    BY <1>2 DEF SensorLocates
  <2>2. Hit(TrainMap[i]) \in AnySteps /\ Hit(TrainMap[i]).train = TrainMap[i]
    BY <1>1, StepsOK DEF Hit
  <2>3. Orderly(work')
    BY <1>1, <2>1, <2>2, OrderlyPair
  <2> QED
    BY <1>2, <2>3, HandlerStep DEF SensorLocates, IInv, Types
<1>3. CASE SensorHits
  <2>1. PICK t \in Trains : work' = <<Hit(t)>>
    BY <1>3 DEF SensorHits
  <2>2. Orderly(work')
    BY <2>1, StepsOK, OrderlyOne
  <2> QED
    BY <1>3, <2>2, HandlerStep DEF SensorHits, IInv, Types
<1>4. CASE SensorSpurious
  <2>1. work' = [i \in DOMAIN TrainMap |-> SetSpeed(TrainMap[i], 0)]
    BY <1>4 DEF SensorSpurious
  <2>2. \A i \in DOMAIN TrainMap : work'[i] \in AnySteps /\ ~Standing(work'[i])
    BY <1>1, <2>1, StepsOK
  <2>3. Orderly(work')
    BY <2>1, <2>2, OrderlyEach
  <2> QED
    BY <1>4, <2>3, HandlerStep DEF SensorSpurious, IInv, Types
<1>5. CASE Ping
  <2>1. work' = [i \in DOMAIN TrainMap |-> Reserve(TrainMap[i])]
    BY <1>5 DEF Ping
  <2>2. \A i \in DOMAIN TrainMap : work'[i] \in AnySteps /\ ~Standing(work'[i])
    BY <1>1, <2>1, StepsOK
  <2>3. Orderly(work')
    BY <2>1, <2>2, OrderlyEach
  <2> QED
    BY <1>5, <2>3, HandlerStep DEF Ping, IInv, Types
<1> QED
  BY <1>2, <1>3, <1>4, <1>5

LEMMA DriveOK ==
  ASSUME IInv, NEW t \in Trains,
         Arrive(t) \/ TurnBack(t) \/ Halt(t) \/ Reroute(t) \/ RollOn(t)
  PROVE  IInv'
<1>1. Doing("drive") /\ UNCHANGED <<profile, request, task, rail>>
  BY DEF Arrive, TurnBack, Halt, Reroute, RollOn, DriveOf
<1>2. Orderly(Tail(work))
  BY <1>1, DoingOK
<1>3. Orderly(<<SetSpeed(t, 0)>>) /\ Orderly(<<Finish(t)>>)
      /\ Orderly(<<SetSpeed(t, 0), Finish(t)>>) /\ Orderly(<<SetSpeed(t, 0), Pause(t)>>)
  <2>1. Finish(t) \in AnySteps /\ Finish(t).train = t
    BY StepsOK DEF Finish
  <2> QED
    BY <2>1, StepsOK, OrderlyOne, OrderlyPair
<1>4. Orderly(work')
  <2>1. CASE Arrive(t)
    BY <1>2, <1>3, <2>1, OrderlyConcat DEF Arrive
  <2>2. CASE TurnBack(t)
    <3>1. profile[t].current_speed \in Nat
      BY DEF IInv, Types, Profiles
    <3>2. Orderly(TrainReverse(t, profile[t].current_speed))
      BY <3>1, TrainReverseOK
    <3> QED
      BY <1>2, <2>2, <3>2, OrderlyConcat DEF TurnBack
  <2>3. CASE Halt(t)
    <3>1. PICK stop : Orderly(stop) /\ work' = stop \o Tail(work)
      BY <1>3, <2>3 DEF Halt
    <3> QED
      BY <1>2, <3>1, OrderlyConcat
  <2>4. CASE Reroute(t)
    BY <1>2, <2>4, ReplanOK DEF Reroute
  <2>5. CASE RollOn(t)
    BY <1>2, <2>5 DEF RollOn
  <2> QED
    BY <2>1, <2>2, <2>3, <2>4, <2>5
<1>5. request' \in [Callers -> Commands \cup {NoCall}]
  BY <1>1 DEF IInv, Types
<1> QED
  BY <1>1, <1>4, <1>5, HandlerStep

-----------------------------------------------------------------------------
(* The steps that change a train.                                          *)

LEMMA AfterSpeedOK ==
  ASSUME NEW p \in Profiles, NEW s \in Nat, NEW k \in Tasks, NEW r \in Rails,
         Agrees(p, k, r), k.at = "receive"
  PROVE  /\ AfterSpeed(p, s) \in Profiles
         /\ AfterSpeed(p, s).current_speed = s
         /\ [at |-> "speed", data |-> s] \in Tasks
         /\ Agrees(AfterSpeed(p, s), [at |-> "speed", data |-> s], r)
<1> DEFINE q   == AfterSpeed(p, s)
           new == [at |-> "speed", data |-> s]
<1>1. new \in Tasks /\ new.at = "speed" /\ new.data = s
  BY DEF Tasks
<1>2. CASE s = p.current_speed
  <2>1. q = p
    BY <1>2 DEF AfterSpeed
  <2>2. Agrees(p, new, r)
    BY <1>1, <1>2 DEF Agrees
  <2> QED
    BY <1>1, <1>2, <2>1, <2>2
<1>3. CASE s # p.current_speed
  <2> DEFINE index == IF s # 0 /\ s < p.current_speed THEN MaxSpeed + s ELSE s
  <2>1. index \in Nat /\ (s = 0 => index = 0)
    BY SpeedAssumption DEF Profiles
  <2>2. q = [p EXCEPT !.current_speed = s, !.previous_speed_index = p.speed_index,
                      !.paused = p.paused /\ s = 0, !.speed_index = index]
    BY <1>3 DEF AfterSpeed
  <2> HIDE DEF index
  <2>3. /\ q.current_speed = s /\ q.speed_index = index
        /\ q.previous_speed_index = p.speed_index
        /\ q.direction = p.direction
    BY <2>2 DEF Profiles
  <2>4. q.paused = (p.paused /\ s = 0)
    BY <2>2 DEF Profiles
  <2>5. q \in Profiles
    <3>1. (p.paused /\ s = 0) \in BOOLEAN /\ p.speed_index \in Nat
      BY DEF Profiles
    <3> QED
      BY <2>1, <2>2, <3>1 DEF Profiles
  <2>6. q.paused => s = 0
    BY <2>4, Zenon
  <2>7. Agrees(q, new, r)
    <3>1. r.facing = p.direction
      BY DEF Agrees
    <3> QED
      BY <1>1, <2>1, <2>3, <2>6, <3>1, Zenon DEF Agrees
  <2> QED
    BY <1>1, <2>3, <2>5, <2>7
<1> QED
  BY <1>2, <1>3

LEMMA TrainSetSpeedOK ==
  ASSUME IInv, TrainSetSpeed
  PROVE  IInv'
<1> DEFINE t == Head(work).train
           s == Head(work).speed
           p == AfterSpeed(profile[t], s)
           k == [at |-> "speed", data |-> s]
<1>1. /\ Doing("speed") /\ work' = Tail(work) /\ task[t].at = "receive"
      /\ profile' = [profile EXCEPT ![t] = AfterSpeed(@, s)]
      /\ task' = [task EXCEPT ![t] = k]
      /\ UNCHANGED <<request, rail>>
  BY DEF TrainSetSpeed
<1>2. /\ work # << >> /\ work \in Seq(AnySteps) /\ Joined(work)
      /\ Head(work) = work[1] /\ Head(work) \in AnySteps /\ Head(work).op = "speed"
  BY <1>1, DoingOK
<1>3. t \in Trains /\ s \in Nat /\ work[1] = SetSpeed(t, s)
  BY <1>2, StepOf
<1>4. /\ profile[t] \in Profiles /\ task[t] \in Tasks /\ rail[t] \in Rails
      /\ Agrees(profile[t], task[t], rail[t])
      /\ rail = [rail EXCEPT ![t] = rail[t]]
  BY <1>3, TrainOf
<1>5. p \in Profiles /\ p.current_speed = s /\ k \in Tasks /\ Agrees(p, k, rail[t])
  BY <1>1, <1>3, <1>4, AfterSpeedOK
<1>6. profile' = [profile EXCEPT ![t] = p] /\ rail' = [rail EXCEPT ![t] = rail[t]]
  BY <1>1, <1>4
<1>7. profile'[t] = p
  BY <1>3, <1>6 DEF IInv, Types
<1>8. WorkOK'
  <2> DEFINE w == Tail(work)
  <2>1. /\ w \in Seq(AnySteps) /\ Len(work) \in Nat /\ Len(w) = Len(work) - 1
        /\ \A i \in 1 .. Len(w) : w[i] = work[i + 1]
    BY <1>2
  <2> HIDE DEF w
  <2>2. Joined(w)
    <3>1. SUFFICES ASSUME NEW i \in 2 .. Len(w), Standing(w[i])
                   PROVE  w[i - 1] = SetSpeed(w[i].train, 0)
      BY DEF Joined
    <3>2. /\ i + 1 \in 2 .. Len(work) /\ w[i] = work[i + 1]
          /\ w[i - 1] = work[(i + 1) - 1]
      BY <2>1, <3>1
    <3> QED
      BY <1>2, <3>1, <3>2 DEF Joined
  <2>3. ASSUME w # << >>, Standing(w[1]) PROVE profile'[w[1].train].current_speed = 0
    <3>1. 2 \in 2 .. Len(work) /\ w[1] = work[2]
      BY <2>1, <2>3
    <3>2. work[2 - 1] = SetSpeed(work[2].train, 0)
      BY <1>2, <2>3, <3>1 DEF Joined
    <3>3. SetSpeed(t, s) = SetSpeed(w[1].train, 0)
      BY <1>3, <3>1, <3>2
    <3>4. w[1].train = t /\ s = 0
      BY <3>3 DEF SetSpeed
    <3> QED
      BY <1>5, <1>7, <3>4
  <2> QED
    BY <1>1, <2>1, <2>2, <2>3 DEF WorkOK, w
<1>9. /\ t \in Trains /\ p \in Profiles /\ k \in Tasks /\ rail[t] \in Rails
      /\ Agrees(p, k, rail[t])
      /\ task' = [task EXCEPT ![t] = k] /\ UNCHANGED request
  BY <1>1, <1>3, <1>4, <1>5
<1> HIDE DEF t, s, p, k
<1> QED
  BY <1>6, <1>8, <1>9, OneTrain

LEMMA SendReverseOK ==
  ASSUME IInv, SendReverse
  PROVE  IInv'
<1> DEFINE t == Head(work).train
           s == Head(work).speed
           k == [at |-> "reversing", data |-> s]
<1>1. /\ Doing("reverse") /\ work' = Tail(work) /\ task[t].at = "receive"
      /\ task' = [task EXCEPT ![t] = k]
      /\ UNCHANGED <<profile, request, rail>>
  BY DEF SendReverse
<1>2. /\ work # << >> /\ Head(work) = work[1] /\ Head(work) \in AnySteps
      /\ Head(work).op = "reverse" /\ Orderly(Tail(work))
  BY <1>1, DoingOK
<1>3. t \in Trains /\ s \in Nat
  BY <1>2, StepOf
<1>4. /\ profile[t] \in Profiles /\ task[t] \in Tasks /\ rail[t] \in Rails
      /\ Agrees(profile[t], task[t], rail[t])
      /\ profile = [profile EXCEPT ![t] = profile[t]]
      /\ rail = [rail EXCEPT ![t] = rail[t]]
  BY <1>3, TrainOf
<1>5. profile[t].current_speed = 0
  BY <1>2 DEF IInv, WorkOK, Standing
<1>6. 0 \in Speeds
  BY SpeedAssumption DEF Speeds
<1>7. k \in Tasks /\ Agrees(profile[t], k, rail[t])
  BY <1>1, <1>3, <1>4, <1>5, <1>6 DEF Agrees, Tasks
<1>8. WorkOK'
  BY <1>1, <1>2 DEF Orderly, WorkOK
<1>9. profile' = [profile EXCEPT ![t] = profile[t]] /\ rail' = [rail EXCEPT ![t] = rail[t]]
  BY <1>1, <1>4
<1>10. /\ t \in Trains /\ profile[t] \in Profiles /\ k \in Tasks /\ rail[t] \in Rails
       /\ Agrees(profile[t], k, rail[t])
       /\ task' = [task EXCEPT ![t] = k] /\ UNCHANGED request
  BY <1>1, <1>3, <1>4, <1>7
<1> HIDE DEF t, s, k
<1> QED
  BY <1>8, <1>9, <1>10, OneTrain

LEMMA RestoreMessageOK ==
  ASSUME IInv, NEW t \in Trains, RestoreMessage(t)
  PROVE  IInv'
<1>1. /\ task[t].at = "restoring" /\ task' = [task EXCEPT ![t] = Receiving]
      /\ work' = <<SetSpeed(t, task[t].data)>>
      /\ UNCHANGED <<profile, request, rail>>
  BY DEF RestoreMessage
<1>2. /\ profile[t] \in Profiles /\ task[t] \in Tasks /\ rail[t] \in Rails
      /\ Agrees(profile[t], task[t], rail[t])
      /\ profile = [profile EXCEPT ![t] = profile[t]]
      /\ rail = [rail EXCEPT ![t] = rail[t]]
  BY TrainOf
<1>3. Receiving \in Tasks /\ Agrees(profile[t], Receiving, rail[t])
  BY <1>1, <1>2 DEF Agrees, Tasks, Receiving
<1>4. WorkOK'
  <2>1. task[t].data \in Nat
    BY <1>2 DEF Tasks
  <2>2. Orderly(work')
    BY <1>1, <2>1, StepsOK, OrderlyOne
  <2> QED
    BY <2>2 DEF Orderly, WorkOK
<1>5. profile' = [profile EXCEPT ![t] = profile[t]] /\ rail' = [rail EXCEPT ![t] = rail[t]]
  BY <1>1, <1>2
<1>6. /\ profile[t] \in Profiles /\ rail[t] \in Rails /\ UNCHANGED request
      /\ task' = [task EXCEPT ![t] = Receiving]
  BY <1>1, <1>2
<1> QED
  BY <1>3, <1>4, <1>5, <1>6, OneTrain

\* The train was turned, now the controller knows.
LEMMA ReverseResetMessageOK ==
  ASSUME IInv, NEW t \in Trains, ReverseResetMessage(t)
  PROVE  IInv'
<1> DEFINE p == [profile[t] EXCEPT !.direction = Turned(@)]
           k == [task[t] EXCEPT !.at = "reset"]
<1>1. /\ task[t].at = "resetting" /\ work = << >>
      /\ profile' = [profile EXCEPT ![t].direction = Turned(@)]
      /\ task' = [task EXCEPT ![t].at = "reset"]
      /\ UNCHANGED <<work, request, rail>>
  BY DEF ReverseResetMessage, Received
<1>2. /\ profile[t] \in Profiles /\ task[t] \in Tasks /\ rail[t] \in Rails
      /\ Agrees(profile[t], task[t], rail[t])
      /\ rail = [rail EXCEPT ![t] = rail[t]]
  BY TrainOf
<1>3. profile' = [profile EXCEPT ![t] = p] /\ task' = [task EXCEPT ![t] = k]
  BY <1>1
<1>4. /\ p \in Profiles /\ p.current_speed = profile[t].current_speed
      /\ p.speed_index = profile[t].speed_index /\ p.direction = Turned(profile[t].direction)
  BY <1>2 DEF Profiles, Turned
<1>5. p.paused = profile[t].paused
  BY <1>2 DEF Profiles
<1>6. k \in Tasks /\ k.at = "reset"
  BY <1>2 DEF Tasks
<1>7. Agrees(p, k, rail[t])
  BY <1>1, <1>2, <1>4, <1>5, <1>6 DEF Agrees
<1>8. WorkOK'
  BY <1>1, OrderlyNone DEF Orderly, WorkOK
<1>9. rail' = [rail EXCEPT ![t] = rail[t]] /\ UNCHANGED request
  BY <1>1, <1>2
<1>10. p \in Profiles /\ k \in Tasks /\ rail[t] \in Rails
  BY <1>2, <1>4, <1>6
<1> HIDE DEF p, k
<1> QED
  BY <1>3, <1>7, <1>8, <1>9, <1>10, OneTrain

\* Where a train is, whether it has paused: its speed and direction stay.
LEMMA NotedOK ==
  ASSUME IInv, NEW t \in Trains, NEW p \in Profiles,
         p.current_speed = profile[t].current_speed,
         p.speed_index = profile[t].speed_index,
         p.direction = profile[t].direction,
         p.paused => p.current_speed = 0 /\ p.speed_index = 0,
         profile' = [profile EXCEPT ![t] = p],
         UNCHANGED <<request, task, rail>>,
         Orderly(work')
  PROVE  IInv'
<1>1. /\ task[t] \in Tasks /\ rail[t] \in Rails
      /\ Agrees(profile[t], task[t], rail[t])
      /\ task' = [task EXCEPT ![t] = task[t]]
      /\ rail' = [rail EXCEPT ![t] = rail[t]]
  BY TrainOf
<1>2. Agrees(p, task[t], rail[t])
  BY <1>1 DEF Agrees
<1>3. WorkOK'
  BY DEF Orderly, WorkOK
<1> QED
  BY <1>1, <1>2, <1>3, OneTrain

LEMMA SensorUpdateOK ==
  ASSUME IInv, SensorUpdate
  PROVE  IInv'
<1> DEFINE t == Head(work).train
           p == [profile[t] EXCEPT !.located = TRUE]
<1>1. /\ Doing("hit") /\ profile' = [profile EXCEPT ![t].located = TRUE]
      /\ SensorOnPath(t) \/ SensorOffPath(t)
      /\ UNCHANGED <<request, task, rail>>
  BY DEF SensorUpdate
<1>2. Head(work) \in AnySteps /\ Head(work).op = "hit" /\ Orderly(Tail(work))
  BY <1>1, DoingOK
<1>3. t \in Trains
  BY <1>2, StepOf
<1>4. profile[t] \in Profiles /\ Agrees(profile[t], task[t], rail[t])
  BY <1>3, TrainOf
<1>5. profile' = [profile EXCEPT ![t] = p]
  BY <1>1
<1>6. /\ p \in Profiles /\ p.current_speed = profile[t].current_speed
      /\ p.speed_index = profile[t].speed_index /\ p.direction = profile[t].direction
      /\ p.paused = profile[t].paused
  BY <1>4 DEF Profiles
<1>7. Orderly(work')
  BY <1>1, <1>2, <1>3, ReplanOK DEF SensorOnPath, SensorOffPath
<1>8. p.paused => p.current_speed = 0 /\ p.speed_index = 0
  BY <1>4, <1>6 DEF Agrees
<1> QED
  BY <1>1, <1>3, <1>5, <1>6, <1>7, <1>8, NotedOK

LEMMA ReserveTrackOK ==
  ASSUME IInv, ReserveTrack
  PROVE  IInv'
<1> DEFINE t == Head(work).train
           p == [profile[t] EXCEPT !.paused = FALSE]
<1>1. Doing("reserve") /\ UNCHANGED <<request, task, rail>>
  BY DEF ReserveTrack
<1>2. Head(work) \in AnySteps /\ Head(work).op = "reserve" /\ Orderly(Tail(work))
  BY <1>1, DoingOK
<1>3. t \in Trains
  BY <1>2, StepOf
<1>4. profile[t] \in Profiles /\ profile[t].previous_speed_index \in Nat
  BY <1>3, TrainOf DEF Profiles
<1>5. \/ /\ UNCHANGED profile
         /\ work' = Tail(work)
      \/ \E status \in {"ok", "refused", "too big"}, elapsed \in BOOLEAN :
           /\ UNCHANGED profile
           /\ work' = <<Drive(t, status, elapsed)>> \o Tail(work)
      \/ \E status \in {"ok", "refused", "too big"} :
           /\ profile' = [profile EXCEPT ![t].paused = FALSE]
           /\ work' = <<SetSpeed(t, profile[t].previous_speed_index),
                        Drive(t, status, FALSE)>> \o Tail(work)
  <2>1. CASE ~profile[t].located
    BY <2>1 DEF ReserveTrack
  <2>2. CASE profile[t].located
    <3>1. PICK status \in {"ok", "refused", "too big"},
               elapsed \in IF profile[t].paused THEN BOOLEAN ELSE {FALSE} :
            IF status = "ok" /\ elapsed /\ profile[t].speed_index = 0
            THEN /\ profile' = [profile EXCEPT ![t].paused = FALSE]
                 /\ work' = <<SetSpeed(t, profile[t].previous_speed_index),
                              Drive(t, status, FALSE)>> \o Tail(work)
            ELSE /\ work' = <<Drive(t, status, elapsed)>> \o Tail(work)
                 /\ UNCHANGED profile
      BY <2>2, Zenon DEF ReserveTrack
    <3>2. elapsed \in BOOLEAN
      BY <3>1, Zenon
    <3> QED
      BY <3>1, <3>2, Zenon
  <2> QED
    BY <2>1, <2>2
<1>6. ASSUME UNCHANGED profile, Orderly(work') PROVE IInv'
  BY <1>1, <1>6, HandlerStep DEF IInv, Types
<1>7. CASE UNCHANGED profile /\ work' = Tail(work)
  BY <1>2, <1>6, <1>7
<1>8. ASSUME NEW status \in {"ok", "refused", "too big"}, NEW elapsed \in BOOLEAN,
             UNCHANGED profile, work' = <<Drive(t, status, elapsed)>> \o Tail(work)
      PROVE  IInv'
  <2>1. Orderly(<<Drive(t, status, elapsed)>>)
    BY <1>3, StepsOK, OrderlyOne
  <2> QED
    BY <1>2, <1>6, <1>8, <2>1, OrderlyConcat
<1>9. ASSUME NEW status \in {"ok", "refused", "too big"},
             profile' = [profile EXCEPT ![t].paused = FALSE],
             work' = <<SetSpeed(t, profile[t].previous_speed_index),
                       Drive(t, status, FALSE)>> \o Tail(work)
      PROVE  IInv'
  <2>1. Orderly(<<SetSpeed(t, profile[t].previous_speed_index), Drive(t, status, FALSE)>>)
    BY <1>3, <1>4, StepsOK, OrderlyTwo
  <2>2. Orderly(work')
    BY <1>2, <1>9, <2>1, OrderlyConcat
  <2>3. profile' = [profile EXCEPT ![t] = p]
    BY <1>9
  <2>4. /\ p \in Profiles /\ p.current_speed = profile[t].current_speed
        /\ p.speed_index = profile[t].speed_index /\ p.direction = profile[t].direction
        /\ p.paused = FALSE
    BY <1>4 DEF Profiles
  <2> QED
    BY <1>1, <1>3, <2>2, <2>3, <2>4, NotedOK
<1> QED
  BY <1>5, <1>7, <1>8, <1>9

LEMMA PauseTrainOK ==
  ASSUME IInv, PauseTrain
  PROVE  IInv'
<1> DEFINE t == Head(work).train
           p == [profile[t] EXCEPT !.paused = TRUE]
<1>1. /\ Doing("pause") /\ work' = Tail(work)
      /\ profile' = [profile EXCEPT ![t].paused = TRUE]
      /\ UNCHANGED <<request, task, rail>>
  BY DEF PauseTrain
<1>2. /\ work # << >> /\ Head(work) = work[1] /\ Head(work) \in AnySteps
      /\ Head(work).op = "pause" /\ Orderly(Tail(work))
  BY <1>1, DoingOK
<1>3. t \in Trains
  BY <1>2, StepOf
<1>4. profile[t] \in Profiles /\ Agrees(profile[t], task[t], rail[t])
  BY <1>3, TrainOf
<1>5. profile[t].current_speed = 0 /\ profile[t].speed_index = 0
  BY <1>2, <1>4 DEF IInv, WorkOK, Standing, Agrees
<1>6. profile' = [profile EXCEPT ![t] = p]
  BY <1>1
<1>7. /\ p \in Profiles /\ p.current_speed = profile[t].current_speed
      /\ p.speed_index = profile[t].speed_index /\ p.direction = profile[t].direction
  BY <1>4 DEF Profiles
<1> QED
  BY <1>1, <1>2, <1>3, <1>5, <1>6, <1>7, NotedOK

LEMMA RunTaskOK ==
  ASSUME IInv, NEW t \in Trains, RunTask(t)
  PROVE  IInv'
<1>1. /\ profile[t] \in Profiles /\ task[t] \in Tasks /\ rail[t] \in Rails
      /\ Agrees(profile[t], task[t], rail[t])
      /\ profile = [profile EXCEPT ![t] = profile[t]]
      /\ rail = [rail EXCEPT ![t] = rail[t]]
  BY TrainOf
<1>2. UNCHANGED <<profile, work, request>>
  BY DEF RunTask, CommandSpeed, CommandReverse, RestoreSpeed
<1>3. WorkOK'
  BY <1>2 DEF IInv, WorkOK
<1>4. CASE CommandSpeed(t)
  <2> DEFINE r == IF task[t].data \in Speeds THEN [rail[t] EXCEPT !.speed = task[t].data]
                                             ELSE rail[t]
  <2>1. task[t].at = "speed" /\ task' = [task EXCEPT ![t] = Receiving]
    BY <1>4 DEF CommandSpeed
  <2>2. rail' = [rail EXCEPT ![t] = r]
    BY <1>1, <1>4 DEF CommandSpeed
  <2>3. /\ r \in Rails /\ r.facing = rail[t].facing
        /\ task[t].data \in Speeds => r.speed = task[t].data
    BY <1>1 DEF Rails
  <2>4. Receiving \in Tasks /\ Receiving.at = "receive"
    BY DEF Tasks, Receiving
  <2>5. Agrees(profile[t], Receiving, r)
    BY <1>1, <2>1, <2>3, <2>4 DEF Agrees
  <2> QED
    BY <1>1, <1>2, <1>3, <2>1, <2>2, <2>3, <2>4, <2>5, OneTrain
<1>5. CASE CommandReverse(t)
  <2> DEFINE r == [rail[t] EXCEPT !.facing = Turned(@)]
             k == [task[t] EXCEPT !.at = "resetting"]
  <2>1. /\ task[t].at = "reversing" /\ task' = [task EXCEPT ![t] = k]
        /\ rail' = [rail EXCEPT ![t] = r]
    BY <1>5 DEF CommandReverse
  <2>2. /\ r \in Rails /\ r.facing = Turned(rail[t].facing) /\ r.speed = rail[t].speed
        /\ k \in Tasks /\ k.at = "resetting"
    BY <1>1 DEF Rails, Tasks, Turned
  <2>3. Agrees(profile[t], k, r)
    BY <1>1, <2>1, <2>2 DEF Agrees
  <2> QED
    BY <1>1, <1>2, <1>3, <2>1, <2>2, <2>3, OneTrain
<1>6. CASE RestoreSpeed(t)
  <2> DEFINE k == [task[t] EXCEPT !.at = "restoring"]
  <2>1. /\ task[t].at = "reset" /\ task' = [task EXCEPT ![t] = k]
        /\ rail' = [rail EXCEPT ![t] = rail[t]]
    BY <1>1, <1>6 DEF RestoreSpeed
  <2>2. k \in Tasks /\ k.at = "restoring"
    BY <1>1 DEF Tasks
  <2>3. Agrees(profile[t], k, rail[t])
    BY <1>1, <2>1, <2>2 DEF Agrees
  <2> QED
    BY <1>1, <1>2, <1>3, <2>1, <2>2, <2>3, OneTrain
<1> QED
  BY <1>4, <1>5, <1>6 DEF RunTask

-----------------------------------------------------------------------------
(* The specification.                                                      *)

LEMMA InitOK == Init => IInv
<1> SUFFICES ASSUME Init PROVE IInv
  OBVIOUS
<1>1. 0 \in Speeds
  BY SpeedAssumption DEF Speeds
<1>2. PICK given \in SUBSET Trains :
        profile = [t \in Trains |->
          [current_speed |-> 0, speed_index |-> 0, previous_speed_index |-> 0,
           direction |-> "straight", paused |-> FALSE, located |-> t \in given]]
  BY DEF Init
<1>3. Types
  <2>1. profile \in [Trains -> Profiles]
    BY <1>1, <1>2 DEF Profiles
  <2>2. QED
    BY <1>1, <2>1 DEF Init, Types, Tasks, Rails, Receiving
<1>4. WorkOK
  BY OrderlyNone DEF Init, Orderly, WorkOK
<1>5. \A t \in Trains : Agrees(profile[t], task[t], rail[t])
  BY <1>2 DEF Init, Agrees, Receiving
<1> QED
  BY <1>3, <1>4, <1>5 DEF IInv

LEMMA StepOK == IInv /\ [Next]_vars => IInv'
<1> SUFFICES ASSUME IInv, [Next]_vars PROVE IInv'
  OBVIOUS
<1>1. CASE UNCHANGED vars
  BY <1>1 DEF vars, IInv, Types, WorkOK
<1>2. ASSUME NEW c \in Callers, MakeCall(c) PROVE IInv'
  BY <1>2, MakeCallOK
<1>3. CASE Serve
  <2>1. ASSUME NEW c \in Callers,
               \/ SpeedMessage(c) \/ ReverseMessage(c)
               \/ RouteRefused(c) \/ RouteMessage(c) \/ RouteFails(c)
               \/ RouteStopRefused(c) \/ RouteStopMessage(c)
        PROVE  IInv'
    BY <2>1, SpeedMessageOK, ReverseMessageOK, RefusedOK, RouteOK, RouteStopMessageOK
  <2>2. ASSUME NEW t \in Trains, RestoreMessage(t) \/ ReverseResetMessage(t) PROVE IInv'
    BY <2>2, RestoreMessageOK, ReverseResetMessageOK
  <2> QED
    BY <1>3, <2>1, <2>2 DEF Serve
<1>4. CASE Work
  <2>1. CASE \/ TrainSetSpeed \/ SendReverse \/ SendAnswer \/ HoldAnswer \/ FinishRoute
             \/ SensorUpdate \/ ReserveTrack \/ PauseTrain
    BY <2>1, TrainSetSpeedOK, SendReverseOK, PopOK, SensorUpdateOK, ReserveTrackOK,
       PauseTrainOK
  <2>2. ASSUME NEW t \in Trains,
               Arrive(t) \/ TurnBack(t) \/ Halt(t) \/ Reroute(t) \/ RollOn(t)
        PROVE  IInv'
    BY <2>2, DriveOK
  <2> QED
    BY <1>4, <2>1, <2>2 DEF Work
<1>5. ASSUME NEW t \in Trains, RunTask(t) PROVE IInv'
  BY <1>5, RunTaskOK
<1> QED
  BY <1>1, <1>2, <1>3, <1>4, <1>5, SensorOK DEF Next

\* A handler's list and the trains' three records keep each other in order.
THEOREM Inductive == Spec => []IInv
BY InitOK, StepOK, PTL DEF Spec

\* A train moves at the speed, and faces the way, the controller believes it
\* does, but for what its task has still to send or to report.
THEOREM AgreeWithRails == Spec => []RailsAgree
<1>1. IInv => RailsAgree
  BY DEF IInv, Agrees, RailsAgree
<1> QED
  BY <1>1, Inductive, PTL

\* No train is reversed at speed, and none gets a speed before its task has
\* reported the reversal.
THEOREM ReversedStanding == Spec => []ReversesStanding
<1>1. IInv => ReversesStanding
  BY DEF IInv, Agrees, ReversesStanding
<1> QED
  BY <1>1, Inductive, PTL

\* A paused train stands.
THEOREM PausedStanding == Spec => []PausedTrainsStand
<1>1. IInv => PausedTrainsStand
  BY DEF IInv, Agrees, PausedTrainsStand
<1> QED
  BY <1>1, Inductive, PTL

-----------------------------------------------------------------------------
(* Whom the controller answers: what is owed, and to whom.                 *)

\* Routes, and who sends to the controller.
RouteRecords == [on : BOOLEAN, started : BOOLEAN, reversals : 0 .. MaxReversals,
                 errors : 0 .. MaxErrors - 1, reply_tid : Callers \cup {NoTask}]
Senders      == Callers \cup {Task(t) : t \in Trains}

\* A speed that is none: an index given back as a speed.
Fast(step) == step.op = "speed" /\ step.speed > MaxSpeed

\* A step that answers caller c, or leaves the answer to the end of its route.
Owing(step, c) == step.op \in {"answer", "hold"} /\ step.to = c

\* Lists of steps: without such a speed, that owe nobody, neither; and what a list
\* owes caller c.
Slow(w)    == w \in Seq(Steps) /\ \A i \in DOMAIN w : ~Fast(w[i])
Silent(w)  == w \in Seq(Steps) /\ \A c \in Callers : \A i \in DOMAIN w : ~Owing(w[i], c)
Quiet(w)   == Slow(w) /\ Silent(w)
Owes(w, c) == \E i \in DOMAIN w : Owing(w[i], c)
Once(w, c) == \A i, j \in DOMAIN w : Owing(w[i], c) /\ Owing(w[j], c) => i = j

\* Only a courier's answer is left to the end of a route, the route it asked for.
HoldsOK(w, c, t) ==
  \A i \in DOMAIN w : w[i].op = "hold" /\ w[i].to = c
                        => c \notin {Cli, CabService} /\ w[i].train = t

\* v owes what w does.
Like(v, w) ==
  \A c \in Callers : /\ Owes(v, c) <=> Owes(w, c)
                     /\ Once(w, c) => Once(v, c)
                     /\ \A t : HoldsOK(w, c, t) => HoldsOK(v, c, t)

\* A caller in the queue.
QueuedIn(q, c)  == \E i \in DOMAIN q : q[i] = c
QueuedOnce(q, c) == \A i, j \in DOMAIN q : q[i] = c /\ q[j] = c => i = j

\* What is so of caller c, whose call is `call' and who waits for the end of the
\* routes of `trains'.
CallIs(c, q, w, call, trains) ==
  /\ call = NoCall => ~QueuedIn(q, c) /\ ~Owes(w, c) /\ trains = {}
  /\ QueuedOnce(q, c)
  /\ Once(w, c)
  /\ QueuedIn(q, c) => ~Owes(w, c) /\ trains = {}
  /\ Owes(w, c) => trains = {}
  /\ trains \subseteq {call.train}
  /\ c \in {Cli, CabService} /\ call # NoCall => QueuedIn(q, c) \/ Owes(w, c)
  /\ HoldsOK(w, c, call.train)

\* ... for every caller.
CallsOK == \A c \in Callers : CallIs(c, inbox, work, request[c], Routes(c))

\* A speed that is none is given to a train that stands, at once.
FastOK ==
  \A i \in DOMAIN work :
    Fast(work[i]) => i = 1 /\ profile[work[i].train].current_speed = 0

\* ... and so is the speed a train has again after its reversal.
StandsOK ==
  \A t \in Trains :
    task[t].at \in {"reversing", "resetting", "reset", "restoring"}
      => profile[t].current_speed = 0

\* A message is appended to the queue.
LEMMA AppendQueue ==
  ASSUME NEW S, NEW q \in Seq(S), NEW s \in S, NEW c
  PROVE  /\ QueuedIn(Append(q, s), c) <=> QueuedIn(q, c) \/ s = c
         /\ QueuedOnce(q, c) /\ (s = c => ~QueuedIn(q, c)) => QueuedOnce(Append(q, s), c)
<1>1. /\ Len(q) \in Nat /\ DOMAIN q = 1 .. Len(q)
      /\ DOMAIN Append(q, s) = 1 .. Len(q) + 1
      /\ Append(q, s)[Len(q) + 1] = s
      /\ \A i \in DOMAIN q : Append(q, s)[i] = q[i]
  OBVIOUS
<1>2. /\ \A i \in DOMAIN Append(q, s) : i = Len(q) + 1 \/ i \in DOMAIN q
      /\ DOMAIN q \subseteq DOMAIN Append(q, s)
      /\ Len(q) + 1 \in DOMAIN Append(q, s)
  BY <1>1
<1>3. QED
  BY <1>1, <1>2 DEF QueuedIn, QueuedOnce

\* The first message is taken off the queue.
LEMMA TailQueue ==
  ASSUME NEW S, NEW q \in Seq(S), q # << >>, NEW c
  PROVE  /\ QueuedIn(Tail(q), c) => QueuedIn(q, c)
         /\ QueuedIn(q, c) /\ Head(q) # c => QueuedIn(Tail(q), c)
         /\ QueuedOnce(q, c) => QueuedOnce(Tail(q), c)
         /\ QueuedOnce(q, c) /\ Head(q) = c => ~QueuedIn(Tail(q), c)
         /\ Head(q) = c => QueuedIn(q, c)
<1>1. /\ Len(q) \in Nat \ {0} /\ DOMAIN q = 1 .. Len(q) /\ Head(q) = q[1]
      /\ DOMAIN Tail(q) = 1 .. Len(q) - 1
      /\ \A i \in DOMAIN Tail(q) : Tail(q)[i] = q[i + 1]
  OBVIOUS
<1>2. /\ \A i \in DOMAIN Tail(q) : i + 1 \in DOMAIN q /\ i + 1 # 1
      /\ \A i \in DOMAIN q : i = 1 \/ (i - 1 \in DOMAIN Tail(q) /\ (i - 1) + 1 = i)
      /\ \A i, j \in DOMAIN Tail(q) : i + 1 = j + 1 => i = j
      /\ 1 \in DOMAIN q
  BY <1>1
<1>3. QED
  BY <1>1, <1>2 DEF QueuedIn, QueuedOnce

\* A list like one that is like a third.
LEMMA LikeTrans ==
  ASSUME NEW u, NEW v, NEW w, Like(u, v), Like(v, w)
  PROVE  Like(u, w)
BY DEF Like

\* Steps that owe nobody are put in front of a list.
LEMMA Pushed ==
  ASSUME NEW u, NEW w, Silent(u), Slow(w)
  PROVE  /\ u \o w \in Seq(Steps) /\ Like(u \o w, w)
         /\ Slow(u) => Slow(u \o w)
         /\ \A i \in DOMAIN (u \o w) : Fast((u \o w)[i]) => i \in DOMAIN u /\ (u \o w)[i] = u[i]
<1> DEFINE v == u \o w
           n == Len(u)
<1>1. /\ u \in Seq(Steps) /\ w \in Seq(Steps) /\ v \in Seq(Steps)
      /\ n \in Nat /\ Len(w) \in Nat /\ DOMAIN u = 1 .. n /\ DOMAIN w = 1 .. Len(w)
      /\ DOMAIN v = 1 .. n + Len(w)
      /\ \A i \in 1 .. n : v[i] = u[i]
      /\ \A i \in DOMAIN w : v[n + i] = w[i]
  <2>1. u \in Seq(Steps) /\ w \in Seq(Steps)
    BY DEF Silent, Slow
  <2>2. QED
    BY <2>1
<1> HIDE DEF v
<1>2. \A i \in DOMAIN v : i \in DOMAIN u \/ (i - n \in DOMAIN w /\ n + (i - n) = i)
  BY <1>1
<1>3. /\ \A i \in DOMAIN w : n + i \in DOMAIN v
      /\ \A i, j \in DOMAIN v : i - n = j - n => i = j
  BY <1>1
<1>4. \A i \in DOMAIN v : Fast(v[i]) => i \in DOMAIN u /\ v[i] = u[i]
  BY <1>1, <1>2 DEF Slow
<1>5. ASSUME NEW c \in Callers
      PROVE  \A i \in DOMAIN v : Owing(v[i], c)
               => i - n \in DOMAIN w /\ v[i] = w[i - n]
  BY <1>1, <1>2 DEF Silent
<1>6. ASSUME NEW c \in Callers
      PROVE  /\ Owes(v, c) <=> Owes(w, c)
             /\ Once(w, c) => Once(v, c)
             /\ \A t : HoldsOK(w, c, t) => HoldsOK(v, c, t)
  <2>1. \A i \in DOMAIN v : Owing(v[i], c) => i - n \in DOMAIN w /\ v[i] = w[i - n]
    BY <1>5
  <2>2. Owes(v, c) <=> Owes(w, c)
    BY <1>1, <1>3, <2>1 DEF Owes
  <2>3. Once(w, c) => Once(v, c)
    <3>1. SUFFICES ASSUME Once(w, c), NEW i \in DOMAIN v, NEW j \in DOMAIN v,
                          Owing(v[i], c), Owing(v[j], c)
                   PROVE  i = j
      BY DEF Once
    <3>2. i - n = j - n
      BY <2>1, <3>1 DEF Once
    <3>3. QED
      BY <1>3, <3>2
  <2>4. \A t : HoldsOK(w, c, t) => HoldsOK(v, c, t)
    BY <2>1 DEF HoldsOK, Owing
  <2>5. QED
    BY <2>2, <2>3, <2>4
<1>7. (Slow(u) => Slow(v)) /\ Like(v, w)
  BY <1>1, <1>4, <1>6 DEF Slow, Like
<1>8. QED
  BY <1>1, <1>4, <1>7 DEF v

\* The step at the head was caller c's answer.
LEMMA Answered ==
  ASSUME NEW w \in Seq(Steps), w # << >>
  PROVE  \A c \in Callers :
           /\ Owing(Head(w), c) => Owes(w, c)
           /\ Owing(Head(w), c) /\ Once(w, c) => ~Owes(Tail(w), c)
           /\ Owes(Tail(w), c) => Owes(w, c)
           /\ Owes(w, c) /\ ~Owing(Head(w), c) => Owes(Tail(w), c)
           /\ Once(w, c) => Once(Tail(w), c)
           /\ \A t : HoldsOK(w, c, t) => HoldsOK(Tail(w), c, t)
<1> DEFINE v == Tail(w)
<1>1. /\ Len(w) \in Nat \ {0} /\ DOMAIN w = 1 .. Len(w) /\ Head(w) = w[1]
      /\ DOMAIN v = 1 .. Len(w) - 1
      /\ \A i \in DOMAIN v : v[i] = w[i + 1]
  OBVIOUS
<1> HIDE DEF v
<1>2. /\ \A i \in DOMAIN v : i + 1 \in DOMAIN w /\ i + 1 # 1
      /\ \A i \in DOMAIN w : i = 1 \/ (i - 1 \in DOMAIN v /\ (i - 1) + 1 = i)
      /\ \A i, j \in DOMAIN v : i + 1 = j + 1 => i = j
      /\ 1 \in DOMAIN w
  BY <1>1
<1>3. ASSUME NEW c \in Callers
      PROVE  /\ Owing(Head(w), c) => Owes(w, c)
             /\ Owing(Head(w), c) /\ Once(w, c) => ~Owes(v, c)
             /\ Owes(v, c) => Owes(w, c)
             /\ Owes(w, c) /\ ~Owing(Head(w), c) => Owes(v, c)
             /\ Once(w, c) => Once(v, c)
             /\ \A t : HoldsOK(w, c, t) => HoldsOK(v, c, t)
  <2>1. /\ Owing(Head(w), c) => Owes(w, c)
        /\ Owes(v, c) => Owes(w, c)
        /\ Owes(w, c) /\ ~Owing(Head(w), c) => Owes(v, c)
    BY <1>1, <1>2 DEF Owes
  <2>2. Owing(Head(w), c) /\ Once(w, c) => ~Owes(v, c)
    BY <1>1, <1>2 DEF Owes, Once
  <2>3. Once(w, c) => Once(v, c)
    BY <1>1, <1>2 DEF Once
  <2>4. \A t : HoldsOK(w, c, t) => HoldsOK(v, c, t)
    BY <1>1, <1>2 DEF HoldsOK
  <2>5. QED
    BY <2>1, <2>2, <2>3, <2>4
<1>4. QED
  BY <1>3 DEF v

\* The step at the head owed nobody.
LEMMA Dropped ==
  ASSUME NEW w \in Seq(Steps), w # << >>, \A c \in Callers : ~Owing(Head(w), c)
  PROVE  Like(Tail(w), w)
BY Answered DEF Like

-----------------------------------------------------------------------------
(* A message and its answer.                                               *)

\* The names of the senders.
LEMMA CallerNames ==
  /\ NoTask \notin Callers
  /\ \A t \in Trains : \A c \in Callers : Task(t) # c
  /\ \A t \in Trains : Task(t) \in Senders
  /\ Callers \subseteq Senders
BY DEF NoTask, Callers, Task, Cli, CabService, Courier, Senders

\* What is not so of an empty list.
LEMMA NoneOwed ==
  /\ \A c : ~Owes(<< >>, c)
  /\ Quiet(<< >>) /\ Slow(<< >>) /\ Silent(<< >>)
BY DEF Owes, Quiet, Slow, Silent

\* The inbox and the calls stay, and so does what is owed.
LEMMA SameCalls ==
  ASSUME CallsOK, UNCHANGED <<inbox, request>>, Like(work', work),
         \A t \in Trains : route'[t].reply_tid = route[t].reply_tid
  PROVE  CallsOK'
<1>1. \A c : Routes(c)' = Routes(c)
  BY DEF Routes
<1>2. ASSUME NEW c \in Callers PROVE CallIs(c, inbox', work', request'[c], Routes(c)')
  <2>1. CallIs(c, inbox, work, request[c], Routes(c))
    BY DEF CallsOK
  <2>2. /\ Owes(work', c) <=> Owes(work, c)
        /\ Once(work, c) => Once(work', c)
        /\ \A t : HoldsOK(work, c, t) => HoldsOK(work', c, t)
    BY DEF Like
  <2>3. QED
    BY <1>1, <2>1, <2>2 DEF CallIs
<1>3. QED
  BY <1>2 DEF CallsOK

\* A list that owes nothing holds nothing.
LEMMA SilentOwes ==
  ASSUME NEW w, Silent(w), NEW c \in Callers
  PROVE  ~Owes(w, c) /\ Once(w, c) /\ \A t : HoldsOK(w, c, t)
BY DEF Silent, Owes, Once, HoldsOK, Owing

\* The queue when its first message is taken.
LEMMA QueueReceived ==
  ASSUME TypeOK, NEW sender, Received(sender), NEW c \in Callers
  PROVE  /\ QueuedIn(inbox', c) => QueuedIn(inbox, c)
         /\ QueuedIn(inbox, c) /\ sender # c => QueuedIn(inbox', c)
         /\ QueuedOnce(inbox, c) => QueuedOnce(inbox', c)
         /\ QueuedOnce(inbox, c) /\ sender = c => ~QueuedIn(inbox', c)
         /\ sender = c => QueuedIn(inbox, c)
         /\ inbox' \in Seq(Senders)
<1>1. inbox \in Seq(Senders)
  BY DEF TypeOK, Senders
<1>2. inbox # << >> /\ Head(inbox) = sender /\ inbox' = Tail(inbox)
  BY DEF Received
<1>3. QED
  BY <1>1, <1>2, TailQueue

\* A message is answered at once, or comes from a train's task.
LEMMA ServedAtOnce ==
  ASSUME TypeOK, CallsOK, Types, NEW sender, Received(sender), Silent(work'),
         \/ sender \in Callers /\ request' = Replied(sender)
         \/ sender \notin Callers /\ request' = request,
         \A t \in Trains : route'[t].reply_tid = route[t].reply_tid
  PROVE  CallsOK'
<1>1. \A c : Routes(c)' = Routes(c)
  BY DEF Routes
<1>2. work = << >>
  BY DEF Received
<1>3. ASSUME NEW c \in Callers PROVE CallIs(c, inbox', work', request'[c], Routes(c)')
  <2>1. CallIs(c, inbox, work, request[c], Routes(c)) /\ ~Owes(work, c)
    BY <1>2, NoneOwed DEF CallsOK
  <2>2. ~Owes(work', c) /\ Once(work', c) /\ \A t : HoldsOK(work', c, t)
    BY SilentOwes
  <2>3. CASE c = sender
    <3>1. request' = [request EXCEPT ![c] = NoCall]
      BY <2>3, CallerNames DEF Replied
    <3>2. request'[c] = NoCall
      BY <3>1 DEF Types
    <3>3. ~QueuedIn(inbox', c) /\ QueuedOnce(inbox', c) /\ QueuedIn(inbox, c)
      BY <2>1, <2>3, QueueReceived DEF CallIs
    <3>4. Routes(c) = {}
      BY <2>1, <3>3 DEF CallIs
    <3>5. QED
      BY <1>1, <2>2, <3>2, <3>3, <3>4 DEF CallIs
  <2>4. CASE c # sender
    <3>1. request'[c] = request[c]
      BY <2>4 DEF Types, Replied
    <3>2. QueuedOnce(inbox', c) /\ (QueuedIn(inbox', c) <=> QueuedIn(inbox, c))
      BY <2>1, <2>4, QueueReceived DEF CallIs
    <3>3. QED
      BY <1>1, <2>1, <2>2, <3>1, <3>2 DEF CallIs
  <2>5. QED
    BY <2>3, <2>4
<1>4. QED
  BY <1>3 DEF CallsOK

\* A message is answered by the last step of its handler.
LEMMA ServedLater ==
  ASSUME TypeOK, CallsOK, NEW x \in Callers, Received(x), request' = request,
         request[x] # NoCall,
         Owes(work', x), Once(work', x), HoldsOK(work', x, request[x].train),
         \A c \in Callers : c # x => ~Owes(work', c),
         \A t \in Trains : route'[t].reply_tid = route[t].reply_tid
  PROVE  CallsOK'
<1>1. \A c : Routes(c)' = Routes(c)
  BY DEF Routes
<1>2. work = << >>
  BY DEF Received
<1>3. ASSUME NEW c \in Callers PROVE CallIs(c, inbox', work', request'[c], Routes(c)')
  <2>1. CallIs(c, inbox, work, request[c], Routes(c)) /\ ~Owes(work, c)
    BY <1>2, NoneOwed DEF CallsOK
  <2>2. CASE c = x
    <3>1. ~QueuedIn(inbox', c) /\ QueuedOnce(inbox', c) /\ QueuedIn(inbox, c)
      BY <2>1, <2>2, QueueReceived DEF CallIs
    <3>2. Routes(c) = {}
      BY <2>1, <3>1 DEF CallIs
    <3>3. QED
      BY <1>1, <2>2, <3>1, <3>2 DEF CallIs
  <2>3. CASE c # x
    <3>1. QueuedOnce(inbox', c) /\ (QueuedIn(inbox', c) <=> QueuedIn(inbox, c))
      BY <2>1, <2>3, QueueReceived DEF CallIs
    <3>2. ~Owes(work', c)
      BY <2>3
    <3>3. Once(work', c) /\ HoldsOK(work', c, request[c].train)
      BY <3>2 DEF Owes, Once, HoldsOK, Owing
    <3>4. QED
      BY <1>1, <2>1, <3>1, <3>2, <3>3 DEF CallIs
  <2>4. QED
    BY <2>2, <2>3
<1>4. QED
  BY <1>3 DEF CallsOK

\* A train's task sends to the controller.
LEMMA TaskSends ==
  ASSUME TypeOK, CallsOK, NEW t \in Trains, inbox' = Append(inbox, Task(t)),
         UNCHANGED <<work, request, route>>
  PROVE  CallsOK' /\ inbox' \in Seq(Senders)
<1>1. inbox \in Seq(Senders) /\ Task(t) \in Senders
  BY CallerNames DEF TypeOK, Senders
<1>2. \A c : Routes(c)' = Routes(c)
  BY DEF Routes
<1>3. ASSUME NEW c \in Callers PROVE CallIs(c, inbox', work', request'[c], Routes(c)')
  <2>1. CallIs(c, inbox, work, request[c], Routes(c)) /\ Task(t) # c
    BY CallerNames DEF CallsOK
  <2>2. /\ QueuedIn(inbox', c) <=> QueuedIn(inbox, c)
        /\ QueuedOnce(inbox, c) => QueuedOnce(inbox', c)
    BY <1>1, <2>1, AppendQueue
  <2>3. QED
    BY <1>2, <2>1, <2>2 DEF CallIs
<1>4. QED
  BY <1>1, <1>3 DEF CallsOK

\* A handler's steps: their types, and what the next step needs of them.
LEMMA HandlerTypes ==
  ASSUME TypeOK, StandsOK, Slow(work'), UNCHANGED <<profile, task, rail>>,
         route' \in [Trains -> RouteRecords], inbox' \in Seq(Senders),
         \A c \in Callers : request'[c] = NoCall \/ request'[c] \in Calls(c)
  PROVE  TypeOK' /\ FastOK' /\ StandsOK'
<1>1. FastOK'
  BY DEF Slow, FastOK
<1>2. StandsOK'
  BY DEF StandsOK
<1>3. work' \in Seq(Steps)
  BY DEF Slow
<1>4. TypeOK'
  BY <1>3 DEF TypeOK, RouteRecords, Senders
<1>5. QED
  BY <1>1, <1>2, <1>4

\* The types of the variables, one by one.
LEMMA Typed ==
  ASSUME TypeOK
  PROVE  /\ route \in [Trains -> RouteRecords] /\ inbox \in Seq(Senders) /\ work \in Seq(Steps)
         /\ \A c \in Callers : request[c] = NoCall \/ request[c] \in Calls(c)
BY DEF TypeOK, RouteRecords, Senders

\* A caller that is answered is in no call.
LEMMA RepliedTyped ==
  ASSUME TypeOK, Types, NEW x
  PROVE  \A c \in Callers : Replied(x)[c] = NoCall \/ Replied(x)[c] \in Calls(c)
<1>1. request \in [Callers -> Commands \cup {NoCall}]
  BY DEF Types
<1>2. \A c \in Callers : Replied(x)[c] = NoCall \/ Replied(x)[c] = request[c]
  BY <1>1 DEF Replied
<1>3. QED
  BY <1>2, Typed

\* The rest of a list whose first step is done.
LEMMA SlowRest ==
  ASSUME TypeOK, FastOK, work # << >>
  PROVE  Slow(Tail(work)) /\ Head(work) = work[1] /\ Head(work) \in Steps
<1>1. work \in Seq(Steps)
  BY DEF TypeOK
<1>2. /\ Len(work) \in Nat \ {0} /\ DOMAIN work = 1 .. Len(work) /\ Head(work) = work[1]
      /\ Tail(work) \in Seq(Steps) /\ DOMAIN Tail(work) = 1 .. Len(work) - 1
      /\ \A i \in DOMAIN Tail(work) : Tail(work)[i] = work[i + 1]
      /\ Head(work) \in Steps
  BY <1>1
<1>3. \A i \in DOMAIN Tail(work) : i + 1 \in DOMAIN work /\ i + 1 # 1
  BY <1>2
<1>4. QED
  BY <1>2, <1>3 DEF FastOK, Slow

-----------------------------------------------------------------------------
(* The steps of a handler, and lists of them, that owe nothing or something.*)

\* The speeds and the indices.
LEMMA SpeedSets ==
  /\ 0 \in Speeds /\ DefaultSpeed \in Speeds /\ Speeds \subseteq Indices
  /\ \A s \in Speeds : s \in Nat /\ ~(s > MaxSpeed) /\ MaxSpeed + s \in Indices
  /\ MaxSpeed \in Nat
BY SpeedAssumption DEF Speeds, Indices

\* Lists that owe nobody and hold no speed that is none: of one step,
LEMMA QuietOne ==
  ASSUME NEW step \in Steps, ~Fast(step), \A c \in Callers : ~Owing(step, c)
  PROVE  Quiet(<<step>>)
<1> DEFINE w == <<step>>
<1>1. w \in Seq(Steps) /\ DOMAIN w = {1} /\ w[1] = step
  OBVIOUS
<1> HIDE DEF w
<1>2. Quiet(w)
  BY <1>1 DEF Quiet, Slow, Silent
<1>3. QED
  BY <1>2 DEF w

\* ... one behind another,
LEMMA QuietConcat ==
  ASSUME NEW u, NEW v, Quiet(u), Quiet(v)
  PROVE  Quiet(u \o v)
<1>1. Slow(v) /\ Silent(v) /\ Slow(u) /\ Silent(u)
  BY DEF Quiet
<1>2. Slow(u \o v) /\ Like(u \o v, v)
  BY <1>1, Pushed
<1>3. \A c \in Callers : ~Owes(u \o v, c)
  BY <1>1, <1>2, SilentOwes DEF Like
<1>4. QED
  BY <1>2, <1>3 DEF Quiet, Owes, Slow, Silent

\* ... of two steps.
LEMMA QuietTwo ==
  ASSUME NEW one, NEW two, Quiet(<<one>>), Quiet(<<two>>)
  PROVE  Quiet(<<one, two>>)
<1> DEFINE w == <<one, two>>
<1>1. \A step : Quiet(<<step>>) => /\ step \in Steps /\ ~Fast(step)
                                  /\ \A c \in Callers : ~Owing(step, c)
  <2>1. ASSUME NEW step, Quiet(<<step>>)
        PROVE  step \in Steps /\ ~Fast(step) /\ \A c \in Callers : ~Owing(step, c)
    <3>1. /\ <<step>> \in Seq(Steps) /\ \A i \in DOMAIN <<step>> : ~Fast(<<step>>[i])
          /\ \A c \in Callers : \A i \in DOMAIN <<step>> : ~Owing(<<step>>[i], c)
      BY <2>1 DEF Quiet, Slow, Silent
    <3>2. 1 \in DOMAIN <<step>> /\ <<step>>[1] = step
      OBVIOUS
    <3>3. QED
      BY <3>1, <3>2
  <2>2. QED
    BY <2>1
<1>2. w \in Seq(Steps) /\ DOMAIN w = {1, 2} /\ w[1] = one /\ w[2] = two
  BY <1>1
<1> HIDE DEF w
<1>3. Quiet(w)
  BY <1>1, <1>2 DEF Quiet, Slow, Silent
<1>4. QED
  BY <1>3 DEF w

\* The steps that owe nobody anything.
LEMMA QuietSteps ==
  ASSUME NEW t \in Trains
  PROVE  /\ \A s \in Speeds : Quiet(<<SetSpeed(t, s)>>)
         /\ \A s \in Indices : Quiet(<<Reverse(t, s)>>) /\ SetSpeed(t, s) \in Steps
         /\ Quiet(<<Hit(t)>>) /\ Quiet(<<Pause(t)>>) /\ Quiet(<<Finish(t)>>)
         /\ Quiet(<<Reserve(t)>>)
         /\ \A st \in {"ok", "refused", "too big"}, el \in BOOLEAN : Quiet(<<Drive(t, st, el)>>)
         /\ Quiet(<<Hold(t, NoTask)>>)
<1>1. ASSUME NEW s \in Speeds PROVE Quiet(<<SetSpeed(t, s)>>)
  <2>1. SetSpeed(t, s) \in Steps /\ ~Fast(SetSpeed(t, s))
    BY SpeedSets DEF Steps, SetSpeed, Fast
  <2>2. \A c \in Callers : ~Owing(SetSpeed(t, s), c)
    BY DEF SetSpeed, Owing
  <2>3. QED
    BY <2>1, <2>2, QuietOne
<1>2. ASSUME NEW s \in Indices PROVE Quiet(<<Reverse(t, s)>>) /\ SetSpeed(t, s) \in Steps
  <2>1. Reverse(t, s) \in Steps /\ ~Fast(Reverse(t, s)) /\ SetSpeed(t, s) \in Steps
    BY DEF Steps, Reverse, Fast, SetSpeed
  <2>2. \A c \in Callers : ~Owing(Reverse(t, s), c)
    BY DEF Reverse, Owing
  <2>3. QED
    BY <2>1, <2>2, QuietOne
<1>3. Quiet(<<Hit(t)>>)
  <2>1. Hit(t) \in Steps /\ ~Fast(Hit(t)) /\ \A c \in Callers : ~Owing(Hit(t), c)
    BY DEF Steps, Hit, Fast, Owing
  <2>2. QED
    BY <2>1, QuietOne
<1>4. Quiet(<<Pause(t)>>)
  <2>1. Pause(t) \in Steps /\ ~Fast(Pause(t)) /\ \A c \in Callers : ~Owing(Pause(t), c)
    BY DEF Steps, Pause, Fast, Owing
  <2>2. QED
    BY <2>1, QuietOne
<1>5. Quiet(<<Finish(t)>>)
  <2>1. Finish(t) \in Steps /\ ~Fast(Finish(t)) /\ \A c \in Callers : ~Owing(Finish(t), c)
    BY DEF Steps, Finish, Fast, Owing
  <2>2. QED
    BY <2>1, QuietOne
<1>6. Quiet(<<Reserve(t)>>)
  <2>1. Reserve(t) \in Steps /\ ~Fast(Reserve(t)) /\ \A c \in Callers : ~Owing(Reserve(t), c)
    BY DEF Steps, Reserve, Fast, Owing
  <2>2. QED
    BY <2>1, QuietOne
<1>7. ASSUME NEW st \in {"ok", "refused", "too big"}, NEW el \in BOOLEAN
      PROVE  Quiet(<<Drive(t, st, el)>>)
  <2>1. Drive(t, st, el) \in Steps
    BY DEF Steps, Drive
  <2>2. ~Fast(Drive(t, st, el)) /\ \A c \in Callers : ~Owing(Drive(t, st, el), c)
    BY DEF Drive, Fast, Owing
  <2>3. QED
    BY <2>1, <2>2, QuietOne
<1>8. Quiet(<<Hold(t, NoTask)>>)
  <2>1. Hold(t, NoTask) \in Steps /\ ~Fast(Hold(t, NoTask))
    BY DEF Steps, Hold, Fast
  <2>2. \A c \in Callers : ~Owing(Hold(t, NoTask), c)
    BY CallerNames DEF Hold, Owing
  <2>3. QED
    BY <2>1, <2>2, QuietOne
<1>9. QED
  BY <1>1, <1>2, <1>3, <1>4, <1>5, <1>6, <1>7, <1>8

\* A reversal owes nobody.
LEMMA QuietReverse ==
  ASSUME NEW t \in Trains, NEW s \in Indices
  PROVE  Quiet(TrainReverse(t, s))
BY QuietSteps, QuietTwo, SpeedSets DEF TrainReverse

\* One step that answers caller c, or holds its answer.
LEMMA OwingOne ==
  ASSUME NEW step \in Steps, NEW x \in Callers, ~Fast(step), Owing(step, x)
  PROVE  /\ Slow(<<step>>) /\ Owes(<<step>>, x) /\ Once(<<step>>, x)
         /\ \A c \in Callers : c # x => ~Owes(<<step>>, c)
         /\ \A t : (step.op = "hold" => x \notin {Cli, CabService} /\ step.train = t)
                     => HoldsOK(<<step>>, x, t)
<1> DEFINE w == <<step>>
<1>1. w \in Seq(Steps) /\ DOMAIN w = {1} /\ w[1] = step
  OBVIOUS
<1> HIDE DEF w
<1>2. /\ Slow(w) /\ Owes(w, x) /\ Once(w, x) /\ \A c \in Callers : c # x => ~Owes(w, c)
      /\ \A t : (step.op = "hold" => x \notin {Cli, CabService} /\ step.train = t)
                     => HoldsOK(w, x, t)
  BY <1>1 DEF Slow, Owes, Once, Owing, HoldsOK
<1>3. QED
  BY <1>2 DEF w

\* Such a list behind steps that owe nothing.
LEMMA OwingLast ==
  ASSUME NEW u, NEW w, Quiet(u), Slow(w), NEW x \in Callers, NEW t,
         Owes(w, x), Once(w, x), HoldsOK(w, x, t),
         \A c \in Callers : c # x => ~Owes(w, c)
  PROVE  /\ Slow(u \o w) /\ Owes(u \o w, x) /\ Once(u \o w, x) /\ HoldsOK(u \o w, x, t)
         /\ \A c \in Callers : c # x => ~Owes(u \o w, c)
BY Pushed DEF Like, Quiet

\* A step that answers,
LEMMA AnswerOwing ==
  ASSUME NEW x \in Callers
  PROVE  /\ Answer(x) \in Steps /\ ~Fast(Answer(x)) /\ Owing(Answer(x), x)
         /\ Answer(x).op # "hold"
BY DEF Answer, Steps, Fast, Owing

\* ... and one that holds the answer.
LEMMA HoldOwing ==
  ASSUME NEW x \in Callers, NEW t \in Trains
  PROVE  Hold(t, x) \in Steps /\ ~Fast(Hold(t, x)) /\ Owing(Hold(t, x), x) /\ Hold(t, x).train = t
BY DEF Hold, Steps, Fast, Owing

\* A step for every train.
LEMMA QuietEach ==
  ASSUME NEW w \in [DOMAIN TrainMap -> Steps],
         \A i \in DOMAIN TrainMap : ~Fast(w[i]) /\ \A c \in Callers : ~Owing(w[i], c)
  PROVE  Quiet(w)
<1>1. DOMAIN TrainMap = 1 .. Len(TrainMap) /\ Len(TrainMap) \in Nat
  BY TrainMapAssumption
<1>2. w \in Seq(Steps) /\ DOMAIN w = DOMAIN TrainMap
  BY <1>1
<1>3. QED
  BY <1>2 DEF Quiet, Slow, Silent

\* A call by its command.
LEMMA CallKinds ==
  ASSUME TypeOK, NEW c \in Callers, request[c].command # "none"
  PROVE  /\ request[c] \in Calls(c) /\ request[c] # NoCall
         /\ request[c].train \in Trains
         /\ request[c].command = "SPEED" => request[c].speed \in Speeds
         /\ request[c].command = "ROUTE" => c # CabService
<1>1. request[c] \in Calls(c) /\ request[c] # NoCall
  <2>1. NoCall.command = "none"
    BY DEF NoCall
  <2>2. QED
    BY <2>1, Typed
<1>2. CASE c = Cli
  <2>1. /\ Calls(c) = {Call("SPEED", t, s) : t \in Trains, s \in Speeds}
                       \cup {Call("REVERSE", t, 0) : t \in Trains}
                       \cup {Call("ROUTE", t, 0) : t \in Trains}
        /\ c # CabService
    BY <1>2 DEF Calls, Cli, CabService
  <2>2. \/ \E t \in Trains, s \in Speeds : request[c] = Call("SPEED", t, s)
        \/ \E t \in Trains : request[c] = Call("REVERSE", t, 0)
        \/ \E t \in Trains : request[c] = Call("ROUTE", t, 0)
    BY <1>1, <2>1
  <2>3. QED
    BY <1>1, <2>1, <2>2 DEF Call
<1>3. CASE c = CabService
  <2>1. Calls(c) = {Call("ROUTE_STOP", t, 0) : t \in Trains}
    BY <1>3 DEF Calls, Cli, CabService
  <2>2. \E t \in Trains : request[c] = Call("ROUTE_STOP", t, 0)
    BY <1>1, <2>1
  <2>3. QED
    BY <1>1, <2>2 DEF Call
<1>4. CASE c # Cli /\ c # CabService
  <2>1. Calls(c) = {Call("ROUTE", t, 0) : t \in {u \in Trains : c = Courier(u)}}
    BY <1>4 DEF Calls
  <2>2. \E t \in Trains : request[c] = Call("ROUTE", t, 0)
    BY <1>1, <2>1
  <2>3. QED
    BY <1>1, <1>4, <2>2 DEF Call
<1>5. QED
  BY <1>2, <1>3, <1>4

\* The indices of a train.
LEMMA IndicesOf ==
  ASSUME TypeOK, NEW t \in Trains
  PROVE  /\ profile[t].current_speed \in Indices /\ profile[t].speed_index \in Indices
         /\ profile[t].previous_speed_index \in Indices
         /\ task[t].data \in Indices
BY DEF TypeOK

-----------------------------------------------------------------------------
(* The messages.                                                           *)

\* What every step keeps, with what is so of the trains.
Kept == TypeOK /\ FastOK /\ StandsOK /\ CallsOK

\* A call: whoever calls is owed nothing before.
LEMMA MakeCallKept ==
  ASSUME IInv, Kept, NEW x \in Callers, MakeCall(x)
  PROVE  Kept'
<1>1. /\ request[x] = NoCall /\ inbox' = Append(inbox, x)
      /\ UNCHANGED <<profile, route, work, task, rail>>
      /\ TypeOK /\ FastOK /\ StandsOK /\ CallsOK /\ Types
  BY DEF MakeCall, Kept, IInv
<1>2. PICK call \in Calls(x) : request' = [request EXCEPT ![x] = call]
  BY DEF MakeCall
<1>3. call # NoCall
  <2>1. call.command # "none"
    <3>1. CASE x = Cli
      <4>1. Calls(x) = {Call("SPEED", t, s) : t \in Trains, s \in Speeds}
                         \cup {Call("REVERSE", t, 0) : t \in Trains}
                         \cup {Call("ROUTE", t, 0) : t \in Trains}
        BY <3>1 DEF Calls, Cli, CabService
      <4>2. QED
        BY <1>2, <4>1 DEF Call
    <3>2. CASE x = CabService
      <4>1. Calls(x) = {Call("ROUTE_STOP", t, 0) : t \in Trains}
        BY <3>2 DEF Calls, Cli, CabService
      <4>2. QED
        BY <1>2, <4>1 DEF Call
    <3>3. CASE x # Cli /\ x # CabService
      <4>1. Calls(x) = {Call("ROUTE", t, 0) : t \in {u \in Trains : x = Courier(u)}}
        BY <3>3 DEF Calls
      <4>2. QED
        BY <1>2, <4>1 DEF Call
    <3>4. QED
      BY <3>1, <3>2, <3>3
  <2>2. QED
    BY <2>1 DEF NoCall
<1>4. \A c \in Callers : request'[c] = IF c = x THEN call ELSE request[c]
  BY <1>1, <1>2 DEF Types
<1>5. inbox \in Seq(Senders) /\ x \in Senders /\ inbox' \in Seq(Senders)
  BY <1>1, Typed, CallerNames
<1>6. \A c : Routes(c)' = Routes(c)
  BY <1>1 DEF Routes
<1>7. ASSUME NEW c \in Callers PROVE CallIs(c, inbox', work', request'[c], Routes(c)')
  <2>1. CallIs(c, inbox, work, request[c], Routes(c)) /\ CallIs(x, inbox, work, NoCall, Routes(x))
    BY <1>1 DEF CallsOK
  <2>2. /\ QueuedIn(inbox', c) <=> QueuedIn(inbox, c) \/ x = c
        /\ QueuedOnce(inbox, c) /\ (x = c => ~QueuedIn(inbox, c)) => QueuedOnce(inbox', c)
    BY <1>1, <1>5, AppendQueue
  <2>3. CASE c = x
    <3>1. ~QueuedIn(inbox, c) /\ ~Owes(work, c) /\ Routes(c) = {} /\ QueuedOnce(inbox, c)
      BY <2>1, <2>3 DEF CallIs
    <3>2. Once(work, c) /\ HoldsOK(work, c, call.train)
      BY <3>1 DEF Owes, Once, HoldsOK, Owing
    <3>3. QED
      BY <1>1, <1>3, <1>4, <1>6, <2>2, <2>3, <3>1, <3>2 DEF CallIs
  <2>4. CASE c # x
    BY <1>1, <1>4, <1>6, <2>1, <2>2, <2>4 DEF CallIs
  <2>5. QED
    BY <2>3, <2>4
<1>8. CallsOK'
  BY <1>7 DEF CallsOK
<1>9. TypeOK'
  BY <1>1, <1>2, <1>4, <1>5 DEF TypeOK, Senders
<1>10. FastOK' /\ StandsOK'
  BY <1>1 DEF FastOK, StandsOK
<1>11. QED
  BY <1>8, <1>9, <1>10 DEF Kept

\* What a handler's first step can leave to do, and to whom it can answer.
LEMMA AtOnceKept ==
  ASSUME IInv, Kept, NEW c \in Callers, Received(c), request' = Replied(c), Quiet(work'),
         UNCHANGED <<profile, route, task, rail>>
  PROVE  Kept'
<1>1. TypeOK /\ FastOK /\ StandsOK /\ CallsOK /\ Types
  BY DEF Kept, IInv
<1>2. Slow(work') /\ Silent(work')
  BY DEF Quiet
<1>3. CallsOK'
  BY <1>1, <1>2, ServedAtOnce
<1>4. /\ route' \in [Trains -> RouteRecords] /\ inbox' \in Seq(Senders)
      /\ \A d \in Callers : request'[d] = NoCall \/ request'[d] \in Calls(d)
  BY <1>1, Typed, RepliedTyped, QueueReceived
<1>5. TypeOK' /\ FastOK' /\ StandsOK'
  BY <1>1, <1>2, <1>4, HandlerTypes
<1>6. QED
  BY <1>3, <1>5 DEF Kept

\* SPEED.
LEMMA SpeedKept ==
  ASSUME IInv, Kept, NEW c \in Callers, SpeedMessage(c)
  PROVE  Kept'
<1>1. request[c].train \in Trains /\ request[c].speed \in Speeds
  BY CallKinds DEF SpeedMessage, ReceivedCall, Kept
<1>2. Quiet(work')
  BY <1>1, QuietSteps DEF SpeedMessage
<1>3. QED
  BY <1>2, AtOnceKept DEF SpeedMessage, ReceivedCall

\* A train that is not routed, or not stopped.
LEMMA RefusedKept ==
  ASSUME IInv, Kept, NEW c \in Callers, RouteRefused(c) \/ RouteStopRefused(c)
  PROVE  Kept'
<1>1. Quiet(work')
  BY NoneOwed DEF RouteRefused, RouteStopRefused, ReceivedCall, Received
<1>2. QED
  BY <1>1, AtOnceKept DEF RouteRefused, RouteStopRefused, ReceivedCall

\* A message that is answered by the last step of its handler.
LEMMA LaterKept ==
  ASSUME IInv, Kept, NEW c \in Callers, Received(c), request[c].command # "none",
         NEW u, NEW w, Quiet(u), Slow(w), work' = u \o w,
         Owes(w, c), Once(w, c), HoldsOK(w, c, request[c].train),
         \A d \in Callers : d # c => ~Owes(w, d),
         UNCHANGED <<profile, request, task, rail>>,
         route' \in [Trains -> RouteRecords],
         \A t \in Trains : route'[t].reply_tid = route[t].reply_tid
  PROVE  Kept'
<1>1. TypeOK /\ FastOK /\ StandsOK /\ CallsOK /\ Types
  BY DEF Kept, IInv
<1>2. /\ Slow(work') /\ Owes(work', c) /\ Once(work', c)
      /\ HoldsOK(work', c, request[c].train)
      /\ \A d \in Callers : d # c => ~Owes(work', d)
  BY OwingLast
<1>3. request[c] # NoCall
  BY <1>1, CallKinds
<1>4. CallsOK'
  BY <1>1, <1>2, <1>3, ServedLater
<1>5. /\ inbox' \in Seq(Senders)
      /\ \A d \in Callers : request'[d] = NoCall \/ request'[d] \in Calls(d)
  BY <1>1, Typed, QueueReceived
<1>6. TypeOK' /\ FastOK' /\ StandsOK'
  BY <1>1, <1>2, <1>5, HandlerTypes
<1>7. QED
  BY <1>4, <1>6 DEF Kept

\* The end of a handler that answers c.
LEMMA AnswerLast ==
  ASSUME NEW c \in Callers, NEW t
  PROVE  /\ Slow(<<Answer(c)>>) /\ Owes(<<Answer(c)>>, c) /\ Once(<<Answer(c)>>, c)
         /\ HoldsOK(<<Answer(c)>>, c, t)
         /\ \A d \in Callers : d # c => ~Owes(<<Answer(c)>>, d)
BY AnswerOwing, OwingOne

\* REVERSE.
LEMMA ReverseKept ==
  ASSUME IInv, Kept, NEW c \in Callers, ReverseMessage(c)
  PROVE  Kept'
<1> DEFINE t == request[c].train
           u == TrainReverse(t, profile[t].current_speed)
<1>1. /\ TypeOK /\ Received(c) /\ request[c].command = "REVERSE"
      /\ work' = Append(u, Answer(c))
      /\ UNCHANGED <<profile, route, request, task, rail>>
  BY DEF ReverseMessage, ReceivedCall, Kept
<1>2. t \in Trains /\ profile[t].current_speed \in Indices
  BY <1>1, CallKinds, IndicesOf
<1>3. Quiet(u)
  BY <1>2, QuietReverse
<1>4. u \in Seq(Steps) /\ Answer(c) \in Steps
  BY <1>3, AnswerOwing DEF Quiet, Slow
<1>5. work' = u \o <<Answer(c)>>
  BY <1>1, <1>4
<1>6. route' \in [Trains -> RouteRecords] /\ request[c].command # "none"
  BY <1>1, Typed
<1> HIDE DEF t, u
<1>7. QED
  BY <1>1, <1>3, <1>5, <1>6, AnswerLast, LaterKept

\* The record of a route that begins or ends.
LEMMA RouteUpdated ==
  ASSUME TypeOK, NEW t \in Trains, NEW started \in BOOLEAN, NEW on \in BOOLEAN,
         NEW reversals \in 0 .. MaxReversals, NEW errors \in 0 .. MaxErrors - 1,
         route' = [route EXCEPT ![t].on = on, ![t].started = started,
                                ![t].reversals = reversals, ![t].errors = errors]
  PROVE  /\ route' \in [Trains -> RouteRecords]
         /\ \A x \in Trains : route'[x].reply_tid = route[x].reply_tid
<1> DEFINE r == [route[t] EXCEPT !.on = on, !.started = started,
                                 !.reversals = reversals, !.errors = errors]
<1>1. route \in [Trains -> RouteRecords] /\ route[t] \in RouteRecords
  BY Typed
<1>2. route' = [route EXCEPT ![t] = r]
  BY <1>1
<1>3. r \in RouteRecords /\ r.reply_tid = route[t].reply_tid
  BY <1>1 DEF RouteRecords
<1> HIDE DEF r
<1>4. QED
  <2>1. route' \in [Trains -> RouteRecords]
    BY ONLY <1>1, <1>2, <1>3, t \in Trains
  <2>2. \A x \in Trains : route'[x] = IF x = t THEN r ELSE route[x]
    BY ONLY <1>1, <1>2, t \in Trains
  <2>3. QED
    BY <1>3, <2>1, <2>2

\* A route is planned or not found: its record, and what is put before the rest.
LEMMA RoutePlannedTyped ==
  ASSUME TypeOK, NEW t \in Trains, NEW rest, RoutePlanned(t, rest)
  PROVE  /\ route' \in [Trains -> RouteRecords]
         /\ \A x \in Trains : route'[x].reply_tid = route[x].reply_tid
         /\ \E u : Quiet(u) /\ work' = u \o rest
<1>1. PICK reversals \in 0 .. MaxReversals, first \in BOOLEAN :
        /\ route' = [route EXCEPT ![t].on = TRUE, ![t].started = FALSE,
                                  ![t].reversals = reversals, ![t].errors = 0]
        /\ work' = <<SetSpeed(t, DefaultSpeed)>>
                   \o (IF first THEN TrainReverse(t, DefaultSpeed) ELSE << >>) \o rest
  BY DEF RoutePlanned
<1>2. route \in [Trains -> RouteRecords]
  BY Typed
<1>3. 0 \in 0 .. MaxErrors - 1
  BY SpeedAssumption
<1>4. /\ route' \in [Trains -> RouteRecords]
      /\ \A x \in Trains : route'[x].reply_tid = route[x].reply_tid
  BY <1>1, <1>3, RouteUpdated
<1>5. DefaultSpeed \in Indices /\ Quiet(<<SetSpeed(t, DefaultSpeed)>>)
  BY SpeedSets, QuietSteps
<1>6. Quiet(IF first THEN TrainReverse(t, DefaultSpeed) ELSE << >>)
  BY <1>5, QuietReverse, NoneOwed
<1>7. Quiet(<<SetSpeed(t, DefaultSpeed)>>
              \o (IF first THEN TrainReverse(t, DefaultSpeed) ELSE << >>))
  BY <1>5, <1>6, QuietConcat
<1>8. \E u : Quiet(u) /\ work' = u \o rest
  BY <1>1, <1>7, Zenon
<1>9. QED
  BY <1>4, <1>8

\* ... there is no path,
LEMMA RouteNotFoundTyped ==
  ASSUME TypeOK, NEW t \in Trains, NEW rest, RouteNotFound(t, rest)
  PROVE  /\ route' \in [Trains -> RouteRecords]
         /\ \A x \in Trains : route'[x].reply_tid = route[x].reply_tid
         /\ work' = rest
<1>1. route \in [Trains -> RouteRecords]
  BY Typed
<1>2. 0 \in 0 .. MaxErrors - 1 /\ 0 \in 0 .. MaxReversals
  BY SpeedAssumption
<1>3. route' = [route EXCEPT ![t].on = FALSE, ![t].started = FALSE,
                             ![t].reversals = 0, ![t].errors = 0] /\ work' = rest
  BY DEF RouteNotFound
<1>4. QED
  BY <1>2, <1>3, RouteUpdated

\* ... or a train on its way gets a new one.
LEMMA ReplanTyped ==
  ASSUME TypeOK, NEW t \in Trains, NEW rest, Slow(rest), Replan(t, rest)
  PROVE  /\ route' \in [Trains -> RouteRecords]
         /\ \A x \in Trains : route'[x].reply_tid = route[x].reply_tid
         /\ \E u : Quiet(u) /\ work' = u \o rest
<1>1. CASE RoutePlanned(t, rest)
  BY <1>1, RoutePlannedTyped
<1>2. CASE RouteNotFound(t, rest)
  <2>1. rest = << >> \o rest
    <3>1. rest \in Seq(Steps)
      BY DEF Slow
    <3>2. QED
      BY <3>1
  <2>2. QED
    BY <1>2, <2>1, NoneOwed, RouteNotFoundTyped
<1>3. QED
  BY <1>1, <1>2 DEF Replan

\* The end of a handler that holds nobody's answer, and answers c.
LEMMA HoldNobody ==
  ASSUME NEW c \in Callers, NEW x, NEW t \in Trains, NEW one,
         one = Hold(t, NoTask) \/ one = Finish(t)
  PROVE  /\ Slow(<<one, Answer(c)>>) /\ Owes(<<one, Answer(c)>>, c)
         /\ Once(<<one, Answer(c)>>, c) /\ HoldsOK(<<one, Answer(c)>>, c, x)
         /\ \A d \in Callers : d # c => ~Owes(<<one, Answer(c)>>, d)
<1> DEFINE w == <<one, Answer(c)>>
<1>1. /\ one \in Steps /\ ~Fast(one) /\ \A d \in Callers : ~Owing(one, d)
      /\ Answer(c) \in Steps /\ ~Fast(Answer(c)) /\ Owing(Answer(c), c)
      /\ Answer(c).op # "hold" /\ (one.op = "hold" => one.to # c)
  <2>1. one \in Steps /\ ~Fast(one)
    <3>1. CASE one = Hold(t, NoTask)
      BY <3>1 DEF Steps, Hold, Fast
    <3>2. CASE one = Finish(t)
      BY <3>2 DEF Steps, Finish, Fast
    <3>3. QED
      BY <3>1, <3>2
  <2>2. /\ \A d \in Callers : ~Owing(one, d)
        /\ one.op = "hold" => one.to # c
    BY CallerNames DEF Owing, Hold, Finish
  <2>3. QED
    BY <2>1, <2>2, AnswerOwing
<1>2. \A d \in Callers : Owing(Answer(c), d) => d = c
  BY DEF Owing, Answer
<1>3. w \in Seq(Steps) /\ DOMAIN w = {1, 2} /\ w[1] = one /\ w[2] = Answer(c)
  BY <1>1
<1> HIDE DEF w
<1>4. Slow(w) /\ Owes(w, c) /\ Once(w, c)
  BY <1>1, <1>3 DEF Slow, Owes, Once
<1>5. HoldsOK(w, c, x)
  BY <1>1, <1>3 DEF HoldsOK
<1>6. \A d \in Callers : d # c => ~Owes(w, d)
  BY <1>1, <1>2, <1>3 DEF Owes
<1>7. QED
  BY <1>4, <1>5, <1>6 DEF w

\* The end of a handler that holds the answer of a courier.
LEMMA HoldLast ==
  ASSUME NEW c \in Callers, c \notin {Cli, CabService}, NEW t \in Trains
  PROVE  /\ Slow(<<Hold(t, c)>>) /\ Owes(<<Hold(t, c)>>, c) /\ Once(<<Hold(t, c)>>, c)
         /\ HoldsOK(<<Hold(t, c)>>, c, t)
         /\ \A d \in Callers : d # c => ~Owes(<<Hold(t, c)>>, d)
BY HoldOwing, OwingOne

\* ROUTE.
LEMMA RouteKept ==
  ASSUME IInv, Kept, NEW c \in Callers, RouteMessage(c)
  PROVE  Kept'
<1> DEFINE t == request[c].train
           w == IF c = Cli THEN <<Hold(t, NoTask), Answer(c)>> ELSE <<Hold(t, c)>>
<1>1. /\ TypeOK /\ Received(c) /\ request[c].command = "ROUTE"
      /\ RoutePlanned(t, w)
      /\ UNCHANGED <<profile, request, task, rail>>
  BY DEF RouteMessage, ReceivedCall, Kept
<1>2. t \in Trains /\ c # CabService
  BY <1>1, CallKinds
<1>3. /\ Slow(w) /\ Owes(w, c) /\ Once(w, c) /\ HoldsOK(w, c, t)
      /\ \A d \in Callers : d # c => ~Owes(w, d)
  <2>1. CASE c = Cli
    BY <1>2, <2>1, HoldNobody
  <2>2. CASE c # Cli
    BY <1>2, <2>2, HoldLast
  <2>3. QED
    BY <2>1, <2>2
<1> HIDE DEF w
<1>4. /\ route' \in [Trains -> RouteRecords]
      /\ \A x \in Trains : route'[x].reply_tid = route[x].reply_tid
      /\ \E u : Quiet(u) /\ work' = u \o w
  BY <1>1, <1>2, RoutePlannedTyped
<1>5. PICK u : Quiet(u) /\ work' = u \o w
  BY <1>4
<1>6. request[c].command # "none"
  BY <1>1
<1>7. QED
  BY <1>1, <1>3, <1>4, <1>5, <1>6, LaterKept

\* ROUTE, without a path.
LEMMA RouteFailsKept ==
  ASSUME IInv, Kept, NEW c \in Callers, RouteFails(c)
  PROVE  Kept'
<1> DEFINE t == request[c].train
           w == <<Hold(t, NoTask), Answer(c)>>
<1>1. /\ TypeOK /\ Received(c) /\ request[c].command = "ROUTE"
      /\ RouteNotFound(t, w)
      /\ UNCHANGED <<profile, request, task, rail>>
  BY DEF RouteFails, ReceivedCall, Kept
<1>2. t \in Trains
  BY <1>1, CallKinds
<1>3. /\ Slow(w) /\ Owes(w, c) /\ Once(w, c) /\ HoldsOK(w, c, t)
      /\ \A d \in Callers : d # c => ~Owes(w, d)
  BY <1>2, HoldNobody
<1> HIDE DEF w
<1>4. /\ route' \in [Trains -> RouteRecords]
      /\ \A x \in Trains : route'[x].reply_tid = route[x].reply_tid
      /\ work' = w
  BY <1>1, <1>2, RouteNotFoundTyped
<1>5. work' = << >> \o w
  <2>1. w \in Seq(Steps)
    BY <1>3 DEF Slow
  <2>2. QED
    BY <1>4, <2>1
<1>6. request[c].command # "none" /\ Quiet(<< >>)
  BY <1>1, NoneOwed
<1>7. QED
  BY <1>1, <1>3, <1>4, <1>5, <1>6, LaterKept

\* ROUTE_STOP.
LEMMA RouteStopKept ==
  ASSUME IInv, Kept, NEW c \in Callers, RouteStopMessage(c)
  PROVE  Kept'
<1> DEFINE t == request[c].train
           w == <<Finish(t), Answer(c)>>
           u == IF profile[t].current_speed # 0 THEN <<SetSpeed(t, 0)>> ELSE << >>
<1>1. /\ TypeOK /\ Received(c) /\ request[c].command = "ROUTE_STOP" /\ work' = u \o w
      /\ UNCHANGED <<profile, route, request, task, rail>>
  BY DEF RouteStopMessage, ReceivedCall, Kept
<1>2. t \in Trains
  BY <1>1, CallKinds
<1>3. /\ Slow(w) /\ Owes(w, c) /\ Once(w, c) /\ HoldsOK(w, c, t)
      /\ \A d \in Callers : d # c => ~Owes(w, d)
  BY <1>2, HoldNobody
<1>4. Quiet(u)
  BY <1>2, QuietSteps, SpeedSets, NoneOwed
<1> HIDE DEF w, u
<1>5. request[c].command # "none" /\ route' \in [Trains -> RouteRecords]
  BY <1>1, Typed
<1>6. QED
  BY <1>1, <1>3, <1>4, <1>5, LaterKept

\* A train's task has its speed back from the controller: its train stands.
LEMMA RestoreKept ==
  ASSUME IInv, Kept, NEW t \in Trains, RestoreMessage(t)
  PROVE  Kept'
<1>1. /\ TypeOK /\ FastOK /\ StandsOK /\ CallsOK /\ Types
      /\ Received(Task(t)) /\ task[t].at = "restoring"
      /\ task' = [task EXCEPT ![t] = Receiving]
      /\ work' = <<SetSpeed(t, task[t].data)>>
      /\ UNCHANGED <<profile, route, request, rail>>
  BY DEF RestoreMessage, Kept, IInv
<1>2. task[t].data \in Indices /\ profile[t].current_speed = 0
  BY <1>1, IndicesOf DEF StandsOK
<1>3. PICK step \in Steps : step = SetSpeed(t, task[t].data)
  BY <1>2, QuietSteps
<1>4. work' \in Seq(Steps) /\ DOMAIN work' = {1} /\ work'[1] = step
  BY <1>1, <1>3
<1>5. Silent(work') /\ step.train = t
  BY <1>3, <1>4 DEF Silent, Owing, SetSpeed
<1>6. CallsOK'
  BY <1>1, <1>5, CallerNames, ServedAtOnce
<1>7. FastOK'
  BY <1>1, <1>2, <1>4, <1>5 DEF FastOK
<1>8. task \in [Trains -> [at : {"receive", "speed", "reversing", "resetting", "reset",
                                "restoring"}, data : Indices]]
  BY <1>1 DEF TypeOK
<1>9. /\ task' \in [Trains -> [at : {"receive", "speed", "reversing", "resetting", "reset",
                                     "restoring"}, data : Indices]]
      /\ \A x \in Trains : task'[x] = IF x = t THEN Receiving ELSE task[x]
  <2>1. Receiving \in [at : {"receive", "speed", "reversing", "resetting", "reset",
                             "restoring"}, data : Indices]
    BY SpeedSets DEF Receiving
  <2>2. QED
    BY <1>1, <1>8, <2>1
<1>10. StandsOK'
  BY <1>1, <1>9 DEF StandsOK, Receiving
<1>11. inbox' \in Seq(Senders)
  BY <1>1, CallerNames, QueueReceived DEF Callers
<1>12. TypeOK'
  BY <1>1, <1>4, <1>9, <1>11 DEF TypeOK, Senders
<1>13. QED
  BY <1>6, <1>7, <1>10, <1>12 DEF Kept

\* The records of TypeOK.
SpeedRecords == [current_speed : Indices, speed_index : Indices,
                 previous_speed_index : Indices, direction : {"straight", "reversed"},
                 paused : BOOLEAN, located : BOOLEAN]
TaskRecords == [at : {"receive", "speed", "reversing", "resetting", "reset", "restoring"},
                data : Indices]

\* One train's profile and task change, as its speed and state allow.
LEMMA TrainKept ==
  ASSUME TypeOK, StandsOK, NEW t \in Trains, NEW p \in SpeedRecords, NEW k \in TaskRecords,
         profile' = [profile EXCEPT ![t] = p], task' = [task EXCEPT ![t] = k],
         k.at \in {"reversing", "resetting", "reset", "restoring"} => p.current_speed = 0,
         route' \in [Trains -> RouteRecords], inbox' \in Seq(Senders), work' \in Seq(Steps),
         request' = request, rail' = rail \/ rail' \in [Trains -> Rails]
  PROVE  TypeOK' /\ StandsOK'
<1>1. profile \in [Trains -> SpeedRecords] /\ task \in [Trains -> TaskRecords]
  BY DEF TypeOK, SpeedRecords, TaskRecords
<1>2. /\ profile' \in [Trains -> SpeedRecords] /\ task' \in [Trains -> TaskRecords]
      /\ \A x \in Trains : /\ profile'[x] = IF x = t THEN p ELSE profile[x]
                           /\ task'[x] = IF x = t THEN k ELSE task[x]
  BY <1>1
<1>3. StandsOK'
  BY <1>2 DEF StandsOK
<1>4. TypeOK'
  BY <1>2 DEF TypeOK, SpeedRecords, TaskRecords, RouteRecords, Senders, Rails
<1>5. QED
  BY <1>3, <1>4

\* The records of a train.
LEMMA RecordsOf ==
  ASSUME TypeOK, NEW t \in Trains
  PROVE  /\ profile[t] \in SpeedRecords /\ task[t] \in TaskRecords
         /\ profile = [profile EXCEPT ![t] = profile[t]]
         /\ task = [task EXCEPT ![t] = task[t]]
BY DEF TypeOK, SpeedRecords, TaskRecords

\* The task has turned its train.
LEMMA ResetKept ==
  ASSUME IInv, Kept, NEW t \in Trains, ReverseResetMessage(t)
  PROVE  Kept'
<1> DEFINE p == [profile[t] EXCEPT !.direction = Turned(@)]
           k == [task[t] EXCEPT !.at = "reset"]
<1>1. /\ TypeOK /\ FastOK /\ StandsOK /\ CallsOK /\ Types
      /\ Received(Task(t)) /\ task[t].at = "resetting"
      /\ profile' = [profile EXCEPT ![t].direction = Turned(@)]
      /\ task' = [task EXCEPT ![t].at = "reset"]
      /\ UNCHANGED <<route, work, request, rail>>
  BY DEF ReverseResetMessage, Kept, IInv
<1>2. profile[t] \in SpeedRecords /\ task[t] \in TaskRecords
  BY <1>1, RecordsOf
<1>3. profile' = [profile EXCEPT ![t] = p] /\ task' = [task EXCEPT ![t] = k]
  BY <1>1
<1>4. /\ p \in SpeedRecords /\ p.current_speed = profile[t].current_speed
      /\ k \in TaskRecords /\ k.at = "reset"
  BY <1>2 DEF SpeedRecords, TaskRecords, Turned
<1>5. profile[t].current_speed = 0
  BY <1>1 DEF StandsOK
<1>6. work' = << >>
  BY <1>1 DEF Received
<1>7. /\ inbox' \in Seq(Senders) /\ work' \in Seq(Steps) /\ FastOK'
      /\ route' \in [Trains -> RouteRecords]
  BY <1>1, <1>6, CallerNames, QueueReceived, Typed DEF FastOK, Callers
<1>8. CallsOK'
  BY <1>1, <1>6, NoneOwed, CallerNames, ServedAtOnce
<1>9. UNCHANGED <<request, rail>>
  BY <1>1
<1> HIDE DEF p, k
<1>10. TypeOK' /\ StandsOK'
  BY <1>1, <1>3, <1>4, <1>5, <1>7, <1>9, TrainKept
<1>11. QED
  BY <1>7, <1>8, <1>10 DEF Kept

-----------------------------------------------------------------------------
(* The steps of a handler.                                                 *)

\* A report or a ping begins a handler; nobody is answered.
LEMMA BeginKept ==
  ASSUME IInv, Kept, work = << >>, Quiet(work'),
         UNCHANGED <<profile, route, inbox, request, task, rail>>
  PROVE  Kept'
<1>1. TypeOK /\ FastOK /\ StandsOK /\ CallsOK
  BY DEF Kept
<1>2. Like(work', work)
  <2>1. \A c \in Callers : ~Owes(work', c) /\ Once(work', c) /\ \A t : HoldsOK(work', c, t)
    BY SilentOwes DEF Quiet
  <2>2. \A c : ~Owes(work, c)
    BY NoneOwed
  <2>3. QED
    BY <2>1, <2>2 DEF Like
<1>3. CallsOK'
  BY <1>1, <1>2, SameCalls
<1>4. /\ route' \in [Trains -> RouteRecords] /\ inbox' \in Seq(Senders)
      /\ \A c \in Callers : request'[c] = NoCall \/ request'[c] \in Calls(c)
  BY <1>1, Typed
<1>5. Slow(work')
  BY DEF Quiet
<1>6. TypeOK' /\ FastOK' /\ StandsOK'
  BY <1>1, <1>4, <1>5, HandlerTypes
<1>7. QED
  BY <1>3, <1>6 DEF Kept

\* Sensor reports and pings.
LEMMA SensorKept ==
  ASSUME IInv, Kept, SensorLocates \/ SensorHits \/ SensorSpurious \/ Ping
  PROVE  Kept'
<1>1. \A i \in DOMAIN TrainMap : TrainMap[i] \in Trains
  BY DEF Trains
<1>2. work = << >> /\ UNCHANGED <<profile, route, inbox, request, task, rail>>
  BY DEF SensorLocates, SensorHits, SensorSpurious, Ping
<1>3. Quiet(work')
  <2>1. CASE SensorLocates
    <3>1. PICK i \in DOMAIN TrainMap : work' = <<SetSpeed(TrainMap[i], 0), Hit(TrainMap[i])>>
      BY <2>1 DEF SensorLocates
    <3>2. QED
      BY <1>1, <3>1, QuietSteps, QuietTwo, SpeedSets
  <2>2. CASE SensorHits
    BY <2>2, QuietSteps DEF SensorHits
  <2>3. CASE SensorSpurious
    <3>1. work' = [i \in DOMAIN TrainMap |-> SetSpeed(TrainMap[i], 0)]
      BY <2>3 DEF SensorSpurious
    <3>2. \A i \in DOMAIN TrainMap : /\ work'[i] \in Steps /\ ~Fast(work'[i])
                                     /\ \A c \in Callers : ~Owing(work'[i], c)
      <4>1. ASSUME NEW t \in Trains
            PROVE  /\ SetSpeed(t, 0) \in Steps /\ ~Fast(SetSpeed(t, 0))
                   /\ \A c \in Callers : ~Owing(SetSpeed(t, 0), c)
        <5>1. SetSpeed(t, 0) \in Steps
          BY SpeedSets DEF Steps, SetSpeed
        <5>2. ~Fast(SetSpeed(t, 0)) /\ \A c \in Callers : ~Owing(SetSpeed(t, 0), c)
          BY SpeedSets DEF SetSpeed, Owing, Fast
        <5>3. QED
          BY <5>1, <5>2
      <4>2. QED
        BY <1>1, <3>1, <4>1
    <3>3. QED
      BY <3>1, <3>2, QuietEach
  <2>4. CASE Ping
    <3>1. work' = [i \in DOMAIN TrainMap |-> Reserve(TrainMap[i])]
      BY <2>4 DEF Ping
    <3>2. \A i \in DOMAIN TrainMap : /\ work'[i] \in Steps /\ ~Fast(work'[i])
                                     /\ \A c \in Callers : ~Owing(work'[i], c)
      <4>1. ASSUME NEW t \in Trains
            PROVE  /\ Reserve(t) \in Steps /\ ~Fast(Reserve(t))
                   /\ \A c \in Callers : ~Owing(Reserve(t), c)
        <5>1. Reserve(t) \in Steps
          BY DEF Steps, Reserve
        <5>2. ~Fast(Reserve(t)) /\ \A c \in Callers : ~Owing(Reserve(t), c)
          BY DEF Reserve, Owing, Fast
        <5>3. QED
          BY <5>1, <5>2
      <4>2. QED
        BY <1>1, <3>1, <4>1
    <3>3. QED
      BY <3>1, <3>2, QuietEach
  <2>5. QED
    BY <2>1, <2>2, <2>3, <2>4
<1>4. QED
  BY <1>2, <1>3, BeginKept

\* A step of the handler that answers nobody, and what it leaves to do.
LEMMA Unfinished ==
  ASSUME Kept, work # << >>, \A c \in Callers : ~Owing(Head(work), c),
         NEW u, Silent(u), work' = u \o Tail(work) \/ (u = << >> /\ work' = Tail(work)),
         UNCHANGED <<inbox, request>>,
         \A t \in Trains : route'[t].reply_tid = route[t].reply_tid
  PROVE  CallsOK'
<1>1. work \in Seq(Steps) /\ Slow(Tail(work)) /\ CallsOK
  BY SlowRest, Typed DEF Kept
<1>2. Like(Tail(work), work)
  BY <1>1, Dropped
<1>3. Like(work', Tail(work))
  <2>1. CASE work' = u \o Tail(work)
    BY <1>1, <2>1, Pushed
  <2>2. CASE work' = Tail(work)
    BY <2>2 DEF Like
  <2>3. QED
    BY <2>1, <2>2
<1>4. Like(work', work)
  BY <1>2, <1>3, LikeTrans
<1>5. QED
  BY <1>1, <1>4, SameCalls

\* The same when no train changes.
LEMMA UnfinishedKept ==
  ASSUME IInv, Kept, work # << >>, Head(work).op \notin {"answer", "hold"},
         NEW u, Quiet(u), work' = u \o Tail(work) \/ (u = << >> /\ work' = Tail(work)),
         UNCHANGED <<profile, inbox, request, task, rail>>,
         route' \in [Trains -> RouteRecords],
         \A t \in Trains : route'[t].reply_tid = route[t].reply_tid
  PROVE  Kept'
<1>1. TypeOK /\ FastOK /\ StandsOK /\ Silent(u) /\ Slow(u)
  BY DEF Kept, Quiet
<1>2. \A c \in Callers : ~Owing(Head(work), c)
  BY DEF Owing
<1>3. CallsOK'
  BY <1>1, <1>2, Unfinished
<1>4. Slow(Tail(work))
  BY <1>1, SlowRest
<1>5. Slow(work')
  <2>1. Slow(u \o Tail(work))
    BY <1>1, <1>4, Pushed
  <2>2. QED
    BY <1>4, <2>1
<1>6. /\ inbox' \in Seq(Senders)
      /\ \A c \in Callers : request'[c] = NoCall \/ request'[c] \in Calls(c)
  BY <1>1, Typed
<1>7. TypeOK' /\ FastOK' /\ StandsOK'
  BY <1>1, <1>5, <1>6, HandlerTypes
<1>8. QED
  BY <1>3, <1>7 DEF Kept

\* What a ping does with each train.
LEMMA DriveKept ==
  ASSUME IInv, Kept, NEW t \in Trains,
         Arrive(t) \/ TurnBack(t) \/ Halt(t) \/ Reroute(t) \/ RollOn(t)
  PROVE  Kept'
<1>1. /\ work # << >> /\ Head(work).op = "drive"
      /\ UNCHANGED <<profile, inbox, request, task, rail>>
      /\ TypeOK /\ FastOK
  BY DEF Arrive, TurnBack, Halt, Reroute, RollOn, DriveOf, Doing, Kept
<1>2. Slow(Tail(work)) /\ route \in [Trains -> RouteRecords]
  BY <1>1, SlowRest, Typed
<1>3. /\ route' \in [Trains -> RouteRecords]
      /\ \A x \in Trains : route'[x].reply_tid = route[x].reply_tid
      /\ \E u : Quiet(u) /\ (work' = u \o Tail(work) \/ (u = << >> /\ work' = Tail(work)))
  <2>1. CASE Arrive(t)
    <3>1. Quiet(<<SetSpeed(t, 0), Finish(t)>>)
      BY QuietSteps, QuietTwo, SpeedSets
    <3>2. work' = <<SetSpeed(t, 0), Finish(t)>> \o Tail(work) /\ route' = route
      BY <2>1 DEF Arrive
    <3>3. QED
      BY <1>2, <3>1, <3>2
  <2>2. CASE TurnBack(t)
    <3>1. profile[t].current_speed \in Indices
      BY <1>1, IndicesOf
    <3>2. Quiet(TrainReverse(t, profile[t].current_speed))
      BY <3>1, QuietReverse
    <3>3. /\ work' = TrainReverse(t, profile[t].current_speed) \o Tail(work)
          /\ route' = [route EXCEPT ![t].reversals = @ - 1]
          /\ route[t].reversals > 0
      BY <2>2 DEF TurnBack
    <3>4. route[t] \in RouteRecords /\ route[t].reversals - 1 \in 0 .. MaxReversals
      BY <1>2, <3>3, SpeedAssumption DEF RouteRecords
    <3>5. /\ route' \in [Trains -> RouteRecords]
          /\ \A x \in Trains : route'[x].reply_tid = route[x].reply_tid
      <4> DEFINE r == [route[t] EXCEPT !.reversals = @ - 1]
      <4>1. route' = [route EXCEPT ![t] = r]
        BY <1>2, <3>3
      <4>2. r \in RouteRecords /\ r.reply_tid = route[t].reply_tid
        BY <3>4 DEF RouteRecords
      <4> HIDE DEF r
      <4>3. \A x \in Trains : route'[x] = IF x = t THEN r ELSE route[x]
        BY <1>2, <4>1
      <4>4. route' \in [Trains -> RouteRecords]
        BY <1>2, <4>1, <4>2
      <4>5. QED
        BY <4>2, <4>3, <4>4
    <3>6. QED
      BY <3>2, <3>3, <3>5
  <2>3. CASE Halt(t)
    <3>1. /\ Quiet(<<SetSpeed(t, 0), Pause(t)>>) /\ Quiet(<<SetSpeed(t, 0)>>)
      BY QuietSteps, QuietTwo, SpeedSets
    <3>2. /\ route' = route
          /\ work' = (IF Head(work).status = "refused" THEN <<SetSpeed(t, 0), Pause(t)>>
                                                       ELSE <<SetSpeed(t, 0)>>) \o Tail(work)
      BY <2>3 DEF Halt
    <3>3. QED
      BY <1>2, <3>1, <3>2
  <2>4. CASE Reroute(t)
    BY <1>1, <1>2, <2>4, ReplanTyped DEF Reroute
  <2>5. CASE RollOn(t)
    BY <1>2, <2>5, NoneOwed DEF RollOn
  <2>6. QED
    BY <2>1, <2>2, <2>3, <2>4, <2>5
<1>4. PICK u : Quiet(u) /\ (work' = u \o Tail(work) \/ (u = << >> /\ work' = Tail(work)))
  BY <1>3
<1>5. Head(work).op \notin {"answer", "hold"}
  BY <1>1
<1>6. QED
  BY <1>1, <1>3, <1>4, <1>5, UnfinishedKept

\* The answer at the end of a handler.
LEMMA SendAnswerKept ==
  ASSUME IInv, Kept, SendAnswer
  PROVE  Kept'
<1> DEFINE x == Head(work).to
<1>1. /\ TypeOK /\ FastOK /\ StandsOK /\ CallsOK /\ Types
      /\ work # << >> /\ Head(work).op = "answer"
      /\ request' = Replied(x) /\ work' = Tail(work)
      /\ UNCHANGED <<profile, route, inbox, task, rail>>
  BY DEF SendAnswer, Doing, Kept, IInv
<1>2. work \in Seq(Steps) /\ Slow(work') /\ Head(work) \in Steps
  BY <1>1, SlowRest, Typed
<1>3. x \in Callers /\ \A c \in Callers : Owing(Head(work), c) <=> c = x
  BY <1>1, <1>2 DEF Steps, Owing
<1>4. \A c \in Callers : request'[c] = IF c = x THEN NoCall ELSE request[c]
  <2>1. request' = [request EXCEPT ![x] = NoCall]
    BY <1>1, <1>3, CallerNames DEF Replied
  <2>2. QED
    BY <1>1, <2>1 DEF Types
<1>5. \A c : Routes(c)' = Routes(c)
  BY <1>1 DEF Routes
<1> HIDE DEF x
<1>6. ASSUME NEW c \in Callers PROVE CallIs(c, inbox', work', request'[c], Routes(c)')
  <2>1. CallIs(c, inbox, work, request[c], Routes(c))
    BY <1>1 DEF CallsOK
  <2>2. /\ Owing(Head(work), c) => Owes(work, c)
        /\ Owing(Head(work), c) /\ Once(work, c) => ~Owes(work', c)
        /\ Owes(work', c) => Owes(work, c)
        /\ Owes(work, c) /\ ~Owing(Head(work), c) => Owes(work', c)
        /\ Once(work, c) => Once(work', c)
        /\ \A t : HoldsOK(work, c, t) => HoldsOK(work', c, t)
    BY <1>1, <1>2, Answered
  <2>3. CASE c = x
    <3>1. Owes(work, c) /\ ~Owes(work', c)
      BY <1>3, <2>1, <2>2, <2>3 DEF CallIs
    <3>2. ~QueuedIn(inbox, c) /\ Routes(c) = {}
      BY <2>1, <3>1 DEF CallIs
    <3>3. Once(work', c) /\ HoldsOK(work', c, NoCall.train)
      BY <3>1 DEF Owes, Once, HoldsOK, Owing
    <3>4. QED
      BY <1>1, <1>4, <1>5, <2>1, <2>3, <3>1, <3>2, <3>3 DEF CallIs
  <2>4. CASE c # x
    BY <1>1, <1>3, <1>4, <1>5, <2>1, <2>2, <2>4 DEF CallIs
  <2>5. QED
    BY <2>3, <2>4
<1>7. CallsOK'
  BY <1>6 DEF CallsOK
<1>8. /\ route' \in [Trains -> RouteRecords] /\ inbox' \in Seq(Senders)
      /\ \A d \in Callers : request'[d] = NoCall \/ request'[d] \in Calls(d)
  BY <1>1, <1>4, Typed
<1>9. TypeOK' /\ FastOK' /\ StandsOK'
  BY <1>1, <1>2, <1>8, HandlerTypes
<1>10. QED
  BY <1>7, <1>9 DEF Kept

\* The answer is held by the route.
LEMMA HoldAnswerKept ==
  ASSUME IInv, Kept, HoldAnswer
  PROVE  Kept'
<1>a. PICK x : x = Head(work).to
  OBVIOUS
<1>b. PICK t : t = Head(work).train
  OBVIOUS
<1>1. /\ TypeOK /\ FastOK /\ StandsOK /\ CallsOK /\ Types
      /\ work # << >> /\ Head(work).op = "hold"
      /\ route' = [route EXCEPT ![t].reply_tid = x] /\ work' = Tail(work)
      /\ UNCHANGED <<profile, inbox, request, task, rail>>
  BY <1>a, <1>b DEF HoldAnswer, Doing, Kept, IInv
<1>2. /\ work \in Seq(Steps) /\ Slow(work') /\ Head(work) \in Steps /\ Head(work) = work[1]
      /\ route \in [Trains -> RouteRecords]
  BY <1>1, SlowRest, Typed
<1>3. x \in Callers \cup {NoTask} /\ t \in Trains
  BY <1>1, <1>2, <1>a, <1>b DEF Steps
<1>4. \A c \in Callers : Owing(Head(work), c) <=> c = x
  BY <1>1, <1>a DEF Owing
<1>5. /\ route' \in [Trains -> RouteRecords]
      /\ \A u \in Trains : route'[u].reply_tid = IF u = t THEN x ELSE route[u].reply_tid
  <2> DEFINE r == [route[t] EXCEPT !.reply_tid = x]
  <2>1. route' = [route EXCEPT ![t] = r]
    BY <1>1, <1>2, <1>3
  <2>2. r \in RouteRecords /\ r.reply_tid = x
    BY <1>2, <1>3 DEF RouteRecords
  <2> HIDE DEF r
  <2>3. \A u \in Trains : route'[u] = IF u = t THEN r ELSE route[u]
    BY <1>2, <1>3, <2>1
  <2>4. route' \in [Trains -> RouteRecords]
    BY <1>2, <1>3, <2>1, <2>2
  <2>5. QED
    BY <2>2, <2>3, <2>4
<1>6. ASSUME NEW c \in Callers PROVE CallIs(c, inbox', work', request'[c], Routes(c)')
  <2>1. CallIs(c, inbox, work, request[c], Routes(c))
    BY <1>1 DEF CallsOK
  <2>2. /\ Owing(Head(work), c) => Owes(work, c)
        /\ Owing(Head(work), c) /\ Once(work, c) => ~Owes(work', c)
        /\ Owes(work', c) => Owes(work, c)
        /\ Owes(work, c) /\ ~Owing(Head(work), c) => Owes(work', c)
        /\ Once(work, c) => Once(work', c)
        /\ \A y : HoldsOK(work, c, y) => HoldsOK(work', c, y)
    BY <1>1, <1>2, Answered
  <2>3. CASE c = x
    <3>1. Owes(work, c) /\ ~Owes(work', c)
      BY <1>4, <2>1, <2>2, <2>3 DEF CallIs
    <3>2. ~QueuedIn(inbox, c) /\ Routes(c) = {} /\ request[c] # NoCall
      BY <2>1, <3>1 DEF CallIs
    <3>3. c \notin {Cli, CabService} /\ t = request[c].train
      <4>1. HoldsOK(work, c, request[c].train) /\ 1 \in DOMAIN work
        BY <1>1, <1>2, <2>1 DEF CallIs
      <4>2. QED
        BY <1>1, <1>2, <1>a, <1>b, <2>3, <4>1 DEF HoldsOK
    <3>4. Routes(c)' = {t}
      BY <1>3, <1>5, <2>3, <3>2 DEF Routes
    <3>5. QED
      BY <1>1, <2>1, <2>2, <3>1, <3>2, <3>3, <3>4 DEF CallIs
  <2>4. CASE c # x
    <3>1. Routes(c)' \subseteq Routes(c)
      BY <1>5, <2>4 DEF Routes
    <3>2. Owes(work', c) <=> Owes(work, c)
      BY <1>4, <2>2, <2>4
    <3>3. \A S, T : S \subseteq T /\ T = {} => S = {}
      OBVIOUS
    <3>4. Routes(c) = {} => Routes(c)' = {}
      BY <3>1
    <3>5. Routes(c) \subseteq {request[c].train} => Routes(c)' \subseteq {request[c].train}
      BY <3>1
    <3>6. QED
      BY <1>1, <2>1, <2>2, <3>2, <3>4, <3>5 DEF CallIs
  <2>5. QED
    BY <2>3, <2>4
<1>7. CallsOK'
  BY <1>6 DEF CallsOK
<1>8. /\ inbox' \in Seq(Senders)
      /\ \A d \in Callers : request'[d] = NoCall \/ request'[d] \in Calls(d)
  BY <1>1, Typed
<1>9. TypeOK' /\ FastOK' /\ StandsOK'
  BY <1>1, <1>2, <1>5, <1>8, HandlerTypes
<1>10. QED
  BY <1>7, <1>9 DEF Kept

\* The route ends, and whoever waits for that is answered.
LEMMA FinishRouteKept ==
  ASSUME IInv, Kept, FinishRoute
  PROVE  Kept'
<1>a. PICK t : t = Head(work).train
  OBVIOUS
<1>b. PICK x : x = route[t].reply_tid
  OBVIOUS
<1>1. /\ TypeOK /\ FastOK /\ StandsOK /\ CallsOK /\ Types
      /\ work # << >> /\ Head(work).op = "finish"
      /\ request' = Replied(x) /\ work' = Tail(work)
      /\ route' = [route EXCEPT ![t].on = FALSE, ![t].started = FALSE,
                                ![t].reversals = 0, ![t].reply_tid = NoTask]
      /\ UNCHANGED <<profile, inbox, task, rail>>
  BY <1>a, <1>b DEF FinishRoute, Doing, Kept, IInv
<1>2. /\ work \in Seq(Steps) /\ Slow(work') /\ Head(work) \in Steps
      /\ route \in [Trains -> RouteRecords]
  BY <1>1, SlowRest, Typed
<1>3. t \in Trains /\ \A c \in Callers : ~Owing(Head(work), c)
  BY <1>1, <1>2, <1>a DEF Steps, Owing
<1>4. x \in Callers \cup {NoTask}
  BY <1>2, <1>3, <1>b DEF RouteRecords
<1>5. /\ route' \in [Trains -> RouteRecords]
      /\ \A u \in Trains : route'[u].reply_tid = IF u = t THEN NoTask ELSE route[u].reply_tid
  <2> DEFINE r == [route[t] EXCEPT !.on = FALSE, !.started = FALSE,
                                   !.reversals = 0, !.reply_tid = NoTask]
  <2>1. route' = [route EXCEPT ![t] = r]
    BY <1>1, <1>2, <1>3
  <2>2. 0 \in 0 .. MaxReversals /\ route[t] \in RouteRecords
    BY <1>2, <1>3, SpeedAssumption
  <2>3. r \in RouteRecords /\ r.reply_tid = NoTask
    BY <2>2 DEF RouteRecords
  <2> HIDE DEF r
  <2>4. \A u \in Trains : route'[u] = IF u = t THEN r ELSE route[u]
    BY <1>2, <1>3, <2>1
  <2>5. route' \in [Trains -> RouteRecords]
    BY <1>2, <1>3, <2>1, <2>3
  <2>6. QED
    BY <2>3, <2>4, <2>5
<1>6. Like(work', work)
  BY <1>1, <1>2, <1>3, Dropped
<1>7. \A c \in Callers : request'[c] = IF c = x THEN NoCall ELSE request[c]
  <2>1. CASE x = NoTask
    BY <1>1, <2>1, CallerNames DEF Replied
  <2>2. CASE x # NoTask
    <3>1. request' = [request EXCEPT ![x] = NoCall]
      BY <1>1, <2>2 DEF Replied
    <3>2. QED
      BY <1>1, <3>1 DEF Types
  <2>3. QED
    BY <2>1, <2>2
<1>8. ASSUME NEW c \in Callers PROVE CallIs(c, inbox', work', request'[c], Routes(c)')
  <2>1. CallIs(c, inbox, work, request[c], Routes(c))
    BY <1>1 DEF CallsOK
  <2>2. /\ Owes(work', c) <=> Owes(work, c)
        /\ Once(work, c) => Once(work', c)
        /\ \A y : HoldsOK(work, c, y) => HoldsOK(work', c, y)
    BY <1>6 DEF Like
  <2>3. CASE c = x
    <3>1. t \in Routes(c) /\ Routes(c) \subseteq {request[c].train}
      BY <1>3, <1>b, <2>1, <2>3 DEF Routes, CallIs
    <3>2. ~QueuedIn(inbox, c) /\ ~Owes(work, c)
      BY <2>1, <3>1 DEF CallIs
    <3>3. \A u \in Routes(c) : u = t
      BY <3>1
    <3>4. \A u \in Trains : route'[u].reply_tid # c
      BY <1>5, <3>3, CallerNames DEF Routes
    <3>5. Routes(c)' = {}
      BY <3>4 DEF Routes
    <3>6. Once(work', c) /\ HoldsOK(work', c, NoCall.train) /\ ~Owes(work', c)
      BY <2>2, <3>2 DEF Owes, Once, HoldsOK, Owing
    <3>7. QED
      BY <1>1, <1>7, <2>1, <2>3, <3>2, <3>5, <3>6 DEF CallIs
  <2>4. CASE c # x
    <3>1. Routes(c)' = Routes(c)
      BY <1>3, <1>5, <1>b, <2>4, CallerNames DEF Routes
    <3>2. QED
      BY <1>1, <1>7, <2>1, <2>2, <2>4, <3>1 DEF CallIs
  <2>5. QED
    BY <2>3, <2>4
<1>9. CallsOK'
  BY <1>8 DEF CallsOK
<1>10. /\ inbox' \in Seq(Senders)
       /\ \A d \in Callers : request'[d] = NoCall \/ request'[d] \in Calls(d)
  BY <1>1, <1>7, Typed
<1>11. TypeOK' /\ FastOK' /\ StandsOK'
  BY <1>1, <1>2, <1>5, <1>10, HandlerTypes
<1>12. QED
  BY <1>9, <1>11 DEF Kept

\* One field of a route's record changes, and not whom its end is told to.
LEMMA RouteField ==
  ASSUME TypeOK, NEW t \in Trains, NEW r \in RouteRecords,
         r.reply_tid = route[t].reply_tid, route' = [route EXCEPT ![t] = r]
  PROVE  /\ route' \in [Trains -> RouteRecords]
         /\ \A x \in Trains : route'[x].reply_tid = route[x].reply_tid
<1>1. route \in [Trains -> RouteRecords]
  BY Typed
<1>2. \A x \in Trains : route'[x] = IF x = t THEN r ELSE route[x]
  BY <1>1
<1>3. route' \in [Trains -> RouteRecords]
  BY <1>1
<1>4. QED
  BY <1>2, <1>3

\* Where the sensor is, on the path of the route or off it.
LEMMA PathTyped ==
  ASSUME TypeOK, NEW t \in Trains, Slow(Tail(work)), SensorOnPath(t) \/ SensorOffPath(t)
  PROVE  /\ route' \in [Trains -> RouteRecords]
         /\ \A x \in Trains : route'[x].reply_tid = route[x].reply_tid
         /\ \E u : Quiet(u) /\ (work' = u \o Tail(work) \/ (u = << >> /\ work' = Tail(work)))
<1>1. route \in [Trains -> RouteRecords] /\ route[t] \in RouteRecords
  BY Typed
<1>2. CASE SensorOnPath(t)
  <2>1. PICK errors \in {0, route[t].errors} :
          route' = [route EXCEPT ![t].started = TRUE, ![t].errors = errors]
    BY <1>2 DEF SensorOnPath
  <2> DEFINE r == [route[t] EXCEPT !.started = TRUE, !.errors = errors]
  <2>2. route' = [route EXCEPT ![t] = r]
    BY <1>1, <2>1
  <2>3. errors \in 0 .. MaxErrors - 1
    BY <1>1, <2>1, SpeedAssumption DEF RouteRecords
  <2>4. r \in RouteRecords /\ r.reply_tid = route[t].reply_tid
    BY <1>1, <2>3 DEF RouteRecords
  <2> HIDE DEF r
  <2>5. work' = Tail(work)
    BY <1>2 DEF SensorOnPath
  <2>6. QED
    BY <2>2, <2>4, <2>5, RouteField, NoneOwed
<1>3. CASE work' = Tail(work) /\ UNCHANGED route
  BY <1>1, <1>3, NoneOwed
<1>4. CASE /\ route[t].errors + 1 < MaxErrors
           /\ route' = [route EXCEPT ![t].errors = @ + 1] /\ work' = Tail(work)
  <2> DEFINE r == [route[t] EXCEPT !.errors = @ + 1]
  <2>1. route' = [route EXCEPT ![t] = r]
    BY <1>1, <1>4
  <2>2. route[t].errors + 1 \in 0 .. MaxErrors - 1
    BY <1>1, <1>4, SpeedAssumption DEF RouteRecords
  <2>3. r \in RouteRecords /\ r.reply_tid = route[t].reply_tid
    BY <1>1, <2>2 DEF RouteRecords
  <2> HIDE DEF r
  <2>4. QED
    BY <1>4, <2>1, <2>3, RouteField, NoneOwed
<1>5. CASE Replan(t, Tail(work))
  BY <1>5, ReplanTyped
<1>6. QED
  BY <1>2, <1>3, <1>4, <1>5 DEF SensorOffPath

\* A train is where the sensor is.
LEMMA SensorUpdateKept ==
  ASSUME IInv, Kept, SensorUpdate
  PROVE  Kept'
<1>a. PICK t : t = Head(work).train
  OBVIOUS
<1> DEFINE p == [profile[t] EXCEPT !.located = TRUE]
<1>1. /\ TypeOK /\ FastOK /\ StandsOK /\ work # << >> /\ Head(work).op = "hit"
      /\ profile' = [profile EXCEPT ![t].located = TRUE]
      /\ SensorOnPath(t) \/ SensorOffPath(t)
      /\ UNCHANGED <<inbox, request, task, rail>>
  BY <1>a DEF SensorUpdate, Doing, Kept
<1>2. Slow(Tail(work)) /\ Head(work) \in Steps
  BY <1>1, SlowRest
<1>3. t \in Trains /\ \A c \in Callers : ~Owing(Head(work), c)
  BY <1>1, <1>2, <1>a DEF Steps, Owing
<1>4. /\ route' \in [Trains -> RouteRecords]
      /\ \A x \in Trains : route'[x].reply_tid = route[x].reply_tid
      /\ \E u : Quiet(u) /\ (work' = u \o Tail(work) \/ (u = << >> /\ work' = Tail(work)))
  BY <1>1, <1>2, <1>3, PathTyped
<1>5. PICK u : Quiet(u) /\ (work' = u \o Tail(work) \/ (u = << >> /\ work' = Tail(work)))
  BY <1>4
<1>6. Silent(u) /\ Slow(u)
  BY <1>5 DEF Quiet
<1>7. CallsOK'
  BY <1>1, <1>3, <1>4, <1>5, <1>6, Unfinished
<1>8. Slow(work')
  <2>1. Slow(u \o Tail(work))
    BY <1>2, <1>6, Pushed
  <2>2. QED
    BY <1>2, <1>5, <2>1
<1>9. profile[t] \in SpeedRecords /\ task[t] \in TaskRecords /\ task = [task EXCEPT ![t] = task[t]]
  BY <1>1, <1>3, RecordsOf
<1>10. /\ profile' = [profile EXCEPT ![t] = p] /\ task' = [task EXCEPT ![t] = task[t]]
       /\ p \in SpeedRecords /\ p.current_speed = profile[t].current_speed
  BY <1>1, <1>9 DEF SpeedRecords
<1>11. task[t].at \in {"reversing", "resetting", "reset", "restoring"}
         => p.current_speed = 0
  <2>1. task[t].at \in {"reversing", "resetting", "reset", "restoring"}
          => profile[t].current_speed = 0
    BY <1>1, <1>3 DEF StandsOK
  <2>2. QED
    BY <1>10, <2>1
<1>12. inbox' \in Seq(Senders) /\ work' \in Seq(Steps) /\ UNCHANGED <<request, rail>>
  BY <1>1, <1>8, Typed DEF Slow
<1> HIDE DEF p
<1>13. TypeOK' /\ StandsOK'
  BY <1>1, <1>3, <1>4, <1>9, <1>10, <1>11, <1>12, TrainKept
<1>14. FastOK'
  BY <1>8 DEF Slow, FastOK
<1>15. QED
  BY <1>7, <1>13, <1>14 DEF Kept

\* A train pauses.
LEMMA PauseKept ==
  ASSUME IInv, Kept, PauseTrain
  PROVE  Kept'
<1>a. PICK t : t = Head(work).train
  OBVIOUS
<1> DEFINE p == [profile[t] EXCEPT !.paused = TRUE]
<1>1. /\ TypeOK /\ FastOK /\ StandsOK /\ work # << >> /\ Head(work).op = "pause"
      /\ profile' = [profile EXCEPT ![t].paused = TRUE]
      /\ work' = Tail(work)
      /\ UNCHANGED <<route, inbox, request, task, rail>>
  BY <1>a DEF PauseTrain, Doing, Kept
<1>2. Slow(work') /\ Head(work) \in Steps
  BY <1>1, SlowRest
<1>3. t \in Trains /\ \A c \in Callers : ~Owing(Head(work), c)
  BY <1>1, <1>2, <1>a DEF Steps, Owing
<1>4. CallsOK'
  BY <1>1, <1>3, NoneOwed, Unfinished
<1>5. profile[t] \in SpeedRecords /\ task[t] \in TaskRecords /\ task = [task EXCEPT ![t] = task[t]]
  BY <1>1, <1>3, RecordsOf
<1>6. /\ profile' = [profile EXCEPT ![t] = p] /\ task' = [task EXCEPT ![t] = task[t]]
      /\ p \in SpeedRecords /\ p.current_speed = profile[t].current_speed
  BY <1>1, <1>5 DEF SpeedRecords
<1>7. task[t].at \in {"reversing", "resetting", "reset", "restoring"}
         => p.current_speed = 0
  <2>1. task[t].at \in {"reversing", "resetting", "reset", "restoring"}
          => profile[t].current_speed = 0
    BY <1>1, <1>3 DEF StandsOK
  <2>2. QED
    BY <1>6, <2>1
<1>8. /\ inbox' \in Seq(Senders) /\ work' \in Seq(Steps) /\ UNCHANGED <<request, rail>>
      /\ route' \in [Trains -> RouteRecords]
  BY <1>1, <1>2, Typed DEF Slow
<1> HIDE DEF p
<1>9. TypeOK' /\ StandsOK'
  BY <1>1, <1>3, <1>5, <1>6, <1>7, <1>8, TrainKept
<1>10. FastOK'
  BY <1>2 DEF Slow, FastOK
<1>11. QED
  BY <1>4, <1>9, <1>10 DEF Kept

\* A train that paused starts again: it stands, and the speed is given at once.
LEMMA ReserveKept ==
  ASSUME IInv, Kept, ReserveTrack
  PROVE  Kept'
<1>a. PICK t : t = Head(work).train
  OBVIOUS
<1> DEFINE p == [profile[t] EXCEPT !.paused = FALSE]
<1>1. /\ TypeOK /\ FastOK /\ StandsOK /\ work # << >> /\ Head(work).op = "reserve"
      /\ UNCHANGED <<route, inbox, request, task, rail>>
  BY DEF ReserveTrack, Doing, Kept
<1>2. Slow(Tail(work)) /\ Head(work) \in Steps
  BY <1>1, SlowRest
<1>3. t \in Trains /\ \A c \in Callers : ~Owing(Head(work), c)
  BY <1>1, <1>2, <1>a DEF Steps, Owing
<1>4. Head(work).op \notin {"answer", "hold"} /\ route' \in [Trains -> RouteRecords]
  BY <1>1, Typed
<1>5. CASE UNCHANGED profile /\ work' = Tail(work)
  BY <1>1, <1>4, <1>5, NoneOwed, UnfinishedKept
<1>6. ASSUME NEW status \in {"ok", "refused", "too big"}, NEW elapsed \in BOOLEAN,
             UNCHANGED profile, work' = <<Drive(t, status, elapsed)>> \o Tail(work)
      PROVE  Kept'
  <2>1. Quiet(<<Drive(t, status, elapsed)>>)
    BY <1>3, QuietSteps
  <2>2. QED
    BY <1>1, <1>4, <1>6, <2>1, UnfinishedKept
<1>7. ASSUME profile[t].paused, profile' = [profile EXCEPT ![t].paused = FALSE],
             work' = <<SetSpeed(t, profile[t].previous_speed_index), Drive(t, "ok", FALSE)>>
                     \o Tail(work)
      PROVE  Kept'
  <2>a. PICK one : one = SetSpeed(t, profile[t].previous_speed_index)
    OBVIOUS
  <2>b. PICK two : two = Drive(t, "ok", FALSE)
    OBVIOUS
  <2> DEFINE u == <<one, two>>
  <2>1. profile[t].current_speed = 0
    BY <1>3, <1>7 DEF IInv, Agrees
  <2>2. one \in Steps /\ two \in Steps /\ ~Fast(two) /\ one.train = t
    <3>1. one \in Steps
      BY <1>1, <1>3, <2>a, IndicesOf, QuietSteps
    <3>2. two \in Steps /\ ~Fast(two) /\ one.train = t
      BY <1>3, <2>a, <2>b DEF Steps, Drive, Fast, SetSpeed
    <3>3. QED
      BY <3>1, <3>2
  <2>3. \A c \in Callers : ~Owing(one, c) /\ ~Owing(two, c)
    BY <2>a, <2>b DEF Owing, SetSpeed, Drive
  <2>4. u \in Seq(Steps) /\ DOMAIN u = {1, 2} /\ u[1] = one /\ u[2] = two
    BY <2>2
  <2>5. work' = u \o Tail(work)
    BY <1>7, <2>a, <2>b
  <2> HIDE DEF u
  <2>6. Silent(u)
    BY <2>3, <2>4 DEF Silent
  <2>7. CallsOK'
    BY <1>1, <1>3, <2>5, <2>6, Unfinished
  <2>8. profile[t] \in SpeedRecords /\ task[t] \in TaskRecords /\ task = [task EXCEPT ![t] = task[t]]
    BY <1>1, <1>3, RecordsOf
  <2>9. /\ profile' = [profile EXCEPT ![t] = p] /\ task' = [task EXCEPT ![t] = task[t]]
        /\ p \in SpeedRecords /\ p.current_speed = profile[t].current_speed
    BY <1>1, <1>7, <2>8 DEF SpeedRecords
  <2>10. /\ work' \in Seq(Steps)
         /\ \A i \in DOMAIN work' : Fast(work'[i]) => i \in DOMAIN u /\ work'[i] = u[i]
    BY <1>2, <2>5, <2>6, Pushed
  <2>11. inbox' \in Seq(Senders) /\ UNCHANGED <<request, rail>>
    BY <1>1, Typed
  <2>12. profile'[t].current_speed = 0
    <3>1. profile \in [Trains -> SpeedRecords]
      BY <1>1 DEF TypeOK, SpeedRecords
    <3> HIDE DEF p
    <3>2. profile'[t] = p
      BY <1>3, <2>9, <3>1
    <3>3. QED
      BY <2>1, <2>9, <3>2
  <2> HIDE DEF p
  <2>13. TypeOK' /\ StandsOK'
    BY <1>1, <1>3, <1>4, <2>1, <2>8, <2>9, <2>10, <2>11, TrainKept
  <2>14. FastOK'
    BY <2>2, <2>4, <2>10, <2>12 DEF FastOK
  <2>15. QED
    BY <2>7, <2>13, <2>14 DEF Kept
<1>8. \/ UNCHANGED profile /\ work' = Tail(work)
      \/ \E status \in {"ok", "refused", "too big"}, elapsed \in BOOLEAN :
           UNCHANGED profile /\ work' = <<Drive(t, status, elapsed)>> \o Tail(work)
      \/ /\ profile[t].paused /\ profile' = [profile EXCEPT ![t].paused = FALSE]
         /\ work' = <<SetSpeed(t, profile[t].previous_speed_index), Drive(t, "ok", FALSE)>>
                    \o Tail(work)
  <2>1. CASE ~profile[t].located
    BY <1>a, <2>1 DEF ReserveTrack
  <2>2. CASE profile[t].located
    <3>1. PICK status \in {"ok", "refused", "too big"},
               elapsed \in IF profile[t].paused THEN BOOLEAN ELSE {FALSE} :
            IF status = "ok" /\ elapsed /\ profile[t].speed_index = 0
            THEN /\ profile' = [profile EXCEPT ![t].paused = FALSE]
                 /\ work' = <<SetSpeed(t, profile[t].previous_speed_index),
                              Drive(t, status, FALSE)>> \o Tail(work)
            ELSE /\ work' = <<Drive(t, status, elapsed)>> \o Tail(work)
                 /\ UNCHANGED profile
      BY <1>a, <2>2, Zenon DEF ReserveTrack
    <3>2. elapsed \in BOOLEAN /\ (elapsed => profile[t].paused)
      BY <3>1, Zenon
    <3>3. CASE status = "ok" /\ elapsed /\ profile[t].speed_index = 0
      BY <3>1, <3>2, <3>3, Zenon
    <3>4. CASE ~(status = "ok" /\ elapsed /\ profile[t].speed_index = 0)
      BY <3>1, <3>2, <3>4, Zenon
    <3>5. QED
      BY <3>3, <3>4
  <2>3. QED
    BY <2>1, <2>2
<1>9. QED
  BY <1>5, <1>6, <1>7, <1>8

\* A speed that is none is only given to a train that stands: no index is too high.
LEMMA SpeedTyped ==
  ASSUME NEW p \in SpeedRecords, NEW s \in Indices, s > MaxSpeed => p.current_speed = 0
  PROVE  AfterSpeed(p, s) \in SpeedRecords
<1>1. CASE s = p.current_speed
  BY <1>1 DEF AfterSpeed
<1>2. CASE s # p.current_speed
  <2> DEFINE index == IF s # 0 /\ s < p.current_speed THEN MaxSpeed + s ELSE s
  <2>1. /\ s \in Int /\ MaxSpeed \in Nat /\ p.current_speed \in Int
        /\ s >= 0 /\ s <= 2 * MaxSpeed
    BY SpeedAssumption DEF Indices, SpeedRecords
  <2>2. s < p.current_speed => s <= MaxSpeed
    BY <2>1
  <2>3. index \in Indices
    BY <2>1, <2>2 DEF Indices
  <2>4. AfterSpeed(p, s) = [p EXCEPT !.current_speed = s,
                                     !.previous_speed_index = p.speed_index,
                                     !.paused = p.paused /\ s = 0, !.speed_index = index]
    BY <1>2 DEF AfterSpeed
  <2> HIDE DEF index
  <2>5. (p.paused /\ s = 0) \in BOOLEAN /\ p.speed_index \in Indices
    BY DEF SpeedRecords
  <2>6. QED
    BY <2>3, <2>4, <2>5 DEF SpeedRecords
<1>3. QED
  BY <1>1, <1>2

\* The speed is handed to the train's task.
LEMMA SetSpeedKept ==
  ASSUME IInv, Kept, TrainSetSpeed
  PROVE  Kept'
<1>a. PICK t : t = Head(work).train
  OBVIOUS
<1>b. PICK s : s = Head(work).speed
  OBVIOUS
<1> DEFINE p == AfterSpeed(profile[t], s)
           k == [at |-> "speed", data |-> s]
<1>1. /\ TypeOK /\ FastOK /\ StandsOK /\ work # << >> /\ Head(work).op = "speed"
      /\ task' = [task EXCEPT ![t] = k]
      /\ profile' = [profile EXCEPT ![t] = AfterSpeed(@, s)]
      /\ work' = Tail(work)
      /\ UNCHANGED <<route, inbox, request, rail>>
  BY <1>a, <1>b DEF TrainSetSpeed, Doing, Kept
<1>2. Slow(work') /\ Head(work) \in Steps /\ Head(work) = work[1]
  BY <1>1, SlowRest
<1>3. t \in Trains /\ s \in Indices /\ \A c \in Callers : ~Owing(Head(work), c)
  BY <1>1, <1>2, <1>a, <1>b DEF Steps, Owing
<1>4. CallsOK'
  BY <1>1, <1>3, NoneOwed, Unfinished
<1>5. profile \in [Trains -> SpeedRecords] /\ profile[t] \in SpeedRecords
  BY <1>1, <1>3 DEF TypeOK, SpeedRecords
<1>6. s > MaxSpeed => profile[t].current_speed = 0
  <2>1. work \in Seq(Steps) /\ 1 \in DOMAIN work
    <3>1. work \in Seq(Steps)
      BY <1>1, Typed
    <3>2. QED
      BY <1>1, <3>1
  <2>2. QED
    BY <1>1, <1>2, <1>a, <1>b, <2>1 DEF FastOK, Fast
<1>7. p \in SpeedRecords /\ profile' = [profile EXCEPT ![t] = p]
  BY <1>1, <1>3, <1>5, <1>6, SpeedTyped
<1>8. k \in TaskRecords /\ (k.at \in {"reversing", "resetting", "reset", "restoring"}
                              => p.current_speed = 0)
  BY <1>3 DEF TaskRecords
<1>9. /\ inbox' \in Seq(Senders) /\ work' \in Seq(Steps) /\ request' = request /\ rail' = rail
      /\ route' \in [Trains -> RouteRecords] /\ task' = [task EXCEPT ![t] = k]
  BY <1>1, <1>2, Typed DEF Slow
<1> HIDE DEF p, k
<1>10. TypeOK' /\ StandsOK'
  BY <1>1, <1>3, <1>7, <1>8, <1>9, TrainKept
<1>11. FastOK'
  BY <1>2 DEF Slow, FastOK
<1>12. QED
  BY <1>4, <1>10, <1>11 DEF Kept

\* The train was stopped before its reversal is handed to its task.
LEMMA SendReverseKept ==
  ASSUME IInv, Kept, SendReverse
  PROVE  Kept'
<1>a. PICK t : t = Head(work).train
  OBVIOUS
<1>b. PICK s : s = Head(work).speed
  OBVIOUS
<1> DEFINE k == [at |-> "reversing", data |-> s]
<1>1. /\ TypeOK /\ FastOK /\ StandsOK /\ work # << >> /\ Head(work).op = "reverse"
      /\ task' = [task EXCEPT ![t] = k]
      /\ work' = Tail(work)
      /\ UNCHANGED <<profile, route, inbox, request, rail>>
  BY <1>a, <1>b DEF SendReverse, Doing, Kept
<1>2. Slow(work') /\ Head(work) \in Steps /\ Head(work) = work[1]
  BY <1>1, SlowRest
<1>3. t \in Trains /\ s \in Indices /\ \A c \in Callers : ~Owing(Head(work), c)
  BY <1>1, <1>2, <1>a, <1>b DEF Steps, Owing
<1>4. CallsOK'
  BY <1>1, <1>3, NoneOwed, Unfinished
<1>5. profile[t].current_speed = 0
  BY <1>1, <1>2, <1>a DEF IInv, WorkOK, Standing
<1>6. profile[t] \in SpeedRecords /\ profile' = [profile EXCEPT ![t] = profile[t]]
  BY <1>1, <1>3, RecordsOf
<1>7. k \in TaskRecords
  BY <1>3 DEF TaskRecords
<1>8. /\ inbox' \in Seq(Senders) /\ work' \in Seq(Steps) /\ request' = request /\ rail' = rail
      /\ route' \in [Trains -> RouteRecords] /\ task' = [task EXCEPT ![t] = k]
  BY <1>1, <1>2, Typed DEF Slow
<1> HIDE DEF k
<1>9. TypeOK' /\ StandsOK'
  BY <1>1, <1>3, <1>5, <1>6, <1>7, <1>8, TrainKept
<1>10. FastOK'
  BY <1>2 DEF Slow, FastOK
<1>11. QED
  BY <1>4, <1>9, <1>10 DEF Kept

\* The steps of a train's task.
LEMMA RunTaskKept ==
  ASSUME IInv, Kept, NEW t \in Trains, RunTask(t)
  PROVE  Kept'
<1>1. /\ TypeOK /\ FastOK /\ StandsOK /\ CallsOK
      /\ UNCHANGED <<profile, route, work, request>>
  BY DEF Kept, RunTask, CommandSpeed, CommandReverse, RestoreSpeed
<1>2. rail' \in [Trains -> Rails]
  BY RunTaskOK DEF IInv, Types
<1>3. profile[t] \in SpeedRecords /\ task[t] \in TaskRecords
      /\ profile' = [profile EXCEPT ![t] = profile[t]]
  BY <1>1, RecordsOf
<1>4. CallsOK' /\ inbox' \in Seq(Senders)
  <2>1. CASE inbox' = inbox
    <3>1. Like(work', work)
      BY <1>1 DEF Like
    <3>2. QED
      BY <1>1, <2>1, <3>1, SameCalls, Typed
  <2>2. CASE inbox' = Append(inbox, Task(t))
    BY <1>1, <2>2, TaskSends
  <2>3. QED
    BY <2>1, <2>2 DEF RunTask, CommandSpeed, CommandReverse, RestoreSpeed
<1>5. \E k \in TaskRecords :
         /\ task' = [task EXCEPT ![t] = k]
         /\ k.at \in {"reversing", "resetting", "reset", "restoring"}
              => task[t].at \in {"reversing", "resetting", "reset"}
  <2>1. CASE CommandSpeed(t)
    <3>1. Receiving \in TaskRecords /\ Receiving.at = "receive"
      BY SpeedSets DEF Receiving, TaskRecords
    <3>2. QED
      BY <2>1, <3>1 DEF CommandSpeed
  <2>2. CASE CommandReverse(t)
    <3> DEFINE k == [task[t] EXCEPT !.at = "resetting"]
    <3>1. k \in TaskRecords
      BY <1>3 DEF TaskRecords
    <3>2. task' = [task EXCEPT ![t] = k] /\ task[t].at = "reversing"
      BY <2>2 DEF CommandReverse
    <3>3. QED
      BY <3>1, <3>2
  <2>3. CASE RestoreSpeed(t)
    <3> DEFINE k == [task[t] EXCEPT !.at = "restoring"]
    <3>1. k \in TaskRecords
      BY <1>3 DEF TaskRecords
    <3>2. task' = [task EXCEPT ![t] = k] /\ task[t].at = "reset"
      BY <2>3 DEF RestoreSpeed
    <3>3. QED
      BY <3>1, <3>2
  <2>4. QED
    BY <2>1, <2>2, <2>3 DEF RunTask
<1>6. PICK k \in TaskRecords :
         /\ task' = [task EXCEPT ![t] = k]
         /\ k.at \in {"reversing", "resetting", "reset", "restoring"}
              => task[t].at \in {"reversing", "resetting", "reset"}
  BY <1>5
<1>7. k.at \in {"reversing", "resetting", "reset", "restoring"} => profile[t].current_speed = 0
  BY <1>1, <1>6 DEF StandsOK
<1>8. /\ work' \in Seq(Steps) /\ route' \in [Trains -> RouteRecords] /\ request' = request
  BY <1>1, Typed
<1>9. TypeOK' /\ StandsOK'
  BY <1>1, <1>2, <1>3, <1>4, <1>6, <1>7, <1>8, TrainKept
<1>10. FastOK'
  BY <1>1 DEF FastOK
<1>11. QED
  BY <1>4, <1>9, <1>10 DEF Kept

-----------------------------------------------------------------------------
(* The specification.                                                      *)

\* At the start nobody is owed anything.
LEMMA InitKept == Init => Kept
<1> SUFFICES ASSUME Init PROVE Kept
  OBVIOUS
<1>1. PICK given \in SUBSET Trains :
      /\ profile = [t \in Trains |->
           [current_speed |-> 0, speed_index |-> 0, previous_speed_index |-> 0,
            direction |-> "straight", paused |-> FALSE, located |-> t \in given]]
      /\ route = [t \in Trains |->
           [on |-> FALSE, started |-> FALSE, reversals |-> 0, errors |-> 0,
            reply_tid |-> NoTask]]
      /\ work = << >> /\ inbox = << >> /\ request = [c \in Callers |-> NoCall]
      /\ task = [t \in Trains |-> Receiving]
      /\ rail = [t \in Trains |-> [speed |-> 0, facing |-> "straight"]]
  BY DEF Init
<1>2. /\ 0 \in Speeds /\ 0 \in Indices /\ 0 \in 0 .. MaxReversals /\ 0 \in 0 .. MaxErrors - 1
  BY SpeedSets, SpeedAssumption
<1>3. TypeOK
  BY <1>1, <1>2 DEF TypeOK, Receiving
<1>4. FastOK /\ StandsOK
  BY <1>1 DEF FastOK, StandsOK, Receiving
<1>5. CallsOK
  <2>1. ASSUME NEW c \in Callers PROVE CallIs(c, inbox, work, request[c], Routes(c))
    <3>1. Routes(c) = {} /\ request[c] = NoCall
      BY <1>1, CallerNames DEF Routes
    <3>2. ~QueuedIn(inbox, c) /\ QueuedOnce(inbox, c)
      BY <1>1 DEF QueuedIn, QueuedOnce
    <3>3. ~Owes(work, c) /\ Once(work, c) /\ HoldsOK(work, c, NoCall.train)
      BY <1>1, NoneOwed, SilentOwes DEF Quiet
    <3>4. QED
      BY <3>1, <3>2, <3>3 DEF CallIs
  <2>2. QED
    BY <2>1 DEF CallsOK
<1>6. QED
  BY <1>3, <1>4, <1>5 DEF Kept

\* Every step keeps it so.
LEMMA StepKept == IInv /\ Kept /\ [Next]_vars => Kept'
<1> SUFFICES ASSUME IInv, Kept, [Next]_vars PROVE Kept'
  OBVIOUS
<1>1. CASE UNCHANGED vars
  <2>1. UNCHANGED <<profile, route, work, inbox, request, task, rail>>
    BY <1>1 DEF vars
  <2>2. TypeOK' /\ FastOK' /\ StandsOK'
    BY <2>1 DEF Kept, TypeOK, FastOK, StandsOK
  <2>3. CallsOK'
    BY <2>1 DEF Kept, CallsOK, Routes
  <2>4. QED
    BY <2>2, <2>3 DEF Kept
<1>2. ASSUME NEW c \in Callers, MakeCall(c) PROVE Kept'
  BY <1>2, MakeCallKept
<1>3. CASE Serve
  <2>1. ASSUME NEW c \in Callers,
               \/ SpeedMessage(c) \/ ReverseMessage(c)
               \/ RouteRefused(c) \/ RouteMessage(c) \/ RouteFails(c)
               \/ RouteStopRefused(c) \/ RouteStopMessage(c)
        PROVE  Kept'
    BY <2>1, SpeedKept, ReverseKept, RefusedKept, RouteKept, RouteFailsKept, RouteStopKept
  <2>2. ASSUME NEW t \in Trains, RestoreMessage(t) \/ ReverseResetMessage(t) PROVE Kept'
    BY <2>2, RestoreKept, ResetKept
  <2> QED
    BY <1>3, <2>1, <2>2 DEF Serve
<1>4. CASE Work
  <2>1. CASE \/ TrainSetSpeed \/ SendReverse \/ SendAnswer \/ HoldAnswer \/ FinishRoute
             \/ SensorUpdate \/ ReserveTrack \/ PauseTrain
    BY <2>1, SetSpeedKept, SendReverseKept, SendAnswerKept, HoldAnswerKept, FinishRouteKept,
       SensorUpdateKept, ReserveKept, PauseKept
  <2>2. ASSUME NEW t \in Trains,
               Arrive(t) \/ TurnBack(t) \/ Halt(t) \/ Reroute(t) \/ RollOn(t)
        PROVE  Kept'
    BY <2>2, DriveKept
  <2> QED
    BY <1>4, <2>1, <2>2 DEF Work
<1>5. ASSUME NEW t \in Trains, RunTask(t) PROVE Kept'
  BY <1>5, RunTaskKept
<1> QED
  BY <1>1, <1>2, <1>3, <1>4, <1>5, SensorKept DEF Next

\* With the list, the queue and the routes so, whoever is answered has called.
LEMMA Matched == Kept => AnswersMatchCalls
<1>1. SUFFICES ASSUME Kept PROVE AnswersMatchCalls
  OBVIOUS
<1>2. TypeOK /\ CallsOK
  BY <1>1 DEF Kept
<1>3. ASSUME NEW c \in Callers
      PROVE  /\ request[c] = NoCall => Times(c) = {} /\ Answers(c) = {} /\ Routes(c) = {}
             /\ \A i, j \in Times(c) : i = j
             /\ \A i, j \in Answers(c) : i = j
             /\ Times(c) # {} => Answers(c) = {} /\ Routes(c) = {}
             /\ Answers(c) # {} => Routes(c) = {}
             /\ Routes(c) \subseteq {request[c].train}
             /\ c \in {Cli, CabService} /\ request[c] # NoCall
                  => Times(c) # {} \/ Answers(c) # {}
  <2>1. CallIs(c, inbox, work, request[c], Routes(c))
    BY <1>2, <1>3 DEF CallsOK
  <2>2. /\ Times(c) # {} <=> QueuedIn(inbox, c)
        /\ Answers(c) # {} <=> Owes(work, c)
    BY DEF Times, Answers, QueuedIn, Owes, Owing
  <2>3. QueuedOnce(inbox, c) => \A i, j \in Times(c) : i = j
    BY DEF QueuedOnce, Times
  <2>4. Once(work, c) => \A i, j \in Answers(c) : i = j
    BY DEF Once, Answers, Owing
  <2>5. QED
    BY <2>1, <2>2, <2>3, <2>4 DEF CallIs
<1>4. QED
  BY <1>2, <1>3 DEF AnswersMatchCalls

\* Whom a handler answers, and when, besides what is so of the trains.
THEOREM InductiveCalls == Spec => [](IInv /\ Kept)
<1>1. Init => IInv /\ Kept
  BY InitOK, InitKept
<1>2. (IInv /\ Kept) /\ [Next]_vars => (IInv /\ Kept)'
  BY StepOK, StepKept
<1>3. QED
  BY <1>1, <1>2, PTL DEF Spec

\* However calls, reports, reversals and routes interleave, and wherever the
\* controller is stuck, nobody is answered who did not call, twice, or with the end of
\* an earlier route; and no index used as a speed leads past the speed tables.
THEOREM AnswersMatch == Spec => []AnswersMatchCalls
<1>1. Kept => AnswersMatchCalls
  BY Matched
<1>2. QED
  BY <1>1, InductiveCalls, PTL
=============================================================================
