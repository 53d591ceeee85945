-------------------------------- MODULE Boot --------------------------------
(***************************************************************************)
(* How the system starts (tasks/first_task.c, tasks/name_server.c and the  *)
(* first lines of every task's entry function).                            *)
(*                                                                         *)
(* The tasks find each other by name, and a name that is looked up too     *)
(* soon stops the system: nothing but the priorities, and the order in     *)
(* which tasks of one priority are made, sees to it that servers register  *)
(* first.  Here every task is the sequence of system calls of its entry    *)
(* function, up to and with its loop, and they run as the kernel runs them *)
(* (see Kernel): the head of the highest ready queue that is not empty     *)
(* makes one call, and goes to the back of its queue unless it blocks.     *)
(*                                                                         *)
(* Calls that are always answered at once are one step: those to the name  *)
(* server, Putc, and the request of a Delay.  Their servers run at a       *)
(* higher priority than the caller, or take messages in order.             *)
(***************************************************************************)
EXTENDS Naturals, Sequences, FiniteSets, SequencesExt

CONSTANTS
  Turnouts,         \* bound: the turn-outs set, 22 in switch_server.c
  LeftOver,         \* bound: the bytes left over on UART1 from before
  MaxPreemptions    \* bound: the interrupts that take a running task's turn

ASSUME BootAssumption ==
  Turnouts \in Nat \ {0} /\ LeftOver \in Nat /\ MaxPreemptions \in Nat

-----------------------------------------------------------------------------
(* System calls.                                                           *)

Create(t)   == [op |-> "Create",   arg |-> t]
RegisterAs  == [op |-> "Register", arg |-> "-"]
WhoIs(name) == [op |-> "WhoIs",    arg |-> name]
Send(t)     == [op |-> "Send",     arg |-> t]
Receive     == [op |-> "Receive",  arg |-> "-"]
Reply       == [op |-> "Reply",    arg |-> "-"]
Delay       == [op |-> "Delay",    arg |-> "-"]
Getc(event) == [op |-> "Getc",     arg |-> event]
Putc(event) == [op |-> "Putc",     arg |-> event]
AwaitEvent(event) == [op |-> "AwaitEvent", arg |-> event]
Exit        == [op |-> "Exit",     arg |-> "-"]
\* The drain loop of the sensor worker: Receive, and Reply to all but one task.
Drain(t)    == [op |-> "Drain",    arg |-> t]
\* A wait whose end is not part of starting: a courier that listens, say.
Wait        == [op |-> "Wait",     arg |-> "-"]

Repeat(call, n) == [i \in 1 .. n |-> call]
Lookups(names)  == [i \in DOMAIN names |-> WhoIs(names[i])]

(* What each task does before its loop.                                    *)

CreateNotifier(n) == <<Create(n), Send(n)>>

FirstTask    == <<Create("name_server"), Create("uart_server"), Create("clock_server"),
                  Create("train_command"), Create("sensor_server"),
                  Create("switch_server"), Create("term_server"),
                  Create("track_server"), Create("main_task")>>
UartServer   == CreateNotifier("rx1") \o CreateNotifier("tx1") \o
                CreateNotifier("rx2") \o CreateNotifier("tx2") \o
                Repeat(Receive, 4) \o <<RegisterAs>>
Notifier     == <<Receive, Reply>>
ClockServer  == CreateNotifier("timer") \o <<Receive, Reply, RegisterAs>>
TrainCommand == <<RegisterAs>> \o Lookups(<<"clock_server", "uart_server">>)
SensorServer == <<RegisterAs, Create("worker")>>
Worker       == Lookups(<<"train_command", "uart_server", "clock_server">>) \o
                <<Create("clock_helper"), Create("getc_helper"),
                  Receive, Reply, Drain("clock_helper")>>
ClockHelper  == <<WhoIs("clock_server"), Send("worker"), Delay>>
GetcHelper   == <<WhoIs("uart_server")>>
SwitchServer == <<RegisterAs>> \o Lookups(<<"train_command", "clock_server">>) \o
                Repeat(Send("train_command"), Turnouts) \o
                <<Delay, Send("train_command")>>
TermServer   == <<RegisterAs, WhoIs("uart_server")>>
TrackServer  == <<RegisterAs, WhoIs("switch_server")>> \o
                Repeat(Send("switch_server"), Turnouts) \o <<Create("track_courier")>>
MainTask     == <<RegisterAs>> \o
                Lookups(<<"uart_server", "clock_server", "train_command",
                          "switch_server", "term_server", "track_server">>) \o
                <<Create("cli"), Create("time_task"), Create("train_controller"),
                  Create("cab_service"), Send("train_command"), Send("term_server"),
                  Create("position_printer"), Create("main_sensor_courier"),
                  Create("main_switch_courier")>>
CommandLine  == <<RegisterAs>> \o Lookups(<<"uart_server", "term_server">>) \o
                <<Send("term_server")>>
TimeTask     == <<RegisterAs, Delay>>
PositionPrinter == Lookups(<<"clock_server", "term_server", "track_server",
                             "train_controller">>)
TrainController == <<RegisterAs, Create("controller_courier")>> \o
                   Lookups(<<"clock_server", "term_server", "track_server">>) \o
                   <<Create("train41"), Send("train41"), Create("train35"),
                     Send("train35"), Create("train36"), Send("train36"),
                     Create("pinger")>>
TrainTask    == Lookups(<<"train_command", "clock_server", "train_controller">>)
                \o <<Receive, Reply>>
Pinger       == <<WhoIs("clock_server"), Delay>>
CabService   == <<RegisterAs>> \o
                Lookups(<<"train_controller", "main_task", "term_server",
                          "clock_server">>) \o
                <<Create("cab1"), Send("cab1"), Create("cab2"), Send("cab2")>>
CabCourier   == Lookups(<<"train_controller", "cab_service">>) \o <<Receive, Reply>>
SensorCourier == <<WhoIs("sensor_server")>>
SwitchCourier == <<WhoIs("switch_server")>>

Start == [
  first_task |-> FirstTask, name_server |-> << >>,
  uart_server |-> UartServer,
  rx1 |-> Notifier, tx1 |-> Notifier, rx2 |-> Notifier, tx2 |-> Notifier,
  clock_server |-> ClockServer, timer |-> Notifier \o <<Send("clock_server")>>,
  train_command |-> TrainCommand,
  sensor_server |-> SensorServer, worker |-> Worker,
  clock_helper |-> ClockHelper, getc_helper |-> GetcHelper,
  switch_server |-> SwitchServer, term_server |-> TermServer,
  track_server |-> TrackServer, track_courier |-> SwitchCourier,
  main_task |-> MainTask, cli |-> CommandLine, time_task |-> TimeTask,
  position_printer |-> PositionPrinter,
  main_sensor_courier |-> SensorCourier, main_switch_courier |-> SwitchCourier,
  train_controller |-> TrainController, controller_courier |-> SensorCourier,
  train41 |-> TrainTask, train35 |-> TrainTask, train36 |-> TrainTask,
  pinger |-> Pinger,
  cab_service |-> CabService, cab1 |-> CabCourier, cab2 |-> CabCourier]

Tasks == DOMAIN Start

\* Mutant: the server forgets its client.
ServingSilently(calls) == <<Receive>> \o calls

Serving(calls) == <<Receive>> \o calls \o <<Reply>>

\* A task's loop, as far as start-up drives it: servers serve, others wait.
Loop == [t \in Tasks |->
  CASE t = "first_task"    -> <<Exit>>
    [] t \in {"rx1", "tx1", "rx2", "tx2"} -> <<Send("uart_server")>>
    [] t = "timer"         -> <<AwaitEvent("timer")>>
    [] t = "train_command" -> Serving(<<Putc("tx1"), Delay>>)
    [] t = "term_server"   -> <<Receive, Reply, Putc("tx2")>>
    [] t \in {"switch_server", "train_controller"} -> Serving(<< >>)
    [] t \in {"name_server", "uart_server", "clock_server", "sensor_server",
              "track_server", "main_task", "cab_service", "cab1", "cab2",
              "train41", "train35", "train36"} -> <<Receive>>
    [] t = "worker"        -> <<Send("train_command"), Wait>>
    [] t = "getc_helper"   -> <<Getc("rx1"), Send("worker")>>
    [] t = "clock_helper"  -> <<Send("worker"), Wait>>
    [] t = "pinger"        -> <<Send("train_controller"), Wait>>
    [] t = "cli"           -> <<Getc("rx2")>>
    [] OTHER               -> <<Wait>>]

\* The tasks that register a name: their own.
Owners == {t \in Tasks : Contains(Start[t], RegisterAs)}

Program == [t \in Tasks |-> Start[t] \o Loop[t]]

\* The priorities the tasks are created with.
Highest == {"first_task", "name_server", "rx1", "tx1", "rx2", "tx2", "timer",
            "clock_helper", "getc_helper"}

\* Mutant: the track server is one of the first too.
HighWithTrackServer ==
  {"uart_server", "clock_server", "track_server", "worker", "track_courier",
   "main_sensor_courier", "main_switch_courier", "controller_courier"}

High    == {"uart_server", "clock_server", "worker", "track_courier",
            "main_sensor_courier", "main_switch_courier", "controller_courier"}

Priority == [t \in Tasks |->
  CASE t \in Highest -> 9
    [] t \in High    -> 8
    [] t \in {"train_command", "sensor_server", "switch_server", "track_server",
              "train41", "train35", "train36"} -> 7
    [] t = "term_server" -> 5
    [] t \in {"time_task", "position_printer", "cab_service"} -> 3
    [] OTHER -> 4]     \* PRIORITY_NORMAL

Priorities == 1 .. 9

VARIABLES
  pc,           \* the call a task makes next or is in; 0: not created
  state,        \* what it waits for, or "ready"
  ready_queue,  \* per priority
  send_queue,   \* per task, those whose messages it has to receive
  client,       \* per task, the sender it received from last
  registered,   \* the names the name server knows
  unknown,      \* history: names looked up in vain, which stops the caller
  armed,        \* the events a notifier waits for in AwaitEvent
  left,         \* bytes left over on UART1 that may still come
  preemptions,  \* counts the interrupts that took a running task's turn
  lost_turns    \* history: per task, those of them before it registered

vars == <<pc, state, ready_queue, send_queue, client, registered, unknown, armed,
          left, preemptions, lost_turns>>

Created(t)  == pc[t] > 0
Call(t)     == Program[t][pc[t]]
After(t)    == IF pc[t] = Len(Program[t]) THEN Len(Start[t]) + 1 ELSE pc[t] + 1
InLoop(t)   == pc[t] > Len(Start[t])
Delayed     == {t \in Tasks : state[t] = "Delay"}

\* The scheduler's queues.
Back(queues, t)  == [queues EXCEPT ![Priority[t]] = Append(@, t)]
Leave(t)         == [ready_queue EXCEPT ![Priority[t]] = Tail(@)]
Requeue(t)       == Back(Leave(t), t)
Busy             == {p \in Priorities : ready_queue[p] # << >>}
Idle             == Busy = {}

\* main() has made the first task.
Init ==
  /\ pc    = [t \in Tasks |-> IF t = "first_task" THEN 1 ELSE 0]
  /\ state = [t \in Tasks |-> IF t = "first_task" THEN "ready" ELSE "none"]
  /\ ready_queue = [p \in Priorities |->
                      IF p = Priority["first_task"] THEN <<"first_task">> ELSE << >>]
  /\ send_queue  = [t \in Tasks |-> << >>]
  /\ client      = [t \in Tasks |-> "none"]
  /\ registered  = {}
  /\ unknown     = {}
  /\ armed       = {}
  /\ left        = LeftOver
  /\ preemptions = 0
  /\ lost_turns  = [t \in Owners |-> 0]

-----------------------------------------------------------------------------
(* The system calls.                                                       *)

Running ==
  LET busy == Busy
  IN  {Head(ready_queue[p]) : p \in {q \in busy : \A r \in busy : r <= q}}

Makes(t, op) == Call(t).op = op

\* A call after which t goes on when its turn comes again.
GoesOn(t) ==
  /\ pc' = [pc EXCEPT ![t] = After(t)]
  /\ ready_queue' = Requeue(t)
  /\ UNCHANGED <<state, send_queue, client, left, preemptions, lost_turns>>

\* A call that blocks t until something else happens.
Blocks(t) ==
  /\ state' = [state EXCEPT ![t] = Call(t).op]
  /\ ready_queue' = Leave(t)
  /\ UNCHANGED <<pc, send_queue, client, registered, unknown, left, preemptions, lost_turns>>

\* The new task is queued before its creator.
CreateCall(t) ==
  LET new == Call(t).arg
  IN  /\ Makes(t, "Create")
      /\ pc'    = [pc EXCEPT ![t] = After(t), ![new] = 1]
      /\ state' = [state EXCEPT ![new] = "ready"]
      /\ ready_queue' = Back(Back(Leave(t), new), t)
      /\ UNCHANGED <<send_queue, client, registered, unknown, armed, left, preemptions, lost_turns>>

\* name_server_register.
RegisterCall(t) ==
  /\ Makes(t, "Register")
  /\ registered' = registered \cup {t}
  /\ lost_turns' = [lost_turns EXCEPT ![t] = 0]
  /\ pc' = [pc EXCEPT ![t] = After(t)]
  /\ ready_queue' = Requeue(t)
  /\ UNCHANGED <<state, send_queue, client, unknown, armed, left, preemptions>>

\* name_server_whois; a reply of 0 fails the AssertF in WhoIs.
WhoIsCall(t) ==
  /\ Makes(t, "WhoIs")
  /\ unknown' = unknown \cup ({Call(t).arg} \ registered)
  /\ GoesOn(t)
  /\ UNCHANGED <<registered, armed>>

\* The UART's notifier gets its reply, and waits for an interrupt.
PutcCall(t) ==
  /\ Makes(t, "Putc")
  /\ armed' = armed \cup {Call(t).arg}
  /\ GoesOn(t)
  /\ UNCHANGED <<registered, unknown>>

\* So it does for Getc, and the clock server's when somebody delays.
WaitCall(t) ==
  \/ /\ Makes(t, "Getc") \/ Makes(t, "AwaitEvent")
     /\ armed' = armed \cup {Call(t).arg}
     /\ Blocks(t)
  \/ /\ Makes(t, "Delay")
     /\ armed' = armed \cup {"timer"}
     /\ Blocks(t)
  \/ /\ Makes(t, "Wait") \/ Makes(t, "Exit")
     /\ armed' = armed
     /\ Blocks(t)

\* x receives from t: it goes on, except from the drain loop.
Receives(x, t) == Call(x).op = "Receive" \/ Call(x) = Drain(t)

\* Send to a task that is in Receive.
SendReceived(t) ==
  LET x == Call(t).arg
  IN  /\ Makes(t, "Send")
      /\ state[x] \in {"Receive", "Drain"}
      /\ Receives(x, t)
      /\ state'  = [state EXCEPT ![t] = "Send", ![x] = "ready"]
      /\ pc'     = [pc EXCEPT ![x] = After(x)]
      /\ client' = [client EXCEPT ![x] = t]
      /\ ready_queue' = Back(Leave(t), x)
      /\ UNCHANGED <<send_queue, registered, unknown, armed, left, preemptions, lost_turns>>

\* Send to the worker in its drain loop, which answers and goes on waiting.
SendDrained(t) ==
  /\ Makes(t, "Send")
  /\ state[Call(t).arg] = "Drain"
  /\ ~Receives(Call(t).arg, t)
  /\ GoesOn(t)
  /\ UNCHANGED <<registered, unknown, armed>>

\* Send to a task that is busy.
SendQueued(t) ==
  /\ Makes(t, "Send")
  /\ state[Call(t).arg] \notin {"Receive", "Drain"}
  /\ send_queue'  = [send_queue EXCEPT ![Call(t).arg] = Append(@, t)]
  /\ state'       = [state EXCEPT ![t] = "Send"]
  /\ ready_queue' = Leave(t)
  /\ UNCHANGED <<pc, client, registered, unknown, armed, left, preemptions, lost_turns>>

\* Receive, with a message there or without.
ReceiveCall(t) ==
  LET sender == Head(send_queue[t])
  IN  /\ Makes(t, "Receive") \/ Makes(t, "Drain")
      /\ \/ /\ send_queue[t] = << >>
            /\ armed' = armed
            /\ Blocks(t)
         \/ /\ send_queue[t] # << >> /\ Receives(t, sender)
            /\ send_queue'  = [send_queue EXCEPT ![t] = Tail(@)]
            /\ client'      = [client EXCEPT ![t] = sender]
            /\ pc'          = [pc EXCEPT ![t] = After(t)]
            /\ ready_queue' = Requeue(t)
            /\ UNCHANGED <<state, registered, unknown, armed, left, preemptions, lost_turns>>
         \/ /\ send_queue[t] # << >> /\ ~Receives(t, sender)
            /\ send_queue'  = [send_queue EXCEPT ![t] = Tail(@)]
            /\ state'       = [state EXCEPT ![sender] = "ready"]
            /\ pc'          = [pc EXCEPT ![sender] = After(sender)]
            /\ ready_queue' = Back(Back(Leave(t), sender), t)
            /\ UNCHANGED <<client, registered, unknown, armed, left, preemptions, lost_turns>>

\* The client is queued before the replier.
ReplyCall(t) ==
  LET sender == client[t]
  IN  /\ Makes(t, "Reply")
      /\ state' = [state EXCEPT ![sender] = "ready"]
      /\ pc'    = [pc EXCEPT ![t] = After(t), ![sender] = After(sender)]
      /\ ready_queue' = Back(Back(Leave(t), sender), t)
      /\ UNCHANGED <<send_queue, client, registered, unknown, armed, left, preemptions, lost_turns>>

Run == unknown = {} /\ \E t \in Running :
  \/ CreateCall(t) \/ RegisterCall(t) \/ WhoIsCall(t) \/ PutcCall(t) \/ WaitCall(t)
  \/ SendReceived(t) \/ SendDrained(t) \/ SendQueued(t)
  \/ ReceiveCall(t) \/ ReplyCall(t)

-----------------------------------------------------------------------------
(* Interrupts.  A notifier has the highest priority, so one that is woken    *)
(* takes the turn of the running task, which goes to the back of its queue   *)
(* (unless it has the highest priority too: then the notifier waits).        *)

\* The interrupt is enabled, and the running task may lose its turn to it.
MayInterrupt(event) ==
  /\ unknown = {}
  /\ event \in armed
  /\ ready_queue[9] = << >>
  /\ Idle \/ preemptions < MaxPreemptions
  /\ preemptions' = IF Idle THEN preemptions ELSE preemptions + 1
  /\ lost_turns'  = [t \in Owners |->
       IF t \in Running \ registered THEN lost_turns[t] + 1 ELSE lost_turns[t]]

\* The running task goes to the back of its queue, and the woken to theirs.
Wakes(woken) ==
  /\ ready_queue' = [p \in Priorities |->
       LET queue == ready_queue[p]
       IN  (IF \E t \in Running : Priority[t] = p THEN Append(Tail(queue), Head(queue)) ELSE queue)
             \o SelectSeq(woken, LAMBDA t : Priority[t] = p)]
  /\ state' = [t \in Tasks |-> IF Contains(woken, t) THEN "ready" ELSE state[t]]
  /\ pc'    = [t \in Tasks |-> IF Contains(woken, t) THEN After(t) ELSE pc[t]]
  /\ UNCHANGED <<send_queue, client, registered, unknown>>

\* The clock server answers those whose time has come, in the order of their
\* times.  Its notifier goes on only while somebody delays.
TimerInterrupt ==
  /\ MayInterrupt("timer")
  /\ \E due \in SetToAllKPermutations(Delayed) : Wakes(due)
  /\ armed' = IF Delayed = {} THEN armed \ {"timer"} ELSE armed
  /\ left'  = left

\* A byte that was left over from before the start, for the helper in Getc.
ByteInterrupt ==
  /\ MayInterrupt("rx1")
  /\ left > 0
  /\ left'  = left - 1
  /\ armed' = armed \ {"rx1"}
  /\ Wakes(<<"getc_helper">>)

\* The transmitter takes the byte; the notifier waits for the next Putc.
TransmitInterrupt(event) ==
  /\ MayInterrupt(event)
  /\ Wakes(<< >>)
  /\ armed' = armed \ {event}
  /\ left'  = left

\* Everybody is in his loop and waits: start-up is over.  Or a name was looked up
\* in vain: the assertion has stopped the system.
Started == \A t \in Tasks : InLoop(t)
Rest == (unknown # {} \/ (Idle /\ Started)) /\ UNCHANGED vars

Next ==
  \/ Run
  \/ TimerInterrupt \/ ByteInterrupt \/ TransmitInterrupt("tx1") \/ TransmitInterrupt("tx2")
  \/ Rest

Spec == Init /\ [][Next]_vars

\* The processor runs whoever is ready, and time passes.
Fairness == WF_vars(Run \/ TimerInterrupt)

FairSpec == Spec /\ Fairness

-----------------------------------------------------------------------------
(* Properties.                                                             *)

\* The AssertF of WhoIs (name_server.c:135) and the one of the sensor worker
\* (sensor_server.c:57) hold, the first one unless interrupts come at the worst of
\* moments: a task looks up a name before its owner has registered it only if the
\* owner lost its turn to interrupts more than once before it came to register.  (It
\* does happen then: the timer and a byte left over take the switch server's turn
\* twice, and the track server's WhoIs comes first.)  The worker's first message is
\* the clock helper's, whatever the interrupts.
AssertionsHold ==
  /\ \A name \in unknown : lost_turns[name] > 1
  /\ Created("worker") /\ Call("worker") = Reply /\ state["worker"] = "ready"
       => client["worker"] = "clock_helper"

\* The AssertF of WhoIs without that exception: not true of the code.
NamesRegisteredInTime == unknown = {}

\* Start-up comes to its end, with every task in its loop, unless that assertion
\* stops it: no circle of tasks that wait for each other while the turn-outs are set.
StartupEnds == <>(Started \/ unknown # {})
=============================================================================
