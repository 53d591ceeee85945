# A verification model of the TS7200 microkernel and its train control tasks

The repository holds a small real-time kernel for a TS7200 board and, on top of
it, the tasks that run a model railway: servers for the clock, the two serial
lines, the turn-outs, the sensors and the track, a controller with one task per
train, a cab service and a command line.  Everything the tasks know of each
other goes through the kernel's Send, Receive and Reply.  This directory
specifies the system from the bottom up in TLA+, checks the parts with TLC on
small instances, and proves with TLAPS the main properties of eight of them for every
value of the constants: of the kernel, for any number of tasks and priorities;
of the UART, clock, switch and sensor servers, the flow control of UART1
included, for any clients; of the track server, for any layout and set of
trains; of the train controller and the cab service, for any fleet.

## 1. Inventory

| Component (files under src/) | State | Operations | Interacts with |
|---|---|---|---|
| Kernel (`main.c`, `scheduler.c`, `task.c`, `task_queue.c`, `syscall_kern.c`, `interrupts.c`) | task descriptors; ready, event, defunct and send queues linked through one `next` field; `events_waiting` | Create, Exit, Pass, Send, Receive, Reply, AwaitEvent, Shutdown, the interrupt handler, `scheduler_get_next` | every task, by traps; the devices, by interrupts |
| Context switch (`cs.asm`, `syscall.asm`, `syscall.c`) | registers | enter and leave a task | kernel |
| Event notifier (`tasks/event_notifier.c`) | none | AwaitEvent, then Send to its server | kernel, UART and clock server |
| UART server (`tasks/uart_server.c`, `cbuf.c`, `clist.c`, `list.c`) | per line: transmit buffer, tasks waiting in Getc and in Putc, whether the transmit notifier waits for an interrupt | Getc, Putc, receive and transmit interrupt | four notifiers; every task that reads or writes |
| Clock server (`tasks/clock_server.c`, `timer.c`, `ordered_list.c`) | ticks, last counter value, active and free timers, `notifier_blocked` | Time, Delay, DelayUntil, timer interrupt | one notifier; every task that waits |
| Name server (`tasks/name_server.c`, `tasks/first_task.c`) | name records | RegisterAs, WhoIs | every task, at start-up |
| Train command server (`tasks/train_command.c`) | none | one Putc or two per command, then a pause | UART and clock server |
| Switch server (`tasks/switch_server.c`) | table of turn-outs, list of listeners | set, listen, get | train command and clock server; couriers of the track server and the main task |
| Sensor server (`tasks/sensor_server.c`) | table of sensors, list of listeners | report of the worker, listen | worker (UART, train command), couriers of the controller and the main task |
| Track server (`tasks/track_server.c`, `location.c`) | reservations on both directions of every edge; a copy of the table of turn-outs | reserve, route, distance, next sensor, set a turn-out | switch server, its courier, train controller |
| Routing (`tasks/routing.c`, `heap.c`) | a heap of nodes by distance | `mark_path` | track server |
| Train controller and train tasks (`tasks/train_controller.c`, `tasks/train.c`) | per train: speed, direction, route, pause, who waits for the route | speed, position, reverse, route, stop, ping, sensor report | train tasks (which call back), track server, clock server, cab couriers |
| Cab service (`tasks/cab_service.c`) | free cabs, free dispatches, the dispatch of each cab | request, arrival, completion | its couriers, train controller, main task |
| Terminal, command line, main task (`tasks/term_server.c`, `tasks/cli.c`, `tasks/main_task.c`) | the screen | commands, display | all servers |
| Data (`trains/`, `track_data/`, `calib/`) | tables | none | |

What is hard, and what makes each part correct:

* **Kernel.** A call moves a task between queues that share one link field.
  Correct: each task is in exactly the queue its state calls for; the running
  task has the highest priority among the ready ones, whatever interrupts
  arrive together; the kernel stops only if nothing can run; Send, Receive and
  Reply are first in, first out with one reply per message.
* **Servers with notifiers.** A server must reply to a notifier only while the
  notifier waits for a reply, and must not forget that it left one waiting.
  Correct: the server's flag and the notifier's state agree in every order of
  calls and interrupts; no client is on two lists or on none.
* **Clock.** The counter wraps, ticks are derived from differences, delays end
  in another order than they were asked for.  Correct: no timer is lost, nobody
  wakes early, nobody is left asleep, time never runs ahead.
* **Sensors and UART1.** An answer of the controller box is a row of bytes
  without a frame, over a line on which a byte may be sent only when the box is
  ready for it, which the interrupt handler pieces together from two flags.
  Correct: no byte before the box is ready; a sensor is reported exactly when a
  train tripped it; the readings go on.
* **Start-up.** Tasks find each other by name; a name that is looked up before it
  is registered stops the system, and only the priorities and the order of
  creation see to it that it is.  Correct: no look-up comes too soon, and every
  task reaches its loop.
* **Turn-outs.** The track server keeps a copy of a table it does not own, updated by
  a courier that is sometimes away.  Correct: the copy says what the table says.
* **Trains, cabs, reservations.** Tasks that call each other in both
  directions, replies given much later, resources handed between lists.
  Correct: no circle of waiting tasks, every blocking call answered, no two
  trains on one piece of track, no cab and no dispatch lost or freed twice.

`PROJECT.json` lists every hazard found, at its line, with the properties that
would catch it or the reason there is none yet.

## 2. Plan

Done, in this order: `Kernel`, `MessagePassing`, `KernelProofs`; `LinkedLists`,
`UartServer`, `ClockServer`; `SwitchServer`; `TrainController`; `Track`,
`TrackServer`; `Heap`, `Routing`; `CabService`; `TrackServerProofs`; `Uart1`,
`SensorServer`; `Boot`; `SwitchServerProofs`, `CabServiceProofs`,
`ClockServerProofs`, `UartServerProofs`, `SensorServerProofs`,
`TrainControllerProofs`; `AlarmClock`, `Distances`, `TrackQueries`; `RailReservations`.

Next, the most important first:

1. A train controller that asks `TrackQueries` and `TrackServer` instead of choosing their
   answers, on a layout with one train.
2. An abstract table of turn-outs with a reader that lags behind, implemented by the switch
   server and the track server.

Modules that are to be proved about use recursive functions, never RECURSIVE, and choose
names that do not clash with those of the modules they are proved together with
(`SearchInit` of `Routing` beside `Init` of `TrackServer`).

## 3. Modules and how they correspond to the code

**`Kernel`** has one action per system call and outcome.  Its guards are the
calls' checks, its queues are sequences of task numbers in place of the linked
`task_queue`, and `OneQueuePerTask` is what makes that sound: a task in two
sequences would be two links in one field.  A system call is one step because
the kernel runs with interrupts disabled.  `scheduler_add` at the end of
`sys_handle_request` is part of every action, never a step of its own.  An
interrupt stops the running task (`TakeIrq` chooses the set of causes that are
up), the handler pops one waiting task per step (`NotifyTask`, `NotifyDone`) in
the order of the code, and `main` resumes or requeues the task (`ResumeTask`,
`PreemptTask`).  User tasks are arbitrary programs: the running task may make
any call with any argument, out-of-range ones included.  Message contents are
left out.  `esc_dropped` is the only auxiliary variable: it remembers that the
ESC key's early return dropped a preemption.  The Assert call prints the
tables, waits for a key and returns, so it is a `Pass`.

**`MessagePassing`** is the abstract specification: messages wait in an inbox,
are taken oldest first and answered once, a task sleeps in Receive only with an
empty inbox.  No priorities, no interrupts, no queues of ready tasks.
`Kernel!IPC` maps states to its `status`, send queues to `inbox`, and the
register that keeps the destination to `peer`.

**`LinkedLists`** has `list_push_back`, `list_pop_front` and `ordered_list_add`
on explicit links and front and back fields, because two hazards of the servers
are about the links themselves.  `Places` follows the links from the front; `PlaceOf` is
where the loop of `ordered_list_add` stops.

**`UartServer`** has one action per message the server handles (its own queue
is `inbox`), one for a client's call and one for a notifier that comes back with
an interrupt.  A buffer is its number of bytes.  `ReplyTo` is the kernel's
`sys_reply`: a reply to a notifier that does not wait has no effect.  `failed`
stands for an AssertF that stops the machine.  Putstr is a sequence of Putc.
Start-up is in `Init`, with the free lists as the code leaves them.

**`ClockServer`** keeps the number of counts that have passed (`now`), from
which the register's value follows; `Signed` is the code's use of it as an int.
`TicksPassed` is lines 94-101 with both branches.  A message is one action that
updates the ticks and then does the rest.

**`AlarmClock`** is the abstract specification: time goes on, tasks set alarms, and after
an interrupt of the timer all those go off whose time has come and no other.
`ClockServer!Promise` maps ticks to time, the active timers to alarms, and a
notifier whose message waits to an interrupt that is pending.

**`Uart1`** is the serial line to the controller box: the handler's part for it
with `uart1_tx_flag` and `uart1_cts_flag`, the two notifiers, the server's part
for COM1, and the box, which is external and modelled by what the code relies
on: CTS falls when it has a byte and rises when it is ready for the next.  The
interrupt enable bits are those of `UART1_CTLR`.  Two history variables:
`overrun` (a byte was written while the box was not ready) and `raced` (CTS rose
between the clearing of the modem interrupt and the reading of CTS,
interrupts.c:220-222).

**`SensorServer`** extends it with the tasks at its ends: the sensor worker from
its drain to its report, its getc and clock helpers, the train command server for
the two sensor commands, the sensor server's table and list of listeners, and
the couriers.  Bytes have a meaning: a command, or one sensor and its state; a
byte that comes while the notifier is not in AwaitEvent is lost.  `news` and
`tripped` are history variables, what trains tripped between and since the
answers of the box; `early` notes that a byte came before the tasks had dealt
with the one before it.

**`Boot`** has the entry functions of all 34 tasks as sequences of system calls,
up to and with their loops, and runs one call per step as `Kernel` would:
the head of the highest ready queue that is not empty.  A call that is always
answered at once (to the name server, Putc, the request of a Delay) is one step.
An interrupt takes the running task's turn: it goes to the back of its queue.  A name
looked up in vain (`unknown`) stops the system.  `lost_turns` is a history variable: of each
task that has still to register, the turns interrupts have taken from it.

**`SwitchServer`** models the switch server as three steps with the waits of the
code in between (`switching`: the Send to the train command server; `resting`:
Delay), the couriers, and the two tasks they report to.  Only the track server keeps a
copy of the table (`copy`): the body of `term_switch_update`, which the main task calls with
a report, is commented out (main_task.c:39-68), so that a report to the main task is a
message that is answered and nothing more.  A command is
answered before the switch server switches; `solenoid` is the coil.  `missed` is a
history variable: the turn-outs that last changed while the track server's courier was away.
Commands that are refused change nothing and are left out.

**`TrainController`** writes a handler as the list of things it has left to do
(`work`), because it can block at each of its Sends to a train task.  A Send and
the task's immediate reply are one step, enabled while the task is in Receive.
`AfterSpeed` is what `train_set_speed` writes; the three things `ping` decides for
a train are `ReserveTrack` and one action per outcome after it.  What depends on
positions and velocities is a choice: whether a train moves, whether it is close
to its goal or its reversal, what the track server answers, which train a sensor
is attributed to.  Paths are reduced to the number of reversals left.  Waiting is
a choice too: a pause may or may not have been long enough at a ping.  The
pinger and the sensor courier are not in the send queue; what they bring may come
first whenever the controller receives, which is the same set of behaviours.  The
position query is left out: it answers from the values that are choices.  Which trains are
located at the start is a choice: the profiles of 35 and 41, the two in `train_map`, give
them a sensor (train35_profile.c:56, train41_profile.c:60), so that both are; one whose
profile leaves `train_profile_init`'s -1 has to be found by the first sensor, a branch of
the code that the choice covers too.  Three failures lie within what is left out.
`calculate_deceleration` has an AssertF that a stopping distance is not 0 (line 135); the
arrival message divides by the deceleration (644, 647); and a spurious sensor also sets the
speed of train 36 (770), whose entry of `train_map` is 0 (489 is commented out): the task id
is read through a null pointer, and what is at that address decides whether TrainSpeed
fails ("Uhoh") or what it Sends to.  `SensorSpurious` stops the trains of `TrainMap`; a system that
stops at one of these points is a behaviour that ends there.

**`Track`** is the layout: nodes, edges and their reverses as constants, with what
the tables of `track_data/` guarantee as assumptions (a rail is two edges, each the
other's reverse, of the same length).  `Normalize` is `normalize_location`; `Walk`
is the loop that `reservation_verify` and `reservation_insert` share, as the
sequence of pieces it goes through: verification is then a condition on that
sequence and insertion a function of it.  `Piece` is one turn of the loop, `Along` the
turns one after the other, `Ends` the condition that ends it, and `Walk` the turns up to
the first that does.

**`TrackServer`** has one action per message that changes state: `Request`
(`TRACK_OP_RESERVATION`, refused or granted), `SwitchDirection` and `SwitchReport`.
The list of reservations on an edge is a set of train and slot, which is sound as
long as `ListsMatchTables` holds: no segment is on two lists.  `Linked` keeps the
search of `clear_train_reservations`, which frees only what it finds.  `thrown` is a
history variable: the turn-outs thrown in what a train holds since it was granted.

**`RailReservations`** is the abstract specification: each train holds pieces of rail, in
both directions, that clash with nobody's, and gets others only by a request that is
granted.  No lists, slots, walks or turn-outs.  `TrackServer!Promise` maps the train's
table, less its free slots, to what it holds, and `status` to the answer.

**`Distances`** has the walks of the operations that only read, a turn of the loop an
action: `dist_between_nodes`, `dist_until_goal` and `next_sensor_node`.  A node is
compared as itself, which its number and type amount to.  Its properties compare the
answers with `Normalize`, which is translated from other code (location.c).
**`TrackQueries`** composes it with `Routing`: the server at one request, a route or a
walk, which changes neither the layout nor the reservations.

**`Heap`** has the functions of `heap.c` on the array as it is, what is left in slots
past the end included, because `IS_LEAF` lets `bubble_down` look at one of them.  A loop
is a function of the number of its turns (`UpFrom` and `DownFrom` are one of them); a turn
after the loop has ended changes nothing.
**`Routing`** takes a turn of `mark_path`'s loop as an action.  The distance of nodes
not reached is a number greater than all others; that it is never added to is
`HeapHoldsReached`, which also says that the array always has room for the three nodes a
turn may push (`HeapFits`).  The array is on `mark_path`'s stack and not initialised:
`SearchInit` assumes that it holds nodes of the track, as an earlier search leaves them there.
What a first call finds may be no pointers at all; that `bubble_down` may follow one of them
is undefined behaviour and not modelled.  `PathTo` names every node by itself.  The code's
`node_to_location` has no number for enter and exit nodes and leaves that of the node put in
before (location.c:5-22).  A shortest route contains none of them: it would turn at an
exit, and turning at the last node before the exit that is no branch (the start, if no
other) leads back the same way sooner.  The three neighbours are tried one after the other
(`RelaxAhead`, `RelaxCurved`, `RelaxBack`).  `lost` and `turns` are history variables: `lost`
is set when, after any of these steps, a node that was reached and is not visited is not in the
heap.

**`CabService`** writes a handler as the list of Sends it has left (`work`), as
`TrainController` does: orders for couriers, the stops of the cabs that are on their way
to a customer another cab has reached, the Reply.  A courier's life is a cycle: order,
call of the controller, four seconds, report.  Of the controller there are the answers
to a courier: at once, at the end of the route, -1 when another task stops the route, or
never.  And it may be waiting, in the middle of a handler, for the task of a train that reverses
(`controller`), four seconds or, as in `train_deadlock`, for ever: meanwhile it answers nobody,
and the service's RouteStop, which is a Send to it (cab_service.c:184), does not return.

## 4. Runs

| Run | Instance | Shows |
|---|---|---|
| `kernel` | 4 tasks (idle, first, two created), priorities 0-2, timer, UART1 receive and ESC | queues, priority, halting, refinement of `MessagePassing`, round robin at the highest priority |
| `uart_server` | 2 clients, both lines, buffers of 2, 2 wait nodes | notifier hand-shake, accounting of clients, Putc returns |
| `clock_server` | 2 clients, 2 timers, ticks of 2 counts, a register of 8 values, 9 counts, delays of 1 | timers, hand-shake, time, no early wake-up, refinement of `AlarmClock`, every delay returns |
| `switch_server` | 1 turn-out, both parents and couriers | the track server's copy goes stale only while its courier is away; every command answered, every coil switched off; no deadlock |
| `sensor_server` | answers of two bytes, 1 listener, buffer of 2, a line full of an old answer | flow control, reports are exactly the trips, readings go on |
| `boot` | all 34 tasks, 1 turn-out, 1 left-over byte, 2 interrupts that take a running task's turn | a name is looked up too soon only if its owner lost its turn twice; else every task reaches its loop |
| `train_controller` | one train with its task and its cab's courier, speeds 0-2, one reversal on a route, lost after two errors | replies, what the controller believes of the train, reversal at rest |
| `track_server` | trains of lengths 1 and 2, a line with a passing loop (16 nodes, one turn-out in each direction), requests from every sensor for 1 or 8 with offset 0 or 3 | reservations: no collision, whole, clear of switches; refinement of `RailReservations` |
| `routing` | a loop with a way in and a way out (16 nodes, a turn-out each way); routes between all pairs of sensors, up to two rails taken, 4 contents of the heap's array; walks with offsets 0, 1, 4 and stopping distances 2, 7, 15 | searches end, routes can be driven and are shortest unless the heap lost a node; walks end, and what they answer is where it says |
| `cab_service` | the code's 2 cabs, 4 dispatches | accounting of cabs and dispatches, requests answered unless the controller waits for ever |
| `train_deadlock`, `cab_dispatch_twice` | as above, 10 dispatches for the second | the first two of the disagreements below |

Why these bounds are enough.  *kernel*: three user tasks are a sender, a receiver and a
third party that interferes (a second sender, a stray replier, a waiter on an event);
two priorities give preemption, and three causes include two that wake tasks and the one
that returns early.  *uart*: two clients fill a two-byte buffer and wait on it in both
orders, and interleave Getc and Putc on two lines.  *clock*: with 8 values, the register
becomes negative, overflows from the least to the greatest integer and wraps to all ones
inside 9 counts; two timers are what an ordered list needs to be out of order, and a
DelayUntil(1) is over when it is asked for late, while a Delay(1) then ends at a later
tick.  *switch*: what the copy says of one turn-out does not depend on the others, of
which the proof is for any number; commands for the one come from both parents in any
order. *sensor_server*: two bytes are a first and a last one, one of which may be lost,
and the second sensor is one whose entry is in the table; a buffer of two fills up with
the two bytes of a reset.  Six sensors tripped at once, which is one more than
`sensor_nodes` holds, are out of this run's reach.  *boot*: turn-outs are set one like
the other; the byte left over takes the getc helper's turn; the timer's interrupt may
come at any call.  Two interrupts in running tasks' time are enough for the one
case in which the code fails: the timer takes the switch server's turn before its
RegisterAs, a second interrupt (a byte left over on UART1, say, which comes whenever it
likes; the timer's are 10 ms apart) takes it again, and the track server's
WhoIs("switch_server") finds nothing.  The run contains it; what `AssertionsHold` says is
that it takes both, in the time of the task that is late, and no other name or order of
interrupts does it with two.  A third, tried without the liveness property, brings
nothing new.  *train_controller*: speeds 0, 1 and 2 give a
slow-down, whose index is no speed; two trains would need 10^7 states and interact only
through the controller, which is busy with one of them at a time. *track_server*: a
length of 1 ends inside an edge and one of 8 covers up to five edges, ends at the
tracks' ends or runs into the bound of 9 that stands for 30000 mm; an offset of 3 lies
past the first edge and, near an end, off the track; both trains meet head on, from
behind and at either side of the loop.  *routing*: the loop gives two ways between most
sensors, a reversal costs more than any two rails, and taken rails close one way or
both. From U a walk enters a loop that U is not on, from R one that it is on, and both
turn-outs lead off the track too; an offset of 4 is past the next node, and the loop is
10 long, so that 15 is more than a round.  *cab_service*: two cabs are what the code
has; 4 dispatches are enough for one to come back while another is out.

Bounds in guards: `MaxTime` in `ClockServer!Count`, `LeftOver` and `MaxPreemptions` in
`Boot!MayInterrupt` (interrupts while nothing runs are not bounded), `MaxReversals` in the
paths of `TrainController`.  `Count` also assumes that the server looks at the
counter at least once in half its range (12 days). `MaxDistance` in `Distances!WalkOn`
cuts only the walk of `dist_between_nodes`, which may go on for ever
(`TrackQueries!Done`); the others end before it.  Nothing else is cut: inboxes and
queues are bounded because a caller waits.

`CHECK_DEADLOCK FALSE` stands where the system may stop: in the cab service, when an
assertion fails or the controller or the couriers wait for ever; in the UART server,
when a misrouted byte leaves all clients waiting on a full buffer whose notifier
sleeps; in the train controller, which can deadlock (1 below); in the clock server, when
`MaxTime` is reached.

### Fairness

* `Kernel`: the kernel's own steps are weakly fair (they are straight code); a
  task that runs traps eventually, strongly fair because interrupts may stop and
  resume it.  Lower priorities may starve, and only the highest is claimed.
* `UartServer`: the server and the transmit notifiers, which have the two highest
  priorities; a transmitter always empties.  Nothing makes bytes arrive, so
  nothing is claimed of Getc.  `PutcAnswered` is claimed only for behaviours in
  which `BytesWakeNotifier` holds throughout, since its failure blocks a line.
* `SwitchServer`: the server, and each parent's continuation when its call was
  answered.  Commands need not come.
* `SensorServer`: the servers and the worker, which have priorities 7 to 9, and the box:
  it obeys commands and its bytes arrive.  Trains need not move, and the couriers' parents
  may be busy for ever.  `ReadingsGoOn` is claimed for behaviours in which no byte
  comes before the worker and the notifier are ready for it and no edge of CTS is
  taken for the next: the code leaves both to the box's pace, and has no timeout.
* `Boot`: the processor runs whoever is ready, and the timer goes on.  `StartupEnds` allows for
  the look-up that stops the system.
* `TrainController`: safety only, since the system can deadlock; that a call is
  somewhere until it is answered, in `AnswersMatchCalls`, is what is left of "every
  call returns".
* `TrackServer`, and `Routing` in the same run: safety only; that a search ends is a
  bound on the turns of its loop.
* `CabService`: the service takes its next step.  One of them, RouteStop, is a Send that
  ends only when the controller receives: it is strongly fair, since the kernel's send queue
  is served in order and a controller that comes back to its Receive again and again comes to
  it.  That the controller does come back is not assumed, because it need not (1 below):
  `RequestsAnswered` is claimed of the behaviours in which it is serving again and again
  (`[]<>(controller = "serving")`), and is false of the others.  Nothing is assumed of trains,
  couriers or the command line.
* `ClockServer`: counts pass, the timer interrupts, and server and notifier, of the two highest
  priorities, take their steps; nobody need call.  `DelaysEnd` is claimed of those ticks that
  come before `MaxTime` even at the greatest loss `TicksTrackTime` allows.
* `TrackQueries`: the turns of a walk, which are straight code of the server.

No configuration lists `TypeOK`: types are a conjunct of one of its invariants
(`ClientsAccounted`, `TimersAccounted`, `HeapHoldsReached`, `AnswersMatchCalls`) or
proved (section 5), or both.

### Disagreements between code and comments

The first two are runs of the project.  Numbers 3 to 10 were met while modelling; each is a
definition of its module, and TLC finds it violated in a few seconds when it is added
as an INVARIANT to the configuration of the module's run.

1. `train_deadlock`: the comments of train_controller.c:784 and 830-831 claim that
   controller and train task cannot wait for each other; every `train_set_speed`
   within four seconds of that train's reversal makes them, be it a command's, a ping's or a
   spurious sensor's; everybody who Sends to the controller then waits as well.
2. `cab_dispatch_twice`: a cab that arrives within the four seconds before another's
   arrival is handled is not stopped (cab_service.c:180-186); both drop the customer
   off, and the assertion of line 157 fails when the dispatch comes back twice.  A
   cab that is stopped in time answers -1 and is never used again (190-194).
3. `Distances!StopsAtGoal`: `dist_until_goal` answers 0, as at the goal, when the way
   leaves the track within the stopping distance (track_server.c:420-421); by its
   comment (811) it answers the distance to the goal up to a maximum.  The controller
   then stops or reverses the train (train_controller.c:636, 680) before it is there.
   It takes a turn-out ahead that is not thrown yet and leads to an exit.
4. `Routing!NotFoundMeansNoRoute`: heap.c:8 takes slot n / 2 of a heap of n nodes for an
   inner node; `bubble_down` then swaps a node out of the heap, and the search may say
   "Could not find route!" (track_server.c:682) although there is one.  Without a lost
   node the answer is right (`ShortestUnlessLost`).
5. `UartServer!BytesWakeNotifier`: uart_server.c:172 writes a waiting task's byte to the
   buffer of `msg.com`, which is the channel of the last *client* request.
6. `UartServer!PutcNodeAvailable`: uart_server.c:72-73 set the back of the free list to
   its first node; nodes are lost as they are given back, and the assertion of line
   219 fails with enough nodes for all.
7. `SwitchServer!CachedTableInSync`: the copy in track_server.c is not "in sync"
   (513-514): a change made while the courier is away is never reported, and a report
   that waits can overwrite a newer direction.  It takes two commands within the
   200 ms the switch server rests, from two sources.
8. `TrainController!TasksGetValidSpeeds`: train_controller.c:618 uses a speed index as a
   speed; the assertion of train.c:38 fails when a train slowed down before it paused.
9. `TrainController!RouteEndsAnswered`: contrary to train_profile.h:90, a route that is
   given up because no new path is found (train_controller.c:320, 729) is not replied to.
10. `Boot!NamesRegisteredInTime`: the AssertF of name_server.c:135, that a name looked up is
   registered, fails when two interrupts take the switch server's turn before its RegisterAs.

Facts of the code that no comment contradicts, and that the models take as they are:

* train_command.c:152-157 sends an uninitialised `data1` with a command that needs none.
* The drain of the sensor worker leaves its getc helper in Getc (sensor_server.c:61):
  the first byte of the first answer goes to both, and the helper waits for the
  worker's reply to it for ever.
* `dist_between_nodes` looks for its start only and walks for ever round a loop that does not
  contain it (track_server.c:397); nobody asks for it.
* A lost byte makes the worker wait for ever: it has no timeout.
* `table_index` is -1 for the first sensor of the first module (sensor_server.c:131), and
  `sensor_nodes` (sensor.h:8) holds five of the sensors one answer may report
  (sensor_server.c:135).
* The modem interrupt is cleared before CTS is read (interrupts.c:220): an edge in between
  sets it again, the flag is set twice for one byte, and the next byte goes out too soon.

The clock server drops what is left of its division (clock_server.c:94-101), so a
tick is 10 ms or more; `TicksTrackTime` bounds the loss: less than half.

## 5. Proofs

`KernelProofs` proves, for every `MAX_NUM_TASKS >= 2`, `PRIORITY_HIGHEST >= 1`
and set of interrupt sources:

| Theorem | Statement |
|---|---|
| `Invariance` | `Spec => []IInv` |
| `Typing` | `Spec => []TypeOK` |
| `QueuesConsistent` | `Spec => []OneQueuePerTask` |
| `NoWorkAbandoned` | `Spec => []NeverHaltsWithWork` |
| `PriorityTheorem` | `Spec => []PriorityRespected` |
| `Refinement` | `Spec => MessagePassingSpec` |

`IInv` is `TypeOK /\ OneQueuePerTask /\ PreemptInv /\ HaltInv`.  `TypeOK` alone
is not inductive: that `events_waiting` stays a natural number needs that it
equals the number of tasks in the event queues, which is part of
`OneQueuePerTask`.  Its parts need each other: that `SendReceived` may take the
front of the receiver's queue as the sender that just joined needs that the
queue of a task in Receive is empty.  `PreemptInv` says what the handler has
decided so far: if a task of higher priority than the current one is ready in
mode "irq", `preempt` is set.  `HaltInv` says why the kernel is halted.

The proof goes: lemmas on the queue operators (appending and dropping one
element, and what that does to membership and repetition), `Init => IInv`, one
lemma per action, with one step per conjunct it can disturb, then the temporal
step.  The refinement uses the invariant at every step and one lemma per action
that names the abstract step or the stutter.  The priority theorem is
`PreemptInv` read in mode "user".

Assumptions: the three `ASSUME`s of `Kernel`, which TLC evaluates in the run
`kernel`.

`TrackServerProofs` proves, for every layout, set of trains, set of requests and
`SEGMENTS_PER_TRAIN`:

| Theorem | Statement |
|---|---|
| `Invariance` | `Spec => []IInv` |
| `Typing` | `Spec => []TypeOK` |
| `Lists` | `Spec => []ListsMatchTables` |
| `Pairs` | `Spec => []ForwardAndReverse` |
| `Separation` | `Spec => []NoCollision` |
| `InductiveReservations` | `Spec => [](IInv /\ ReservationsOK)` |
| `NoTrainOnASwitch` | `Spec => []ClearOfSwitches` |
| `FollowedTurnouts` | `Spec => []ReservationsFollowTurnouts` |
| `PromiseKept` | `Spec => KeepsItsPromise` |
| `ChangedByOwnRequest` | `Spec => [][Keeps]_vars` |
| `WalksTell` | `QueriesSpec => []WalksTellTheWay` |
| `SearchHoldsReached` | `QueriesSpec /\ []HeapFits => []HeapHoldsReached` |
| `RoutesCanBeDriven` | `QueriesSpec /\ []HeapFits => []RouteIsDrivable` |
| `RoutesAreShortest` | `QueriesSpec /\ []HeapFits => []ShortestUnlessLost` |
| `SearchesEnd` | `QueriesSpec /\ []HeapFits => [](~lost => SearchEnds)` |

`IInv` is `TypeOK /\ ListsMatchTables /\ ForwardAndReverse /\ NoCollision`.
`NoCollision` alone is not inductive.  The code searches the list of an edge, so
that a segment it does not find there might be crossed: `ListsMatchTables` says
there is none.  It looks only at the edge in the direction of travel, but enters a
piece on the reverse edge too: that no other train holds the reverse edge there
follows from `ForwardAndReverse`, since that train would hold the edge as well
(lemma `VerifiedApart`, the core of the argument).  And the table of a train holds
nothing but its new pieces after a grant because clearing finds every old segment
on its list (lemma `Inserted`).  Then one lemma per action: a refusal and a thrown
turn-out move nothing (`Untouched`), a grant is the three lemmas above.

`ReservationsOK` is what a table is after any number of requests: its pieces are its
first slots, without a hole (`NoHole`), end to end and clear of turn-outs (`Clear`), and
along the turn-outs but for those thrown since (`Follows`).  It is proved of a walk first.
`WalkOK` says what `Walk` returns: pieces end to end, each on the edge ahead of the one
before; after a piece past a branch at least the train's length is still missing, so that
a walk that stops before that has come to an exit, and is refused.  `EnteredOK` then says
that a table with nothing but the pieces of such a walk is a reservation; that the sum of
what lies beyond a piece is at least what was missing after it goes by induction from the
last piece back.  A thrown turn-out is recorded in `thrown` of every train that holds an
edge from it, which is all that `Follows` can lose.  `Keeps` says that the request which
changes a train's table is its own.

`PromiseKept` is the refinement (`KeepsItsPromise` is the specification of
`RailReservations`): a refused request is `Promise!Refuse`, a turn-out changes nothing of
it, and a grant is `Promise!Grant`.  That what is granted is there in both directions comes
from `ForwardAndReverse` after the step; that it clashes with no other train's from
`NoCollision` after it, as the others' tables are those of before; that it is not empty,
since a train's place is on an edge (`GrantPromise`).

`WalksTell` is about another server state, one query at a time.  `Normalize` is translated
from location.c and the walks from track_server.c, and the property says that they agree.
`Way(turnouts, s, n, d)` says that the way from s leads past n after d: a place so much
further from s is the place that much past n.  `WayOn` takes it one edge on, from the equation
of `Normalize`; `WalkInv` says that a walk which is not answered is on such a way and has
not passed what it looks for, and that an answer tells the way.  The cases that answers
stand for at once (0 for at the goal, past it and off the track) are those of the property.

`SearchHoldsReached` and `RoutesCanBeDriven` are about a route's search.  The heap cannot be
trusted: it compares with slots past its end, and may swap a node out of itself for what
was left in one of them.  So the invariant, `SearchInv`, speaks of what does not depend on
the heap's order.  `HoldsReached`: every slot in use holds a node that was reached, whatever
the slots past the end hold, since a node is swapped in from there only if it is nearer than
one that was reached.  It takes a lemma on each of the heap's functions, by induction on the
turns of their loops.  `Tree`: `previous` leads from every node reached to one that is
visited, is nearer, and from which a free way leads to it, and so back to the start.  As a
visited node is not marked again and a mark only makes a distance smaller, the tree stays
one while a turn marks up to three nodes (`TreeGrows`, `MarksOK`).  `PathTo` is then followed
by induction on the distance: the nodes of a path have ever smaller ones, so that none
comes twice, and a command to reverse has its node and the reverse at its sides
(`Drivable`, `Joined`).  TLC found no violation of `SearchInv` on the instance of `routing`.

`RoutesAreShortest` and `SearchesEnd` are about the same search as long as it has lost no node;
then it is Dijkstra's algorithm on a heap kept in an array.  The heap first: `InOrder` says that
no node is nearer than its parent, `Single` that none is there twice.  `UpOrder` and `DownOrder`
are that order with the one exception a loop carries along; a turn moves the exception one
level or ends in order (`UpFromOrder`, `DownFromOrder`), and after as many turns as the loops are
given there is none left (`BubbleUpOrder`, `BubbleDownOrder`).  `bubble_down` is the exception to
this: where it takes a leaf for an inner node, the node at hand may change places with what
is past the end, and `SortedOrLost` says that then, and only then, a node is missing.  A later step may bring it back
in from past the end, which is why `lost` looks at every step of a turn.  So `PushBest`, `PopBest` and `UpdateBest` hold of what the heap holds as a set: all
nodes that were reached and are not visited, in order, the nearest in front.

`ShortestInv` is the invariant of the search, on top of `SearchInv`: the heap is in order
(`Ordered`); no visited node is farther than one that is not (`NearFirst`); a visited node's
distance plus the length of a free way is at least the distance of the node at the way's end
(`Settled`); and no distance is more than the longest way's length times the number of turns
(`Within`), so that the sums of the code do not overflow: that takes the assumption on lengths.  When
the end is visited, no node that is not is nearer (`Around`), so that its distance is the
shortest (`SettledShortest`).  When the heap is empty first, the visited nodes are closed
under free ways and the end is not among them (`CutOff`).  Each turn visits a node that was not,
so that the turns are counted by the visited nodes (`VisitsCount`).  Before it was proved, TLC
found no violation of `ShortestInv` on the instance of `routing`.

The hypothesis `HeapFits` is no invariant that can be proved for every layout: a node that
the heap has lost is pushed again when it is reached on a shorter way, and how often that
can happen in the 144 slots of `TRACK_MAX` nodes is a matter of the layout.  TLC checks it as a
conjunct of `HeapHoldsReached`.

Assumptions: `NodesAssumption` and `EdgesAssumption` of `Track` (what the reverse of
a node and of an edge is, that an edge has a length), `RequestsAssumption` and
`WalksAssumption` of `TrackServer`, `DistancesAssumption` of `Distances`,
`RoutingAssumption` and `LengthsAssumption` of `Routing`, all of which TLC evaluates in the runs
`track_server` and `routing`.  `LengthsAssumption` says that there are finitely many nodes, and that
the longest edge (or the weight of a reversal) times their number is less than the distance of a
node not reached: with the 144 nodes of the layouts and 2^32 - 1, edges of some 30 km.
`WalksAssumption` is what is not proved: that the walk of a request that can be made ends,
and within as many pieces as a table has room for.  That is a matter of the layout and of
the lengths asked for, which the code leaves to its AssertFs.  That the pieces lie within
their edges, and everything else about them, is proved.

### Recursive functions and induction

The values of recursive functions (the places of a list, `Normalize`, `Along`, the sums of
a reservation) are proved of by induction over sets of numbers instead of predicates, which
the provers cannot instantiate: `LeastElement` says that a set of numbers has a least one,
which is the library's `WFMin` for the order of the natural numbers, and `StrongInduction`
that a set which holds every number whose predecessors it holds is all of them.  That a
recursive definition has the value it says it has is proved in the same way: a function
that satisfies the equation up to n exists for every n, any two agree, and so the one that
CHOOSE takes satisfies it (`NormalizeRec`, `AlongRec`, `UpToRec`; `PlacesValue` for a
list).  Each module that needs the two lemmas states them, as it does those on its lists,
so that it can be read and proved by itself.

### The servers, the controller and the cab service

| Module | Theorem | Statement |
|---|---|---|
| `UartServerProofs` | `TypeCorrect` | `Spec => []TypeOK` |
| | `Protocol` | `Spec => []NotifierProtocol` |
| | `NobodyLost` | `Spec => []ClientsAccounted` |
| `ClockServerProofs` | `TypeCorrect` | `Spec => []TypeOK` |
| | `TimeKept` | `Spec => []TicksTrackTime` |
| | `Protocol` | `Spec => []NotifierProtocol` |
| | `WokenInTime` | `Spec => NeverEarly` |
| | `NoTimerLost` | `Spec => []TimersAccounted` |
| | `ImplementsAlarmClock` | `Spec => AlarmClockSpec` |
| `SwitchServerProofs` | `TypeCorrect` | `Spec => []TypeOK` |
| | `CopiesExcused` | `Spec => []CopiesGoStaleOnlyWhileAway` |
| `SensorServerProofs` | `TypeCorrect` | `Spec => []TypeOK` |
| | `FlowControlled` | `Spec => []BytesWhenReady` |
| | `InductiveReadings` | `Spec => [](IInv /\ SInv /\ HistoryOK)` |
| | `ReportsTrue` | `Spec => ReportsAreTrips` |
| `TrainControllerProofs` | `AgreeWithRails` | `Spec => []RailsAgree` |
| | `ReversedStanding` | `Spec => []ReversesStanding` |
| | `PausedStanding` | `Spec => []PausedTrainsStand` |
| | `AnswersMatch` | `Spec => []AnswersMatchCalls` |
| `CabServiceProofs` | `TypeCorrect` | `Spec => []TypeOK` |
| | `CabsAccountedFor` | `Spec => []CabsAccounted` |
| | `HandlersInOrder` | `Spec => []WorkInOrder` |

Each module has its `IInv`, a lemma for the initial state, one lemma per action, and
the temporal step.  What the invariants add to the properties, and why:

* **`UartServerProofs`**: for types and hand-shake nothing, since the hand-shake says of
  the wait lists only whether they are empty.  `ClientsAccounted` needs `ListInv`: who is in
  the queue has called and is there once (`QueueOK`), the wait lists are the clients that
  wait, each once (`GettersOK`, `PuttersOK`), and the links of a line are arranged
  (`ArrangedOK`): the free nodes one after the other, those in use too, none in both.
  The back field of the free list is the delicate part, since uart_server.c:71-72 has it
  point to the first node.  `BackOK` says what it can be: the last free node, a node that is
  nowhere, or the node the list began with while that is at the front of either list.  In
  the second case a node that is given back is lost behind it, but none is ever in two
  lists.  Assumptions: `CapacityAssumption`, `NodesAssumption`.
* **`ClockServerProofs`**: `IInv` is `TypeOK`, `RequestsOK` (what a client asked for,
  and when), `InboxOK` (who sent is in the queue, once), `NotifierProtocol`, `Clock` and
  `Deadlines`.  `Clock` is `TicksTrackTime` with what the code relies on, that fewer
  than half of the register's values go by between two looks; `TimeKept` needs lemmas on
  remainders (`ElapsedStep`: one count later one count more has passed, also where the
  register wraps).  `Deadlines` says that a timer ends no earlier than its request
  allows, by way of what the divisions have dropped, which never gets less (`Lag`);
  `NeverEarly` is an action property and follows from it at the step that wakes.
  `TimersAccounted` needs `ListInv`: there are two sequences, the free timers and the active
  ones in the order of their data, which the links follow, every timer is in one of them,
  the active ones are those of the clients that wait (`Arranged`), and what a client asks
  for is one of `Delays`.  A timer is taken from the front and put where `PlaceOf` says; the
  wake-up takes a first part of the active list, which is what is due because the list is
  in order.  For the refinement, a step of the server is an abstract step by cases: a Delay
  sets the alarm at the data of the timer it enters, the wake-up rings exactly the alarms
  that are due.  `TimersAssumption`, that there are as many timers as clients, is what the
  code relies on, which does not look whether the free list is empty: 12 timers for the 12
  tasks that call Delay, of which three are train tasks.
  Assumptions: `ClientsAssumption`, `CountsAssumption`, `TimersAssumption`.
* **`SwitchServerProofs`**: the property speaks of a copy at rest; the invariant follows a
  change on its way: the one the server is at (`ChangesAtHand`), the one the track server has
  asked for and will record (`RecordExcused`), the one a courier carries (`ReportExcused`);
  and `OnePlaceEach`, that a parent or courier is in one of queue, list and its own work.
  Assumption: `QueueAssumption`.
* **`SensorServerProofs`**: `IInv` is `TxOK`, `RxOK`, `WorkerOK` and `CouriersOK`.  The
  core is `FlowControl` in `TxOK`: as long as no edge of CTS fell between lines 220 and
  222, a byte is about to be written only while the wire is idle, the box ready and no
  edge unseen, and from then until the box is ready again `uart1_cts_flag` is clear.
  `ReportsAreTrips` needs `SInv`, which follows one reading round its loop.  There is one
  command to read on its way, in the buffer, on the wire or in the box, and nothing behind
  it (`CommandsOK`); until the box obeys, nothing of an answer is anywhere (`Silent`), and
  what the box remembers of a sensor that the table has as off was tripped since the last
  answer (`Unread`); from then on what the worker has, the byte at the notifier and what is
  still on the line are, in this order, a part of that one answer (`RowOK`), whose news are
  the history variable's (`Fresh`).  Bytes may be lost; but as many bytes as there are
  sensors, in order, are all of them (`WholeAnswer`), and that is when the worker reports.
  Assumptions: `SensorsAssumption`, `GettersAssumption`, `QueueAssumption`,
  `CapacityAssumption`.
* **`TrainControllerProofs`**: `Agrees` joins profile, task and rails of each train, for
  every point the task can be at and every thing a handler has left to do; `WorkOK` says
  of the list of things to do that a reversal and a pause come right after the step
  that sets the speed to 0.  Types are only those the argument needs; a speed is a
  natural number, not one of `Speeds`, since number 8 above is one that is not.
  `AnswersMatchCalls`, whose types include the bounds of every index, needs `Kept`: `TypeOK`;
  `CallsOK`, which adds to the property that a handler which will hold an answer for a train
  holds it for the train its caller named; `FastOK` and `StandsOK`, that a speed which is
  none is given only to a train that stands.  Each handler puts steps before what is left of
  another, which is why most lemmas are about such lists (`Quiet`: no step owes anybody).
  Assumptions: `TrainMapAssumption`, `SpeedAssumption`.
* **`CabServiceProofs`**: `WorkInOrder` says of a handler's list that the reply comes last
  and once, and that no order is coming for a free cab; `CabsAccounted` needs it
  because a courier leaves its Receive by an order, and a free cab's courier listens.
  Assumption: `CabsAssumption`.  That the controller may wait changes neither.

TLC evaluates all the assumptions in the runs of the modules that make them.

### Only model-checked

* Liveness (`TopPriorityRuns`, `PutcAnswered`, `DelaysEnd`, `WalksEnd`,
  `CommandsAnswered`, `SolenoidReleased`, `ReadingsGoOn`, `StartupEnds`,
  `RequestsAnswered`): fairness and ENABLED are outside the proof system.
* `Routing` (`HeapFits`, and `SearchEnds` of a search that has lost a node): how often a node
  that was lost comes back, and so how many turns and slots a search takes, depends on the
  layout and on what was left in the slots, which TLC tries.
* `Boot` (`AssertionsHold`): its programs are the code's, each a given sequence of calls, and
  the run goes through all of them; there is no larger system to prove it of.

## 6. Not modelled, and why

Registers, stacks and the assembly; device set-up and busy-waiting output; message
contents (but for UART1), formatting, parsing and screen layout; track and train data,
velocities and positions (continuous quantities with measured constants); the unused
removal functions of `task_queue.c`.  Of the track server the reservation string, and
that `TRACK_OP_NORMALIZE` replies twice on an error (619-628; the kernel refuses the
second reply). Of the train command server the commands other than the sensors' and the
turn-outs', which are the same with other bytes; of the name server its error when
records run out, since there are as many records as tasks; `SensorGetNextTriggered`,
which nobody calls. A failed AssertF in a server is taken to stop the machine: it prints
and waits for a key.
