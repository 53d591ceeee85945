------------------------------- MODULE Kernel -------------------------------
(***************************************************************************)
(* The microkernel: task descriptors, the priority scheduler, the          *)
(* Send / Receive / Reply system calls, AwaitEvent and the interrupt       *)
(* handler that wakes event-blocked tasks (main.c, scheduler.c, task.c,    *)
(* task_queue.c, syscall_kern.c, interrupts.c).                            *)
(*                                                                         *)
(* The kernel runs with interrupts disabled, so a system call is one       *)
(* action.  The interrupt handler is a loop that pops one waiting task at  *)
(* a time; it is modelled one pop per step (mode "irq"), and nothing else  *)
(* is enabled meanwhile.  User tasks are arbitrary programs: a running     *)
(* task may issue any system call with any argument.  Message contents are *)
(* abstracted away: what is kept is who waits for whom.                    *)
(***************************************************************************)
EXTENDS Integers, Sequences

CONSTANTS
  MAX_NUM_TASKS,     \* size of the task descriptor table (40 in the code)
  PRIORITY_HIGHEST,  \* priorities are PRIORITY_IDLE .. PRIORITY_HIGHEST (9)
  IrqSources         \* the interrupt causes that may occur

PRIORITY_IDLE   == 0
PRIORITY_LOWEST == 1

EVENT_TIMER    == 0
EVENT_UART1_RX == 1
EVENT_UART1_TX == 2
EVENT_UART2_RX == 3
EVENT_UART2_TX == 4
Events == EVENT_TIMER .. EVENT_UART2_TX

\* Not an event of the code: the UART2 receive interrupt whose byte is ESC.
ESC_PRESSED == 5

ASSUME TaskTableAssumption == MAX_NUM_TASKS \in Nat /\ MAX_NUM_TASKS >= 2
ASSUME PriorityAssumption  == PRIORITY_HIGHEST \in Nat \ {0}
ASSUME IrqAssumption       == IrqSources \subseteq Events \cup {ESC_PRESSED}

STATE_UNUSED          == -1
STATE_DEFUNCT         == 0
STATE_READY           == 1
STATE_SEND_BLOCKED    == 3   \* in Receive, no message yet
STATE_RECEIVE_BLOCKED == 4   \* in Send, message not received yet
STATE_REPLY_BLOCKED   == 5   \* in Send, message received, no reply yet
STATE_EVENT_START     == 6   \* + the event: in AwaitEvent
STATE_EVENT_END       == STATE_EVENT_START + EVENT_UART2_TX
States == {STATE_UNUSED, STATE_DEFUNCT, STATE_READY, STATE_SEND_BLOCKED,
           STATE_RECEIVE_BLOCKED, STATE_REPLY_BLOCKED}
            \cup STATE_EVENT_START .. STATE_EVENT_END

Tids       == 0 .. MAX_NUM_TASKS - 1
Priorities == PRIORITY_IDLE .. PRIORITY_HIGHEST
Idle       == 0
First      == 1
NoTask     == -1

VARIABLES
  current_free_tid,  \* next task descriptor to hand out
  state,             \* task->state
  priority,          \* task->priority
  send_queue,        \* task->send_queue: the senders a task has to receive
  sent_to,           \* r0 of a task blocked in Send: the tid it sent to
                     \* (Reply overwrites r0; then NoTask here)
  ready_queue,       \* one queue per priority
  event_queue,       \* one queue per event
  defunct_queue,
  events_waiting,    \* the scheduler's count of event-blocked tasks
  current_task,      \* the task main() activated, or NoTask
  mode,              \* "schedule" | "user" | "irq" | "halted"
  pending,           \* causes the running interrupt handler has still to serve
  preempt,           \* the running handler's returnType is HWI_PREEMPT
  esc_dropped        \* auxiliary: since the last scheduling decision the ESC
                     \* key made the handler drop an HWI_PREEMPT

taskVars  == <<current_free_tid, state, priority, send_queue, sent_to>>
queueVars == <<ready_queue, event_queue, defunct_queue, events_waiting>>
irqVars   == <<pending, preempt, esc_dropped>>
vars      == <<taskVars, queueVars, current_task, mode, irqVars>>

-----------------------------------------------------------------------------
(* The scheduler's queues.                                                 *)

\* Defect for TopPriorityRuns: a stack instead of a queue.
PushFront(queues, k, t) == [queues EXCEPT ![k] = <<t>> \o @]

\* task_queue_push_back and task_queue_pop_front on queue k of a family.
PushBack(queues, k, t) == [queues EXCEPT ![k] = Append(@, t)]
PopFront(queues, k)    == [queues EXCEPT ![k] = Tail(@)]

\* scheduler_add of a task in STATE_READY: to the back of its priority's queue.
ReadyAdd(queues, prio, t) == PushBack(queues, prio[t], t)

NoneReadyAbove(p) ==
  \A q \in PRIORITY_LOWEST .. PRIORITY_HIGHEST : q > p => ready_queue[q] = << >>

\* The tasks blocked on an event, counted from the queues themselves.
EventBlockedCount ==
    Len(event_queue[EVENT_TIMER])
  + Len(event_queue[EVENT_UART1_RX]) + Len(event_queue[EVENT_UART1_TX])
  + Len(event_queue[EVENT_UART2_RX]) + Len(event_queue[EVENT_UART2_TX])

-----------------------------------------------------------------------------
(* main() up to its loop: the idle task and the first user task.           *)

Init ==
  /\ current_free_tid = 2
  /\ state    = [t \in Tids |-> IF t \in {Idle, First} THEN STATE_READY
                                                       ELSE STATE_UNUSED]
  /\ priority = [t \in Tids |-> IF t = First THEN PRIORITY_HIGHEST
                                             ELSE PRIORITY_IDLE]
  /\ send_queue  = [t \in Tids |-> << >>]
  /\ sent_to     = [t \in Tids |-> NoTask]
  /\ ready_queue = [p \in Priorities |->
                      IF p = PRIORITY_IDLE THEN <<Idle>>
                      ELSE IF p = PRIORITY_HIGHEST THEN <<First>> ELSE << >>]
  /\ event_queue    = [e \in Events |-> << >>]
  /\ defunct_queue  = << >>
  /\ events_waiting = 0
  /\ current_task = NoTask
  /\ mode    = "schedule"
  /\ pending = {}
  /\ preempt = FALSE
  /\ esc_dropped = FALSE

-----------------------------------------------------------------------------
(* scheduler_get_next.                                                     *)

Dispatch(p) ==
  /\ mode = "schedule"
  /\ ready_queue[p] # << >>
  /\ NoneReadyAbove(p)
  /\ p = PRIORITY_IDLE => events_waiting # 0
  /\ current_task' = Head(ready_queue[p])
  /\ ready_queue'  = PopFront(ready_queue, p)
  /\ mode' = "user"
  /\ UNCHANGED <<taskVars, event_queue, defunct_queue, events_waiting, irqVars>>

\* No ready user task, and either no event to wait for or no idle task to run.
HaltKernel ==
  /\ mode = "schedule"
  /\ NoneReadyAbove(PRIORITY_IDLE)
  /\ events_waiting = 0 \/ ready_queue[PRIORITY_IDLE] = << >>
  /\ mode' = "halted"
  /\ UNCHANGED <<taskVars, queueVars, current_task, irqVars>>

-----------------------------------------------------------------------------
(* System calls of the running task t.  Each one ends in scheduler_add(t). *)

Calls(t) ==
  /\ mode = "user"
  /\ current_task = t
  /\ t # Idle              \* the idle task is an empty loop

Leave ==
  /\ mode' = "schedule"
  /\ current_task' = NoTask
  /\ esc_dropped' = FALSE
  /\ UNCHANGED <<pending, preempt>>

\* A call that changes nothing but the caller's place in the ready queue.
Requeue(t) ==
  /\ ready_queue' = ReadyAdd(ready_queue, priority, t)
  /\ UNCHANGED <<taskVars, event_queue, defunct_queue, events_waiting>>
  /\ Leave

\* Pass, MyTid, MyParentTid, Assert and an unknown request code.
Pass(t) == Calls(t) /\ Requeue(t)

Create(t, p) ==
  /\ Calls(t)
  /\ p \in PRIORITY_LOWEST .. PRIORITY_HIGHEST
  /\ current_free_tid < MAX_NUM_TASKS
  /\ LET new  == current_free_tid
         prio == [priority EXCEPT ![new] = p]
     IN  /\ current_free_tid' = new + 1
         /\ state'       = [state EXCEPT ![new] = STATE_READY]
         /\ priority'    = prio
         /\ send_queue'  = [send_queue EXCEPT ![new] = << >>]
         /\ ready_queue' = ReadyAdd(ReadyAdd(ready_queue, prio, new), prio, t)
  /\ UNCHANGED <<sent_to, event_queue, defunct_queue, events_waiting>>
  /\ Leave

\* Bad priority (the idle priority included), or the table is used up.
CreateError(t, p) ==
  /\ Calls(t)
  /\ \/ p \notin PRIORITY_LOWEST .. PRIORITY_HIGHEST
     \/ current_free_tid >= MAX_NUM_TASKS
  /\ Requeue(t)

\* The senders queued on an exiting task stay where they are.
Exit(t) ==
  /\ Calls(t)
  /\ state' = [state EXCEPT ![t] = STATE_DEFUNCT]
  /\ defunct_queue' = Append(defunct_queue, t)
  /\ UNCHANGED <<current_free_tid, priority, send_queue, sent_to,
                 ready_queue, event_queue, events_waiting>>
  /\ Leave

CanSendTo(dst) ==
  dst \in Tids /\ state[dst] \notin {STATE_UNUSED, STATE_DEFUNCT}

\* The receiver is not waiting (or is the sender itself): the sender queues.
SendQueued(t, dst) ==
  /\ Calls(t)
  /\ CanSendTo(dst)
  /\ state[dst] # STATE_SEND_BLOCKED
  /\ state'      = [state EXCEPT ![t] = STATE_RECEIVE_BLOCKED]
  /\ sent_to'    = [sent_to EXCEPT ![t] = dst]
  /\ send_queue' = PushBack(send_queue, dst, t)
  /\ UNCHANGED <<current_free_tid, priority, queueVars>>
  /\ Leave

\* The receiver is blocked in Receive: sys_send completes its sys_receive,
\* which takes the FRONT of the queue the sender has just joined.
SendReceived(t, dst) ==
  /\ Calls(t)
  /\ CanSendTo(dst)
  /\ state[dst] = STATE_SEND_BLOCKED
  /\ LET pushed == PushBack(send_queue, dst, t)
     IN  /\ state' = [state EXCEPT ![t] = STATE_RECEIVE_BLOCKED,
                                   ![Head(pushed[dst])] = STATE_REPLY_BLOCKED,
                                   ![dst] = STATE_READY]
         /\ send_queue' = PopFront(pushed, dst)
  /\ sent_to'     = [sent_to EXCEPT ![t] = dst]
  /\ ready_queue' = ReadyAdd(ready_queue, priority, dst)
  /\ UNCHANGED <<current_free_tid, priority, event_queue, defunct_queue,
                 events_waiting>>
  /\ Leave

\* No such task, an unused or defunct one, or no room for a reply.
SendError(t, dst, replylen) ==
  /\ Calls(t)
  /\ ~CanSendTo(dst) \/ replylen = 0
  /\ Requeue(t)

Receive(t) ==
  /\ Calls(t)
  /\ send_queue[t] # << >>
  /\ state'       = [state EXCEPT ![Head(send_queue[t])] = STATE_REPLY_BLOCKED]
  /\ send_queue'  = PopFront(send_queue, t)
  /\ ready_queue' = ReadyAdd(ready_queue, priority, t)
  /\ UNCHANGED <<current_free_tid, priority, sent_to, event_queue,
                 defunct_queue, events_waiting>>
  /\ Leave

\* Defect for MessagePassingSpec: sleep without looking at the send queue.
ReceiveBlocksAlways(t) ==
  /\ Calls(t)
  /\ state' = [state EXCEPT ![t] = STATE_SEND_BLOCKED]
  /\ UNCHANGED <<current_free_tid, priority, send_queue, sent_to, queueVars>>
  /\ Leave

ReceiveBlocks(t) ==
  /\ Calls(t)
  /\ send_queue[t] = << >>
  /\ state' = [state EXCEPT ![t] = STATE_SEND_BLOCKED]
  /\ UNCHANGED <<current_free_tid, priority, send_queue, sent_to, queueVars>>
  /\ Leave

\* Defect for OneQueuePerTask: the check for STATE_REPLY_BLOCKED is missing.
ReplyUnchecked(t, w) ==
  /\ Calls(t)
  /\ w \in Tids
  /\ state[w] \notin {STATE_UNUSED, STATE_DEFUNCT}
  /\ state'       = [state EXCEPT ![w] = STATE_READY]
  /\ sent_to'     = [sent_to EXCEPT ![w] = NoTask]
  /\ ready_queue' = ReadyAdd(ReadyAdd(ready_queue, priority, w), priority, t)
  /\ UNCHANGED <<current_free_tid, priority, send_queue, event_queue,
                 defunct_queue, events_waiting>>
  /\ Leave

\* Whoever replies first releases the sender: the code does not check that
\* the replier is the task that received the message.
Reply(t, w) ==
  /\ Calls(t)
  /\ w \in Tids
  /\ state[w] = STATE_REPLY_BLOCKED
  /\ state'       = [state EXCEPT ![w] = STATE_READY]
  /\ sent_to'     = [sent_to EXCEPT ![w] = NoTask]
  /\ ready_queue' = ReadyAdd(ReadyAdd(ready_queue, priority, w), priority, t)
  /\ UNCHANGED <<current_free_tid, priority, send_queue, event_queue,
                 defunct_queue, events_waiting>>
  /\ Leave

\* No such task, one that awaits no reply, or a reply that does not fit.
ReplyError(t, w, fits) ==
  /\ Calls(t)
  /\ \/ w \notin Tids
     \/ w \in Tids /\ state[w] # STATE_REPLY_BLOCKED
     \/ ~fits
  /\ Requeue(t)

\* Defect for NeverHaltsWithWork: the scheduler does not count the waiter.
AwaitEventUncounted(t, e) ==
  /\ Calls(t)
  /\ e \in Events
  /\ state' = [state EXCEPT ![t] = STATE_EVENT_START + e]
  /\ event_queue' = PushBack(event_queue, e, t)
  /\ UNCHANGED <<current_free_tid, priority, send_queue, sent_to,
                 ready_queue, defunct_queue, events_waiting>>
  /\ Leave

AwaitEvent(t, e) ==
  /\ Calls(t)
  /\ e \in Events
  /\ state' = [state EXCEPT ![t] = STATE_EVENT_START + e]
  /\ event_queue'    = PushBack(event_queue, e, t)
  /\ events_waiting' = events_waiting + 1
  /\ UNCHANGED <<current_free_tid, priority, send_queue, sent_to,
                 ready_queue, defunct_queue>>
  /\ Leave

AwaitEventError(t, e) == Calls(t) /\ e \notin Events /\ Requeue(t)

Shutdown(t) ==
  /\ Calls(t)
  /\ mode' = "halted"
  /\ UNCHANGED <<taskVars, queueVars, current_task, irqVars>>

SysCall(t) ==
  \/ Pass(t)
  \/ \E p \in -1 .. PRIORITY_HIGHEST + 1 : Create(t, p) \/ CreateError(t, p)
  \/ Exit(t)
  \/ \E dst \in -1 .. MAX_NUM_TASKS :
       \/ SendQueued(t, dst)
       \/ SendReceived(t, dst)
       \/ \E replylen \in 0 .. 1 : SendError(t, dst, replylen)
  \/ Receive(t)
  \/ ReceiveBlocks(t)
  \/ \E w \in -1 .. MAX_NUM_TASKS :
       Reply(t, w) \/ \E fits \in BOOLEAN : ReplyError(t, w, fits)
  \/ \E e \in IrqSources \cup {-1} : AwaitEvent(t, e) \/ AwaitEventError(t, e)
  \/ Shutdown(t)

-----------------------------------------------------------------------------
(* Hardware interrupts: interrupts_handle_irq and main()'s use of it.      *)

\* The order in which the handler looks at the causes.
IrqOrder == <<EVENT_TIMER, ESC_PRESSED, EVENT_UART2_RX, EVENT_UART2_TX,
              EVENT_UART1_RX, EVENT_UART1_TX>>

Serving(e) ==
  \E i \in DOMAIN IrqOrder :
    /\ IrqOrder[i] = e
    /\ e \in pending
    /\ \A j \in 1 .. i - 1 : IrqOrder[j] \notin pending

TakeIrq(causes) ==
  /\ mode = "user"
  /\ causes # {}
  /\ ~({ESC_PRESSED, EVENT_UART2_RX} \subseteq causes)   \* one byte is read
  /\ mode'    = "irq"
  /\ pending' = causes
  /\ UNCHANGED <<taskVars, queueVars, current_task, preempt, esc_dropped>>

\* Defect for PriorityRespected: the last task woken decides alone.
NotifyTaskLastWins(e) ==
  /\ mode = "irq"
  /\ Serving(e)
  /\ e \in Events
  /\ event_queue[e] # << >>
  /\ LET t == Head(event_queue[e])
     IN  /\ state'       = [state EXCEPT ![t] = STATE_READY]
         /\ ready_queue' = ReadyAdd(ready_queue, priority, t)
         /\ preempt'     = (priority[t] > priority[current_task])
  /\ event_queue'    = PopFront(event_queue, e)
  /\ events_waiting' = events_waiting - 1
  /\ UNCHANGED <<current_free_tid, priority, send_queue, sent_to,
                 defunct_queue, current_task, mode, pending, esc_dropped>>

\* One turn of notify_tasks' loop.
NotifyTask(e) ==
  /\ mode = "irq"
  /\ Serving(e)
  /\ e \in Events
  /\ event_queue[e] # << >>
  /\ LET t == Head(event_queue[e])
     IN  /\ state'       = [state EXCEPT ![t] = STATE_READY]
         /\ ready_queue' = ReadyAdd(ready_queue, priority, t)
         /\ preempt'     = (preempt \/ priority[t] > priority[current_task])
  /\ event_queue'    = PopFront(event_queue, e)
  /\ events_waiting' = events_waiting - 1
  /\ UNCHANGED <<current_free_tid, priority, send_queue, sent_to,
                 defunct_queue, current_task, mode, pending, esc_dropped>>

NotifyDone(e) ==
  /\ mode = "irq"
  /\ Serving(e)
  /\ e \in Events
  /\ event_queue[e] = << >>
  /\ pending' = pending \ {e}
  /\ UNCHANGED <<taskVars, queueVars, current_task, mode, preempt, esc_dropped>>

\* ESC: a dump on the terminal, then an immediate return of HWI_CONTINUE,
\* whatever the timer interrupt before it had asked for; main() still
\* reschedules if it was the idle task that was interrupted.
EscReturn ==
  /\ mode = "irq"
  /\ Serving(ESC_PRESSED)
  /\ pending' = {}
  /\ preempt' = FALSE
  /\ esc_dropped' = (esc_dropped \/ preempt)
  /\ UNCHANGED <<taskVars, queueVars, current_task, mode>>

ResumeTask ==
  /\ mode = "irq"
  /\ pending = {}
  /\ ~preempt /\ current_task # Idle
  /\ mode' = "user"
  /\ UNCHANGED <<taskVars, queueVars, current_task, irqVars>>

PreemptTask ==
  /\ mode = "irq"
  /\ pending = {}
  /\ preempt \/ current_task = Idle
  /\ ready_queue' = ReadyAdd(ready_queue, priority, current_task)
  /\ mode' = "schedule"
  /\ current_task' = NoTask
  /\ preempt' = FALSE       \* the handler's local variable is gone
  /\ esc_dropped' = FALSE
  /\ UNCHANGED <<taskVars, event_queue, defunct_queue, events_waiting, pending>>

Handler ==
  \/ \E e \in IrqSources : NotifyTask(e) \/ NotifyDone(e)
  \/ EscReturn
  \/ ResumeTask
  \/ PreemptTask

Schedule == (\E p \in Priorities : Dispatch(p)) \/ HaltKernel

\* main() has returned to the boot monitor.
Halted == mode = "halted" /\ UNCHANGED vars

Next ==
  \/ Schedule
  \/ \E t \in Tids : SysCall(t)
  \/ \E causes \in SUBSET IrqSources : TakeIrq(causes)
  \/ Handler
  \/ Halted

Spec == Init /\ [][Next]_vars

\* The kernel's own code always runs on; a running task traps sooner or later
\* however often it is interrupted and resumed.
Fairness ==
  /\ WF_vars(Schedule)
  /\ WF_vars(Handler)
  /\ \A t \in Tids : SF_vars(SysCall(t))

FairSpec == Spec /\ Fairness

-----------------------------------------------------------------------------
(* Properties.                                                             *)

Occurs(t, queue) == \E i \in 1 .. Len(queue) : queue[i] = t

NoRepeats(queue) ==
  \A i, j \in 1 .. Len(queue) : queue[i] = queue[j] => i = j

\* Types of all the kernel's variables; in particular the scheduler's counter
\* of event-blocked tasks never goes below zero.
TypeOK ==
  /\ current_free_tid \in 2 .. MAX_NUM_TASKS
  /\ state       \in [Tids -> States]
  /\ priority    \in [Tids -> Priorities]
  /\ send_queue  \in [Tids -> Seq(Tids)]
  /\ sent_to     \in [Tids -> Tids \cup {NoTask}]
  /\ ready_queue \in [Priorities -> Seq(Tids)]
  /\ event_queue \in [Events -> Seq(Tids)]
  /\ defunct_queue  \in Seq(Tids)
  /\ events_waiting \in Nat
  /\ current_task   \in Tids \cup {NoTask}
  /\ mode    \in {"schedule", "user", "irq", "halted"}
  /\ pending \subseteq IrqSources
  /\ preempt \in BOOLEAN
  /\ esc_dropped \in BOOLEAN

\* The table is handed out in order and the idle task alone has idle priority.
TaskTable ==
  /\ \A t \in Tids : state[t] = STATE_UNUSED <=> t >= current_free_tid
  /\ \A t \in Tids : t < current_free_tid =>
                         (priority[t] = PRIORITY_IDLE <=> t = Idle)
  /\ state[Idle] = STATE_READY

\* main()'s current_task is ready and in no queue.
CurrentTask ==
  /\ mode = "schedule" => current_task = NoTask
  /\ mode \in {"user", "irq"} => current_task # NoTask
  /\ current_task # NoTask => state[current_task] = STATE_READY

\* A ready task is current, or sits once in its own priority's queue.
ReadyQueues ==
  /\ \A p \in Priorities : NoRepeats(ready_queue[p])
  /\ \A p \in Priorities, t \in Tids :
       Occurs(t, ready_queue[p])
         <=> state[t] = STATE_READY /\ priority[t] = p /\ t # current_task

\* A task blocked on an event sits once in that event's queue, and
\* events_waiting is the number of all such tasks.
EventQueues ==
  /\ \A e \in Events : NoRepeats(event_queue[e])
  /\ \A e \in Events, t \in Tids :
       Occurs(t, event_queue[e]) <=> state[t] = STATE_EVENT_START + e
  /\ events_waiting = EventBlockedCount

\* A task whose message is not received yet sits once in the send queue of the
\* task it sent to, and a task that waits in Receive has an empty send queue.
SendQueues ==
  /\ \A r \in Tids : NoRepeats(send_queue[r])
  /\ \A r, t \in Tids :
       Occurs(t, send_queue[r])
         <=> state[t] = STATE_RECEIVE_BLOCKED /\ sent_to[t] = r
  /\ \A t \in Tids : state[t] = STATE_RECEIVE_BLOCKED => sent_to[t] \in Tids
  /\ \A r \in Tids : state[r] \in {STATE_SEND_BLOCKED, STATE_UNUSED}
                        => send_queue[r] = << >>

\* A task has one `next' link, shared by every queue of the kernel: linking it
\* into a second queue would cut both.  Each task is in exactly the one queue
\* its state calls for (scheduler_add, task_queue_push_back).
OneQueuePerTask ==
  TaskTable /\ CurrentTask /\ ReadyQueues /\ EventQueues /\ SendQueues

\* When main() leaves its loop because scheduler_get_next returned 0, no task
\* but the idle one is ready and none waits for an interrupt: nothing that
\* could still have run is abandoned (scheduler.c:73-77).
NeverHaltsWithWork ==
  mode = "halted" /\ current_task = NoTask =>
    \A t \in Tids \ {Idle} :
      state[t] \in {STATE_UNUSED, STATE_DEFUNCT, STATE_SEND_BLOCKED,
                     STATE_RECEIVE_BLOCKED, STATE_REPLY_BLOCKED}

\* While a task runs, no task of higher priority is ready: a wake-up by one of
\* several interrupts served together is not forgotten (interrupts.c:231).  The
\* exception is the ESC key, whose early return drops the timer's preemption.
PriorityRespected ==
  /\ mode = "user" /\ ~esc_dropped =>
       \A t \in Tids : state[t] = STATE_READY
                         => priority[t] <= priority[current_task]
  /\ esc_dropped => ESC_PRESSED \in IrqSources

\* The tasks see MessagePassing and nothing else of the kernel's Send, Receive
\* and Reply: first in first out, one reply per message, no lost wake-up.
StatusOf(s) ==
  CASE s = STATE_UNUSED          -> "unborn"
    [] s = STATE_DEFUNCT         -> "dead"
    [] s = STATE_READY           -> "able"
    [] s = STATE_SEND_BLOCKED    -> "receiving"
    [] s = STATE_RECEIVE_BLOCKED -> "posted"
    [] s = STATE_REPLY_BLOCKED   -> "taken"
    [] OTHER                     -> "waiting"

IPC == INSTANCE MessagePassing WITH
         Task <- Tids, Started <- {Idle, First}, Nobody <- NoTask,
         status <- [t \in Tids |-> StatusOf(state[t])],
         inbox  <- send_queue,
         peer   <- sent_to

MessagePassingSpec == IPC!Spec

\* Round robin leaves nobody behind at the highest priority: a ready task of
\* that priority runs, or the kernel is shut down.  (Lower priorities may starve.)
TopPriorityRuns ==
  \A t \in Tids :
    (state[t] = STATE_READY /\ priority[t] = PRIORITY_HIGHEST)
      ~> (current_task = t \/ mode = "halted")
=============================================================================
