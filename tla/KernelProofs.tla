---------------------------- MODULE KernelProofs ----------------------------
(* Proofs about Kernel, for every table size, priority range and set of     *)
(* interrupt causes.                                                        *)
EXTENDS Kernel, TLAPS

-----------------------------------------------------------------------------
(* Families of queues: what a push at the back and a pop at the front do to  *)
(* the set of tasks each queue holds.                                        *)

\* Appending an element adds exactly that element, and repeats nothing that
\* was not there (task_queue_push_back).
LEMMA AppendFacts ==
  ASSUME NEW q \in Seq(Tids), NEW x \in Tids
  PROVE  /\ Append(q, x) \in Seq(Tids)
         /\ Len(Append(q, x)) = Len(q) + 1
         /\ Append(q, x) # << >>
         /\ \A y : Occurs(y, Append(q, x)) <=> Occurs(y, q) \/ y = x
         /\ NoRepeats(q) /\ ~Occurs(x, q) => NoRepeats(Append(q, x))
<1>1. /\ Append(q, x) \in Seq(Tids) /\ Len(Append(q, x)) = Len(q) + 1
      /\ \A i \in 1 .. Len(q) : Append(q, x)[i] = q[i]
      /\ Append(q, x)[Len(q) + 1] = x
  OBVIOUS
<1>2. Len(q) \in Nat
  OBVIOUS
<1>3. \A y : Occurs(y, Append(q, x)) <=> Occurs(y, q) \/ y = x
  BY <1>1, <1>2 DEF Occurs
<1>4. NoRepeats(q) /\ ~Occurs(x, q) => NoRepeats(Append(q, x))
  BY <1>1, <1>2 DEF Occurs, NoRepeats
<1>5. Append(q, x) # << >>
  BY <1>1, <1>2
<1>6. QED
  BY <1>1, <1>3, <1>4, <1>5

\* The tail of a queue holds everything but its head, if nothing repeats
\* (task_queue_pop_front).
LEMMA TailFacts ==
  ASSUME NEW q \in Seq(Tids), q # << >>
  PROVE  /\ Head(q) \in Tids /\ Occurs(Head(q), q)
         /\ Tail(q) \in Seq(Tids)
         /\ Len(Tail(q)) = Len(q) - 1
         /\ NoRepeats(q) =>
              /\ NoRepeats(Tail(q))
              /\ \A y : Occurs(y, Tail(q)) <=> Occurs(y, q) /\ y # Head(q)
<1>1. /\ Head(q) = q[1] /\ Head(q) \in Tids /\ Tail(q) \in Seq(Tids)
      /\ Len(q) \in Nat \ {0} /\ Len(Tail(q)) = Len(q) - 1
      /\ \A i \in 1 .. Len(q) - 1 : Tail(q)[i] = q[i + 1]
  OBVIOUS
<1>2. Occurs(Head(q), q)
  BY <1>1 DEF Occurs
<1>3. ASSUME NoRepeats(q)
      PROVE  NoRepeats(Tail(q))
  BY <1>1, <1>3 DEF NoRepeats
<1>4. ASSUME NoRepeats(q), NEW y
      PROVE  Occurs(y, Tail(q)) <=> Occurs(y, q) /\ y # Head(q)
  <2>1. ASSUME Occurs(y, Tail(q))
        PROVE  Occurs(y, q) /\ y # Head(q)
    <3>1. PICK i \in 1 .. Len(q) - 1 : q[i + 1] = y
      BY <1>1, <2>1 DEF Occurs
    <3>2. i + 1 \in 1 .. Len(q) /\ i + 1 # 1
      BY <1>1
    <3>3. QED
      BY <1>1, <1>4, <3>1, <3>2 DEF Occurs, NoRepeats
  <2>2. ASSUME Occurs(y, q), y # Head(q)
        PROVE  Occurs(y, Tail(q))
    <3>1. PICK i \in 1 .. Len(q) : q[i] = y
      BY <2>2 DEF Occurs
    <3>2. i - 1 \in 1 .. Len(q) - 1
      BY <1>1, <2>2, <3>1
    <3>3. Tail(q)[i - 1] = y
      BY <1>1, <3>1, <3>2
    <3>4. QED
      BY <1>1, <3>2, <3>3 DEF Occurs
  <2>3. QED
    BY <2>1, <2>2
<1>5. QED
  BY <1>1, <1>2, <1>3, <1>4

\* A queue that holds no task is empty, and conversely.
LEMMA EmptyFacts ==
  ASSUME NEW q \in Seq(Tids)
  PROVE  q = << >> <=> \A t \in Tids : ~Occurs(t, q)
<1>1. CASE q = << >>
  BY <1>1 DEF Occurs
<1>2. CASE q # << >>
  BY <1>2, TailFacts
<1>3. QED
  BY <1>1, <1>2

\* A family of task queues indexed by K.
Family(qs, K) == qs \in [K -> Seq(Tids)]

\* A push keeps the family's type.
LEMMA PushFamily ==
  ASSUME NEW K, NEW qs, Family(qs, K), NEW k \in K, NEW x \in Tids
  PROVE  Family(PushBack(qs, k, x), K)
<1>1. qs[k] \in Seq(Tids)
  BY DEF Family
<1>2. Append(qs[k], x) \in Seq(Tids)
  BY <1>1, AppendFacts
<1>3. QED
  BY <1>2 DEF PushBack, Family

\* A push adds x to queue k and touches no other queue.
LEMMA PushOccurs ==
  ASSUME NEW K, NEW qs, Family(qs, K), NEW k \in K, NEW x \in Tids,
         NEW j \in K, NEW y \in Tids
  PROVE  Occurs(y, PushBack(qs, k, x)[j])
           <=> Occurs(y, qs[j]) \/ (j = k /\ y = x)
<1>1. qs[k] \in Seq(Tids)
  BY DEF Family
<1>2. PushBack(qs, k, x)[j] = IF j = k THEN Append(qs[k], x) ELSE qs[j]
  BY DEF PushBack, Family
<1>3. QED
  BY <1>1, <1>2, AppendFacts

\* A push of a task the queue does not hold keeps every queue of the
\* family free of repeats (queue_push).
LEMMA PushNoRepeats ==
  ASSUME NEW K, NEW qs, Family(qs, K), NEW k \in K, NEW x \in Tids,
         NEW j \in K, NoRepeats(qs[j]), ~Occurs(x, qs[k])
  PROVE  NoRepeats(PushBack(qs, k, x)[j])
<1>1. qs[k] \in Seq(Tids)
  BY DEF Family
<1>2. PushBack(qs, k, x)[j] = IF j = k THEN Append(qs[k], x) ELSE qs[j]
  BY DEF PushBack, Family
<1>3. QED
  BY <1>1, <1>2, AppendFacts

\* A pop keeps the family's type and returns a task of queue k.
LEMMA PopFamily ==
  ASSUME NEW K, NEW qs, Family(qs, K), NEW k \in K, qs[k] # << >>
  PROVE  /\ Family(PopFront(qs, k), K)
         /\ Head(qs[k]) \in Tids
         /\ Occurs(Head(qs[k]), qs[k])
<1>1. qs[k] \in Seq(Tids)
  BY DEF Family
<1>2. Tail(qs[k]) \in Seq(Tids) /\ Head(qs[k]) \in Tids /\ Occurs(Head(qs[k]), qs[k])
  BY <1>1, TailFacts
<1>3. QED
  BY <1>2 DEF PopFront, Family

\* A pop removes the head of queue k and touches no other queue.
LEMMA PopOccurs ==
  ASSUME NEW K, NEW qs, Family(qs, K), NEW k \in K, qs[k] # << >>,
         NoRepeats(qs[k]), NEW j \in K, NEW y \in Tids
  PROVE  Occurs(y, PopFront(qs, k)[j])
           <=> Occurs(y, qs[j]) /\ ~(j = k /\ y = Head(qs[k]))
<1>1. qs[k] \in Seq(Tids)
  BY DEF Family
<1>2. PopFront(qs, k)[j] = IF j = k THEN Tail(qs[k]) ELSE qs[j]
  BY DEF PopFront, Family
<1>3. QED
  BY <1>1, <1>2, TailFacts

\* A pop keeps every queue of the family free of repeats (queue_pop).
LEMMA PopNoRepeats ==
  ASSUME NEW K, NEW qs, Family(qs, K), NEW k \in K, qs[k] # << >>,
         NoRepeats(qs[k]), NEW j \in K, NoRepeats(qs[j])
  PROVE  NoRepeats(PopFront(qs, k)[j])
<1>1. qs[k] \in Seq(Tids)
  BY DEF Family
<1>2. PopFront(qs, k)[j] = IF j = k THEN Tail(qs[k]) ELSE qs[j]
  BY DEF PopFront, Family
<1>3. QED
  BY <1>1, <1>2, TailFacts

-----------------------------------------------------------------------------
(* The inductive invariant.                                                *)

\* A handler that has not asked for a preemption has woken nobody above the
\* current task, and between interrupts nobody ready is above it.
PreemptInv ==
  /\ mode # "irq" => preempt = FALSE
  /\ mode \in {"user", "irq"} /\ preempt = FALSE /\ esc_dropped = FALSE
       => NoneReadyAbove(priority[current_task])
  /\ esc_dropped = TRUE => ESC_PRESSED \in IrqSources

\* What was true when scheduler_get_next returned 0.
HaltInv ==
  mode = "halted" /\ current_task = NoTask
    => NoneReadyAbove(PRIORITY_IDLE) /\ events_waiting = 0

IInv == TypeOK /\ OneQueuePerTask /\ PreemptInv /\ HaltInv

USE DEF STATE_UNUSED, STATE_DEFUNCT, STATE_READY, STATE_SEND_BLOCKED,
        STATE_RECEIVE_BLOCKED, STATE_REPLY_BLOCKED, STATE_EVENT_START, STATE_EVENT_END, States,
        PRIORITY_IDLE, PRIORITY_LOWEST, EVENT_TIMER, EVENT_UART1_RX,
        EVENT_UART1_TX, EVENT_UART2_RX, EVENT_UART2_TX, Idle, First, NoTask

\* The invariant holds once tasks_init, scheduler_init and the creation of
\* the first and the idle task are done.
LEMMA InitInv == Init => IInv
<1> SUFFICES ASSUME Init PROVE IInv
  OBVIOUS
<1> USE TaskTableAssumption, PriorityAssumption DEF Init, Tids, Priorities, Events
<1>1. TypeOK
  <2>1. << >> \in Seq(Tids) /\ <<Idle>> \in Seq(Tids) /\ <<First>> \in Seq(Tids)
    BY Idle \in Tids, First \in Tids
  <2>2. ready_queue \in [Priorities -> Seq(Tids)]
    BY <2>1
  <2>3. state \in [Tids -> States] /\ priority \in [Tids -> Priorities]
    OBVIOUS
  <2>4. send_queue \in [Tids -> Seq(Tids)] /\ event_queue \in [Events -> Seq(Tids)]
    BY <2>1
  <2>5. sent_to \in [Tids -> Tids \cup {NoTask}] /\ current_free_tid \in 2 .. MAX_NUM_TASKS
    OBVIOUS
  <2>6. QED
    BY <2>1, <2>2, <2>3, <2>4, <2>5 DEF TypeOK
<1>2. TaskTable /\ CurrentTask
  BY DEF TaskTable, CurrentTask
<1>3. ReadyQueues
  BY DEF ReadyQueues, NoRepeats, Occurs
<1>4. EventQueues
  BY DEF EventQueues, NoRepeats, Occurs, EventBlockedCount
<1>5. SendQueues
  BY DEF SendQueues, NoRepeats, Occurs
<1>6. PreemptInv /\ HaltInv
  BY DEF PreemptInv, HaltInv
<1>7. QED
  BY <1>1, <1>2, <1>3, <1>4, <1>5, <1>6 DEF IInv, OneQueuePerTask

\* What every action may use of the invariant.
LEMMA Facts ==
  ASSUME IInv
  PROVE  /\ TypeOK /\ TaskTable /\ CurrentTask /\ ReadyQueues /\ EventQueues
         /\ SendQueues /\ PreemptInv /\ HaltInv
         /\ MAX_NUM_TASKS \in Nat /\ MAX_NUM_TASKS >= 2
         /\ PRIORITY_HIGHEST \in Nat /\ PRIORITY_HIGHEST >= 1
         /\ NoTask \notin Tids /\ Idle \in Tids /\ PRIORITY_IDLE \in Priorities
         /\ \A e \in Events : e \in Nat
BY TaskTableAssumption, PriorityAssumption
   DEF IInv, OneQueuePerTask, Tids, Priorities, Events

\* scheduler_add of a task x that is in no ready queue.
LEMMA ReadyAddFacts ==
  ASSUME NEW rq, Family(rq, Priorities),
         NEW prio \in [Tids -> Priorities], NEW x \in Tids
  PROVE  /\ Family(ReadyAdd(rq, prio, x), Priorities)
         /\ \A p \in Priorities, y \in Tids :
              Occurs(y, ReadyAdd(rq, prio, x)[p])
                <=> Occurs(y, rq[p]) \/ (p = prio[x] /\ y = x)
         /\ (\A p \in Priorities : NoRepeats(rq[p])) /\ ~Occurs(x, rq[prio[x]])
              => \A p \in Priorities : NoRepeats(ReadyAdd(rq, prio, x)[p])
<1>1. prio[x] \in Priorities
  OBVIOUS
<1>2. QED
  BY <1>1, PushFamily, PushOccurs, PushNoRepeats DEF ReadyAdd

\* A call that only puts its caller back in the ready queue keeps the
\* invariant: Pass, the calls that read the task table, and refused calls.
LEMMA RequeueInv ==
  ASSUME IInv, NEW t \in Tids, Calls(t), Requeue(t)
  PROVE  IInv'
<1> USE Facts DEF TypeOK, Calls, Requeue, Leave, taskVars
<1> DEFINE rq == ReadyAdd(ready_queue, priority, t)
<1>1. /\ Family(rq, Priorities)
      /\ \A p \in Priorities, y \in Tids :
           Occurs(y, rq[p]) <=> Occurs(y, ready_queue[p]) \/ (p = priority[t] /\ y = t)
      /\ (\A p \in Priorities : NoRepeats(ready_queue[p])) /\ ~Occurs(t, ready_queue[priority[t]])
           => \A p \in Priorities : NoRepeats(rq[p])
  BY ReadyAddFacts DEF Family
<1>2. ready_queue' = rq
  OBVIOUS
<1> HIDE DEF rq
<1>3. TypeOK'
  BY <1>1, <1>2 DEF Family
<1>4. TaskTable' /\ CurrentTask'
  BY DEF TaskTable, CurrentTask
<1>5. ReadyQueues'
  <2>1. ~Occurs(t, ready_queue[priority[t]]) /\ state[t] = STATE_READY
    BY DEF ReadyQueues, CurrentTask
  <2>2. \A p \in Priorities : NoRepeats(rq[p])
    BY <1>1, <2>1 DEF ReadyQueues
  <2>3. \A p \in Priorities, y \in Tids :
          Occurs(y, rq[p])
            <=> state[y] = STATE_READY /\ priority[y] = p /\ y # NoTask
    BY <1>1, <2>1 DEF ReadyQueues
  <2>4. QED
    BY <1>2, <2>2, <2>3 DEF ReadyQueues
<1>6. EventQueues'
  BY DEF EventQueues, EventBlockedCount
<1>7. SendQueues'
  BY DEF SendQueues
<1>8. PreemptInv' /\ HaltInv'
  BY DEF PreemptInv, HaltInv
<1>9. QED
  BY <1>3, <1>4, <1>5, <1>6, <1>7, <1>8 DEF IInv, OneQueuePerTask

\* A step that moves no task into or out of AwaitEvent and leaves the event
\* queues alone keeps EventQueues.
LEMMA EventQueuesKept ==
  ASSUME EventQueues, event_queue' = event_queue,
         events_waiting' = events_waiting,
         \A y \in Tids : \A e \in Events :
           state'[y] = STATE_EVENT_START + e <=> state[y] = STATE_EVENT_START + e
  PROVE  EventQueues'
<1>1. EventBlockedCount' = EventBlockedCount
  BY DEF EventBlockedCount
<1>2. QED
  BY <1>1 DEF EventQueues

\* A step that moves no task into or out of an unfinished Send or Receive and
\* leaves the send queues alone keeps SendQueues.
LEMMA SendQueuesKept ==
  ASSUME SendQueues, UNCHANGED send_queue,
         \A y \in Tids :
           /\ state'[y] = STATE_RECEIVE_BLOCKED <=> state[y] = STATE_RECEIVE_BLOCKED
           /\ state[y] = STATE_RECEIVE_BLOCKED => sent_to'[y] = sent_to[y]
           /\ state'[y] \in {STATE_SEND_BLOCKED, STATE_UNUSED}
                => state[y] \in {STATE_SEND_BLOCKED, STATE_UNUSED}
  PROVE  SendQueues'
BY DEF SendQueues

\* Exit moves the caller to the defunct queue and keeps the invariant.
LEMMA ExitInv ==
  ASSUME IInv, NEW t \in Tids, Exit(t)
  PROVE  IInv'
<1>1. /\ mode = "user" /\ state[t] = STATE_READY /\ current_task = t /\ t # NoTask /\ t # Idle
      /\ state \in [Tids -> States] /\ state' \in [Tids -> States]
      /\ \A y \in Tids : state'[y] = IF y = t THEN STATE_DEFUNCT ELSE state[y]
  BY Facts DEF TypeOK, CurrentTask, Exit, Calls
<1>2. /\ UNCHANGED <<current_free_tid, priority, send_queue, sent_to,
                     ready_queue, event_queue, events_waiting, pending, preempt>>
      /\ defunct_queue' = Append(defunct_queue, t)
      /\ mode' = "schedule" /\ current_task' = NoTask /\ esc_dropped' = FALSE
  BY DEF Exit, Leave
<1>3. TypeOK'
  <2>1. defunct_queue' \in Seq(Tids)
    BY <1>2, Facts, AppendFacts DEF TypeOK
  <2>2. QED
    BY <1>1, <1>2, <2>1, Facts DEF TypeOK
<1>4. TaskTable' /\ CurrentTask'
  BY <1>1, <1>2, Facts DEF TaskTable, CurrentTask, TypeOK
<1>5. ReadyQueues'
  BY <1>1, <1>2, Facts DEF ReadyQueues
<1>6. EventQueues'
  BY <1>1, <1>2, Facts, EventQueuesKept
<1>7. SendQueues'
  BY <1>1, <1>2, Facts, SendQueuesKept
<1>8. PreemptInv' /\ HaltInv'
  BY <1>1, <1>2, Facts DEF PreemptInv, HaltInv
<1>9. QED
  BY <1>3, <1>4, <1>5, <1>6, <1>7, <1>8 DEF IInv, OneQueuePerTask

\* Receive with no sender waiting leaves the caller in no queue at all.
LEMMA ReceiveBlocksInv ==
  ASSUME IInv, NEW t \in Tids, ReceiveBlocks(t)
  PROVE  IInv'
<1>1. /\ mode = "user" /\ state[t] = STATE_READY /\ current_task = t /\ t # NoTask
      /\ t # Idle /\ send_queue[t] = << >>
      /\ state \in [Tids -> States] /\ state' \in [Tids -> States]
      /\ \A y \in Tids : state'[y] = IF y = t THEN STATE_SEND_BLOCKED ELSE state[y]
  BY Facts DEF TypeOK, CurrentTask, ReceiveBlocks, Calls
<1>2. /\ UNCHANGED <<current_free_tid, priority, send_queue, sent_to, ready_queue,
                     event_queue, defunct_queue, events_waiting, pending, preempt>>
      /\ mode' = "schedule" /\ current_task' = NoTask /\ esc_dropped' = FALSE
  BY DEF ReceiveBlocks, Leave, queueVars
<1>3. TypeOK'
  BY <1>1, <1>2, Facts DEF TypeOK
<1>4. TaskTable' /\ CurrentTask'
  BY <1>1, <1>2, Facts DEF TaskTable, CurrentTask, TypeOK
<1>5. ReadyQueues'
  BY <1>1, <1>2, Facts DEF ReadyQueues
<1>6. EventQueues'
  BY <1>1, <1>2, Facts, EventQueuesKept
<1>7. SendQueues'
  BY <1>1, <1>2, Facts DEF SendQueues
<1>8. PreemptInv' /\ HaltInv'
  BY <1>1, <1>2, Facts DEF PreemptInv, HaltInv
<1>9. QED
  BY <1>3, <1>4, <1>5, <1>6, <1>7, <1>8 DEF IInv, OneQueuePerTask

\* Send to a task that is not receive-blocked queues the caller at that
\* task, and at no other.
LEMMA SendQueuedInv ==
  ASSUME IInv, NEW t \in Tids, NEW dst, SendQueued(t, dst)
  PROVE  IInv'
<1> DEFINE sq == PushBack(send_queue, dst, t)
<1>1. /\ mode = "user" /\ state[t] = STATE_READY /\ current_task = t /\ t # NoTask
      /\ t # Idle /\ dst \in Tids
      /\ state[dst] \notin {STATE_UNUSED, STATE_SEND_BLOCKED}
      /\ state \in [Tids -> States] /\ state' \in [Tids -> States]
      /\ \A y \in Tids : state'[y] = IF y = t THEN STATE_RECEIVE_BLOCKED ELSE state[y]
      /\ sent_to' \in [Tids -> Tids \cup {NoTask}]
      /\ \A y \in Tids : sent_to'[y] = IF y = t THEN dst ELSE sent_to[y]
  BY Facts DEF TypeOK, CurrentTask, SendQueued, CanSendTo, Calls
<1>2. /\ UNCHANGED <<current_free_tid, priority, ready_queue,
                     event_queue, defunct_queue, events_waiting, pending, preempt>>
      /\ mode' = "schedule" /\ current_task' = NoTask /\ esc_dropped' = FALSE
      /\ send_queue' = sq
  BY DEF SendQueued, Leave, queueVars
<1>3. /\ Family(sq, Tids)
      /\ \A r \in Tids : r # dst => sq[r] = send_queue[r]
      /\ \A r, y \in Tids :
           Occurs(y, sq[r]) <=> Occurs(y, send_queue[r]) \/ (r = dst /\ y = t)
      /\ \A r \in Tids : NoRepeats(sq[r])
  <2>1. /\ Family(send_queue, Tids)
        /\ ~Occurs(t, send_queue[dst]) /\ \A r \in Tids : NoRepeats(send_queue[r])
    BY <1>1, Facts DEF SendQueues, TypeOK, Family
  <2>2. dst \in Tids
    BY <1>1
  <2>3. \A r \in Tids : r # dst => sq[r] = send_queue[r]
    BY DEF PushBack
  <2>4. QED
    BY <2>1, <2>2, <2>3, PushFamily, PushOccurs, PushNoRepeats
<1> HIDE DEF sq
<1>4. TypeOK'
  BY <1>1, <1>2, <1>3, Facts DEF TypeOK, Family
<1>5. TaskTable' /\ CurrentTask'
  BY <1>1, <1>2, Facts DEF TaskTable, CurrentTask, TypeOK
<1>6. ReadyQueues'
  BY <1>1, <1>2, Facts DEF ReadyQueues
<1>7. EventQueues'
  BY <1>1, <1>2, Facts, EventQueuesKept
<1>8. SendQueues'
  <2>1. ASSUME NEW r \in Tids, NEW y \in Tids
        PROVE  Occurs(y, sq[r]) <=> state'[y] = STATE_RECEIVE_BLOCKED /\ sent_to'[y] = r
    <3>1. Occurs(y, send_queue[r]) <=> state[y] = STATE_RECEIVE_BLOCKED /\ sent_to[y] = r
      BY Facts DEF SendQueues
    <3>2. QED
      BY <1>1, <1>3, <3>1
  <2>2. ASSUME NEW r \in Tids, state'[r] \in {STATE_SEND_BLOCKED, STATE_UNUSED}
        PROVE  sq[r] = << >>
    BY <1>1, <1>3, <2>2, Facts DEF SendQueues
  <2>3. \A y \in Tids : state'[y] = STATE_RECEIVE_BLOCKED => sent_to'[y] \in Tids
    BY <1>1, Facts DEF SendQueues
  <2>4. QED
    BY <1>2, <1>3, <2>1, <2>2, <2>3 DEF SendQueues
<1>9. PreemptInv' /\ HaltInv'
  BY <1>1, <1>2, Facts DEF PreemptInv, HaltInv
<1>10. QED
  BY <1>4, <1>5, <1>6, <1>7, <1>8, <1>9 DEF IInv, OneQueuePerTask

\* Receive takes the oldest sender out of the caller's send queue and makes
\* it reply-blocked.
LEMMA ReceiveInv ==
  ASSUME IInv, NEW t \in Tids, Receive(t)
  PROVE  IInv'
<1> DEFINE s  == Head(send_queue[t])
           sq == PopFront(send_queue, t)
           rq == ReadyAdd(ready_queue, priority, t)
<1>1. /\ mode = "user" /\ state[t] = STATE_READY /\ current_task = t /\ t # NoTask
      /\ t # Idle /\ send_queue[t] # << >>
      /\ state \in [Tids -> States] /\ priority \in [Tids -> Priorities]
  BY Facts DEF TypeOK, CurrentTask, Receive, Calls
<1>2. /\ Family(sq, Tids)
      /\ s \in Tids /\ Occurs(s, send_queue[t])
      /\ \A r \in Tids : r # t => sq[r] = send_queue[r]
      /\ \A r, y \in Tids :
           Occurs(y, sq[r]) <=> Occurs(y, send_queue[r]) /\ ~(r = t /\ y = s)
      /\ \A r \in Tids : NoRepeats(sq[r])
  <2>1. Family(send_queue, Tids) /\ \A r \in Tids : NoRepeats(send_queue[r])
    BY Facts DEF SendQueues, TypeOK, Family
  <2>2. send_queue[t] # << >>
    BY <1>1
  <2>3. \A r \in Tids : r # t => sq[r] = send_queue[r]
    BY DEF PopFront
  <2>4. QED
    BY <2>1, <2>2, <2>3, PopFamily, PopOccurs, PopNoRepeats
<1>3. /\ Family(rq, Priorities)
      /\ \A p \in Priorities, y \in Tids :
           Occurs(y, rq[p]) <=> Occurs(y, ready_queue[p]) \/ (p = priority[t] /\ y = t)
      /\ \A p \in Priorities : NoRepeats(rq[p])
  <2>1. /\ Family(ready_queue, Priorities)
        /\ ~Occurs(t, ready_queue[priority[t]])
        /\ \A p \in Priorities : NoRepeats(ready_queue[p])
    BY <1>1, Facts DEF ReadyQueues, TypeOK, Family
  <2>2. priority \in [Tids -> Priorities]
    BY <1>1
  <2>3. QED
    BY <2>1, <2>2, ReadyAddFacts
<1>4. /\ UNCHANGED <<current_free_tid, priority, sent_to, event_queue,
                     defunct_queue, events_waiting, pending, preempt>>
      /\ mode' = "schedule" /\ current_task' = NoTask /\ esc_dropped' = FALSE
      /\ send_queue' = sq /\ ready_queue' = rq
      /\ state' = [state EXCEPT ![s] = STATE_REPLY_BLOCKED]
  BY DEF Receive, Leave
<1> HIDE DEF s, sq, rq
<1>5. /\ s # t /\ state[s] = STATE_RECEIVE_BLOCKED
      /\ state' \in [Tids -> States]
      /\ \A y \in Tids : state'[y] = IF y = s THEN STATE_REPLY_BLOCKED ELSE state[y]
  BY <1>1, <1>2, <1>4, Facts DEF SendQueues
<1>6. TypeOK'
  BY <1>2, <1>3, <1>4, <1>5, Facts DEF TypeOK, Family
<1>7. TaskTable' /\ CurrentTask'
  BY <1>1, <1>2, <1>4, <1>5, Facts DEF TaskTable, CurrentTask, TypeOK
<1>8. ReadyQueues'
  BY <1>1, <1>3, <1>4, <1>5, Facts DEF ReadyQueues
<1>9. EventQueues'
  BY <1>4, <1>5, Facts, EventQueuesKept
<1>10. SendQueues'
  <2>1. ASSUME NEW r \in Tids, NEW y \in Tids
        PROVE  Occurs(y, sq[r]) <=> state'[y] = STATE_RECEIVE_BLOCKED /\ sent_to[y] = r
    <3>1. /\ Occurs(y, send_queue[r]) <=> state[y] = STATE_RECEIVE_BLOCKED /\ sent_to[y] = r
          /\ Occurs(s, send_queue[t]) <=> state[s] = STATE_RECEIVE_BLOCKED /\ sent_to[s] = t
      BY <1>2, Facts DEF SendQueues
    <3>2. QED
      BY <1>2, <1>5, <3>1
  <2>2. ASSUME NEW r \in Tids, state'[r] \in {STATE_SEND_BLOCKED, STATE_UNUSED}
        PROVE  sq[r] = << >>
    <3>1. state[r] \in {STATE_SEND_BLOCKED, STATE_UNUSED} /\ r # t
      BY <1>1, <1>5, <2>2
    <3>2. QED
      BY <1>2, <3>1, Facts DEF SendQueues
  <2>3. \A y \in Tids : state'[y] = STATE_RECEIVE_BLOCKED => sent_to[y] \in Tids
    BY <1>5, Facts DEF SendQueues
  <2>4. QED
    BY <1>2, <1>4, <2>1, <2>2, <2>3 DEF SendQueues
<1>11. PreemptInv' /\ HaltInv'
  BY <1>1, <1>4, Facts DEF PreemptInv, HaltInv
<1>12. QED
  BY <1>6, <1>7, <1>8, <1>9, <1>10, <1>11 DEF IInv, OneQueuePerTask

\* The receiver waits in Receive, so its send queue was empty: the task that
\* sys_receive pops is the sender itself.
LEMMA SendReceivedIsHandOver ==
  ASSUME IInv, NEW t \in Tids, NEW dst, SendReceived(t, dst)
  PROVE  /\ mode = "user" /\ current_task = t /\ t # Idle /\ t # dst /\ dst \in Tids
         /\ state[t] = STATE_READY /\ state[dst] = STATE_SEND_BLOCKED
         /\ send_queue[dst] = << >> /\ send_queue' = send_queue
         /\ state' = [state EXCEPT ![t] = STATE_REPLY_BLOCKED, ![dst] = STATE_READY]
<1>1. /\ mode = "user" /\ current_task = t /\ t # Idle /\ dst \in Tids
      /\ state[t] = STATE_READY /\ state[dst] = STATE_SEND_BLOCKED
      /\ send_queue[dst] = << >> /\ send_queue \in [Tids -> Seq(Tids)]
      /\ state \in [Tids -> States]
  BY Facts DEF SendReceived, CanSendTo, Calls, CurrentTask, SendQueues, TypeOK
<1>2. t # dst
  BY <1>1
<1> DEFINE pushed == PushBack(send_queue, dst, t)
<1>3. pushed[dst] = <<t>> /\ Head(pushed[dst]) = t /\ Tail(pushed[dst]) = << >>
      /\ pushed = [send_queue EXCEPT ![dst] = <<t>>]
  BY <1>1 DEF PushBack
<1>4. /\ send_queue' = PopFront(pushed, dst)
      /\ state' = [state EXCEPT ![t] = STATE_RECEIVE_BLOCKED,
                                ![Head(pushed[dst])] = STATE_REPLY_BLOCKED,
                                ![dst] = STATE_READY]
  BY DEF SendReceived
<1>5. send_queue' = send_queue
  BY <1>1, <1>3, <1>4 DEF PopFront
<1> HIDE DEF pushed
<1>6. state' = [state EXCEPT ![t] = STATE_REPLY_BLOCKED, ![dst] = STATE_READY]
  BY <1>1, <1>2, <1>3, <1>4
<1>7. QED
  BY <1>1, <1>2, <1>5, <1>6

\* Send to a receive-blocked task makes that task ready and the caller
\* reply-blocked.
LEMMA SendReceivedInv ==
  ASSUME IInv, NEW t \in Tids, NEW dst, SendReceived(t, dst)
  PROVE  IInv'
<1> DEFINE rq == ReadyAdd(ready_queue, priority, dst)
<1>1. /\ mode = "user" /\ state[t] = STATE_READY /\ current_task = t /\ t # NoTask
      /\ t # Idle /\ t # dst /\ dst \in Tids /\ state[dst] = STATE_SEND_BLOCKED
      /\ state \in [Tids -> States] /\ priority \in [Tids -> Priorities]
      /\ dst # Idle /\ dst # NoTask
  BY Facts, SendReceivedIsHandOver DEF TypeOK, TaskTable
<1>2. /\ state' \in [Tids -> States]
      /\ \A y \in Tids : state'[y] = IF y = t THEN STATE_REPLY_BLOCKED
                                     ELSE IF y = dst THEN STATE_READY ELSE state[y]
  BY <1>1, SendReceivedIsHandOver
<1>3. /\ sent_to' \in [Tids -> Tids \cup {NoTask}]
      /\ \A y \in Tids : sent_to'[y] = IF y = t THEN dst ELSE sent_to[y]
  BY <1>1, Facts DEF SendReceived, TypeOK
<1>4. /\ UNCHANGED <<current_free_tid, priority, send_queue, event_queue,
                     defunct_queue, events_waiting, pending, preempt>>
      /\ mode' = "schedule" /\ current_task' = NoTask /\ esc_dropped' = FALSE
      /\ ready_queue' = rq
  BY SendReceivedIsHandOver DEF SendReceived, Leave
<1>5. /\ Family(rq, Priorities)
      /\ \A p \in Priorities, y \in Tids :
           Occurs(y, rq[p]) <=> Occurs(y, ready_queue[p]) \/ (p = priority[dst] /\ y = dst)
      /\ \A p \in Priorities : NoRepeats(rq[p])
  <2>1. /\ Family(ready_queue, Priorities)
        /\ ~Occurs(dst, ready_queue[priority[dst]])
        /\ \A p \in Priorities : NoRepeats(ready_queue[p])
    BY <1>1, Facts DEF ReadyQueues, TypeOK, Family
  <2>2. dst \in Tids /\ priority \in [Tids -> Priorities]
    BY <1>1
  <2>3. QED
    BY <2>1, <2>2, ReadyAddFacts
<1> HIDE DEF rq
<1>6. TypeOK'
  BY <1>2, <1>3, <1>4, <1>5, Facts DEF TypeOK, Family
<1>7. TaskTable' /\ CurrentTask'
  <2>1. \A y \in Tids : state'[y] = STATE_UNUSED <=> state[y] = STATE_UNUSED
    BY <1>1, <1>2
  <2>2. state'[Idle] = STATE_READY
    BY <1>1, <1>2, Facts DEF TaskTable
  <2>3. QED
    BY <1>4, <2>1, <2>2, Facts DEF TaskTable, CurrentTask
<1>8. ReadyQueues'
  <2>1. ASSUME NEW p \in Priorities, NEW y \in Tids
        PROVE  Occurs(y, rq[p])
                 <=> state'[y] = STATE_READY /\ priority[y] = p /\ y # NoTask
    <3>1. Occurs(y, ready_queue[p])
            <=> state[y] = STATE_READY /\ priority[y] = p /\ y # current_task
      BY Facts DEF ReadyQueues
    <3>2. QED
      BY <1>1, <1>2, <1>5, <3>1, Facts
  <2>2. QED
    BY <1>4, <1>5, <2>1 DEF ReadyQueues
<1>9. EventQueues'
  BY <1>1, <1>2, <1>4, Facts, EventQueuesKept
<1>10. SendQueues'
  BY <1>1, <1>2, <1>3, <1>4, Facts, SendQueuesKept
<1>11. PreemptInv' /\ HaltInv'
  BY <1>1, <1>4, Facts DEF PreemptInv, HaltInv
<1>12. QED
  BY <1>6, <1>7, <1>8, <1>9, <1>10, <1>11 DEF IInv, OneQueuePerTask

\* Reply puts the answered task and then the caller in the ready queues.
LEMMA ReplyInv ==
  ASSUME IInv, NEW t \in Tids, NEW w, Reply(t, w)
  PROVE  IInv'
<1> DEFINE rq1 == ReadyAdd(ready_queue, priority, w)
           rq2 == ReadyAdd(rq1, priority, t)
<1>1. /\ mode = "user" /\ state[t] = STATE_READY /\ current_task = t /\ t # NoTask
      /\ t # Idle /\ t # w /\ w \in Tids /\ state[w] = STATE_REPLY_BLOCKED
      /\ state \in [Tids -> States] /\ priority \in [Tids -> Priorities]
      /\ w # Idle /\ w # NoTask
  BY Facts DEF TypeOK, TaskTable, CurrentTask, Reply, Calls
<1>2. /\ state' \in [Tids -> States]
      /\ \A y \in Tids : state'[y] = IF y = w THEN STATE_READY ELSE state[y]
      /\ sent_to' \in [Tids -> Tids \cup {NoTask}]
      /\ \A y \in Tids : sent_to'[y] = IF y = w THEN NoTask ELSE sent_to[y]
  BY <1>1, Facts DEF Reply, TypeOK
<1>3. /\ UNCHANGED <<current_free_tid, priority, send_queue, event_queue,
                     defunct_queue, events_waiting, pending, preempt>>
      /\ mode' = "schedule" /\ current_task' = NoTask /\ esc_dropped' = FALSE
      /\ ready_queue' = rq2
  BY DEF Reply, Leave
<1>4. /\ Family(rq1, Priorities)
      /\ \A p \in Priorities, y \in Tids :
           Occurs(y, rq1[p]) <=> Occurs(y, ready_queue[p]) \/ (p = priority[w] /\ y = w)
      /\ \A p \in Priorities : NoRepeats(rq1[p])
  <2>1. /\ Family(ready_queue, Priorities)
        /\ ~Occurs(w, ready_queue[priority[w]])
        /\ \A p \in Priorities : NoRepeats(ready_queue[p])
    BY <1>1, Facts DEF ReadyQueues, TypeOK, Family
  <2>2. w \in Tids /\ priority \in [Tids -> Priorities]
    BY <1>1
  <2>3. QED
    BY <2>1, <2>2, ReadyAddFacts
<1> HIDE DEF rq1
<1>5. /\ Family(rq2, Priorities)
      /\ \A p \in Priorities, y \in Tids :
           Occurs(y, rq2[p]) <=> Occurs(y, rq1[p]) \/ (p = priority[t] /\ y = t)
      /\ \A p \in Priorities : NoRepeats(rq2[p])
  <2>1. ~Occurs(t, rq1[priority[t]])
    BY <1>1, <1>4, Facts DEF ReadyQueues
  <2>2. priority \in [Tids -> Priorities]
    BY <1>1
  <2>3. QED
    BY <1>4, <2>1, <2>2, ReadyAddFacts
<1> HIDE DEF rq2
<1>6. TypeOK'
  BY <1>2, <1>3, <1>5, Facts DEF TypeOK, Family
<1>7. TaskTable' /\ CurrentTask'
  BY <1>1, <1>2, <1>3, Facts DEF TaskTable, CurrentTask, TypeOK
<1>8. ReadyQueues'
  <2>1. ASSUME NEW p \in Priorities, NEW y \in Tids
        PROVE  Occurs(y, rq2[p])
                 <=> state'[y] = STATE_READY /\ priority[y] = p /\ y # NoTask
    <3>1. Occurs(y, ready_queue[p])
            <=> state[y] = STATE_READY /\ priority[y] = p /\ y # current_task
      BY Facts DEF ReadyQueues
    <3>2. QED
      BY <1>1, <1>2, <1>4, <1>5, <3>1, Facts
  <2>2. QED
    BY <1>3, <1>5, <2>1 DEF ReadyQueues
<1>9. EventQueues'
  BY <1>1, <1>2, <1>3, Facts, EventQueuesKept
<1>10. SendQueues'
  BY <1>1, <1>2, <1>3, Facts, SendQueuesKept
<1>11. PreemptInv' /\ HaltInv'
  BY <1>1, <1>3, Facts DEF PreemptInv, HaltInv
<1>12. QED
  BY <1>6, <1>7, <1>8, <1>9, <1>10, <1>11 DEF IInv, OneQueuePerTask

\* Create takes the next descriptor and queues both the new task and its
\* creator, whatever priority was asked for.
LEMMA CreateInv ==
  ASSUME IInv, NEW t \in Tids, NEW p \in -1 .. PRIORITY_HIGHEST + 1, Create(t, p)
  PROVE  IInv'
<1> DEFINE new  == current_free_tid
           prio == [priority EXCEPT ![new] = p]
           rq1  == ReadyAdd(ready_queue, prio, new)
           rq2  == ReadyAdd(rq1, prio, t)
<1>1. /\ mode = "user" /\ state[t] = STATE_READY /\ current_task = t /\ t # NoTask
      /\ t # Idle /\ new \in Tids /\ state[new] = STATE_UNUSED /\ t # new
      /\ new # Idle /\ new # NoTask /\ new \in Nat /\ new >= 2 /\ new < MAX_NUM_TASKS
      /\ p \in Priorities /\ p # PRIORITY_IDLE
      /\ state \in [Tids -> States] /\ priority \in [Tids -> Priorities]
      /\ send_queue \in [Tids -> Seq(Tids)] /\ send_queue[new] = << >>
  <2>1. /\ mode = "user" /\ current_task = t /\ t # Idle /\ state[t] = STATE_READY
        /\ new \in Nat /\ new >= 2 /\ new < MAX_NUM_TASKS
        /\ p \in PRIORITY_LOWEST .. PRIORITY_HIGHEST
    BY Facts DEF TypeOK, CurrentTask, Create, Calls
  <2>2. new \in Tids /\ p \in Priorities /\ p # PRIORITY_IDLE
    BY <2>1, Facts DEF Tids, Priorities
  <2>3. state[new] = STATE_UNUSED /\ send_queue[new] = << >>
    BY <2>1, <2>2, Facts DEF TaskTable, SendQueues
  <2>4. QED
    BY <2>1, <2>2, <2>3, Facts DEF TypeOK
<1>2. /\ prio \in [Tids -> Priorities]
      /\ \A y \in Tids : prio[y] = IF y = new THEN p ELSE priority[y]
  BY <1>1
<1>3. /\ UNCHANGED <<sent_to, event_queue, defunct_queue, events_waiting,
                     pending, preempt>>
      /\ mode' = "schedule" /\ current_task' = NoTask /\ esc_dropped' = FALSE
      /\ ready_queue' = rq2 /\ priority' = prio /\ current_free_tid' = new + 1
      /\ send_queue' = [send_queue EXCEPT ![new] = << >>]
      /\ state' = [state EXCEPT ![new] = STATE_READY]
  BY DEF Create, Leave
<1>4. /\ state' \in [Tids -> States]
      /\ \A y \in Tids : state'[y] = IF y = new THEN STATE_READY ELSE state[y]
      /\ send_queue' = send_queue
  BY <1>1, <1>3
<1> HIDE DEF prio
<1>5. /\ Family(rq1, Priorities)
      /\ \A q \in Priorities, y \in Tids :
           Occurs(y, rq1[q]) <=> Occurs(y, ready_queue[q]) \/ (q = p /\ y = new)
      /\ \A q \in Priorities : NoRepeats(rq1[q])
  <2>1. /\ Family(ready_queue, Priorities)
        /\ ~Occurs(new, ready_queue[p])
        /\ \A q \in Priorities : NoRepeats(ready_queue[q])
    BY <1>1, Facts DEF ReadyQueues, TypeOK, Family
  <2>2. new \in Tids /\ prio[new] = p
    BY <1>1, <1>2
  <2>3. QED
    BY <1>2, <2>1, <2>2, ReadyAddFacts
<1> HIDE DEF rq1
<1>14. prio[t] = priority[t] /\ t \in Tids
  BY <1>1, <1>2
<1>15. /\ Family(rq2, Priorities)
       /\ \A q \in Priorities, y \in Tids :
            Occurs(y, rq2[q]) <=> Occurs(y, rq1[q]) \/ (q = prio[t] /\ y = t)
       /\ \A q \in Priorities : NoRepeats(rq2[q])
  <2>1. ~Occurs(t, rq1[prio[t]])
    <3>1. ~Occurs(t, ready_queue[priority[t]]) /\ priority[t] \in Priorities
      BY <1>1, Facts DEF ReadyQueues
    <3>2. QED
      BY <1>1, <1>5, <1>14, <3>1
  <2>2. prio \in [Tids -> Priorities]
    BY <1>2
  <2>3. Family(rq1, Priorities) /\ \A q \in Priorities : NoRepeats(rq1[q])
    BY <1>5
  <2>4. t \in Tids
    OBVIOUS
  <2> HIDE DEF prio, rq1
  <2>5. /\ Family(ReadyAdd(rq1, prio, t), Priorities)
        /\ \A q \in Priorities, y \in Tids :
             Occurs(y, ReadyAdd(rq1, prio, t)[q])
               <=> Occurs(y, rq1[q]) \/ (q = prio[t] /\ y = t)
        /\ \A q \in Priorities : NoRepeats(ReadyAdd(rq1, prio, t)[q])
    BY <2>1, <2>2, <2>3, <2>4, ReadyAddFacts
  <2>6. QED
    BY <2>5
<1>6. /\ Family(rq2, Priorities)
      /\ \A q \in Priorities, y \in Tids :
           Occurs(y, rq2[q]) <=> Occurs(y, rq1[q]) \/ (q = priority[t] /\ y = t)
      /\ \A q \in Priorities : NoRepeats(rq2[q])
  <2> HIDE DEF rq2
  <2>1. QED
    BY <1>14, <1>15
<1> HIDE DEF rq2, new
<1>7. TypeOK'
  <2>1. current_free_tid' \in 2 .. MAX_NUM_TASKS
    BY <1>1, <1>3, Facts
  <2>2. QED
    BY <1>2, <1>3, <1>4, <1>6, <2>1, Facts DEF TypeOK, Family
<1>8. TaskTable' /\ CurrentTask'
  <2>1. \A y \in Tids : state'[y] = STATE_UNUSED <=> y >= current_free_tid'
    BY <1>1, <1>3, <1>4, Facts DEF TaskTable, Tids, new
  <2>2. \A y \in Tids : y < current_free_tid' => (priority'[y] = PRIORITY_IDLE <=> y = Idle)
    BY <1>1, <1>2, <1>3, Facts DEF TaskTable, Tids, new
  <2>3. state'[Idle] = STATE_READY
    BY <1>1, <1>4, Facts DEF TaskTable
  <2>4. QED
    BY <1>3, <2>1, <2>2, <2>3 DEF TaskTable, CurrentTask
<1>9. ReadyQueues'
  <2>1. ASSUME NEW q \in Priorities, NEW y \in Tids
        PROVE  Occurs(y, rq2[q])
                 <=> state'[y] = STATE_READY /\ prio[y] = q /\ y # NoTask
    <3>1. Occurs(y, ready_queue[q])
            <=> state[y] = STATE_READY /\ priority[y] = q /\ y # current_task
      BY Facts DEF ReadyQueues
    <3>2. QED
      BY <1>1, <1>2, <1>4, <1>5, <1>6, <3>1, Facts
  <2>2. QED
    BY <1>3, <1>6, <2>1 DEF ReadyQueues
<1>10. EventQueues'
  BY <1>1, <1>3, <1>4, Facts, EventQueuesKept
<1>11. SendQueues'
  BY <1>1, <1>3, <1>4, Facts, SendQueuesKept
<1>12. PreemptInv' /\ HaltInv'
  BY <1>1, <1>3, Facts DEF PreemptInv, HaltInv
<1>13. QED
  BY <1>7, <1>8, <1>9, <1>10, <1>11, <1>12 DEF IInv, OneQueuePerTask

\* The event queues' total grows and shrinks with one queue's length.
LEMMA EventCountChange ==
  ASSUME Family(event_queue, Events), Family(event_queue', Events),
         NEW e \in Events, NEW d \in {-1, 1},
         Len(event_queue'[e]) = Len(event_queue[e]) + d,
         \A f \in Events : f # e => event_queue'[f] = event_queue[f]
  PROVE  EventBlockedCount' = EventBlockedCount + d
<1> DEFINE n(f) == Len(event_queue[f])
           m(f) == Len(event_queue'[f])
<1>1. \A f \in Events : n(f) \in Nat /\ m(f) \in Nat
  BY DEF Family
<1>2. 0 \in Events /\ 1 \in Events /\ 2 \in Events /\ 3 \in Events /\ 4 \in Events
      /\ e \in 0 .. 4
  BY DEF Events
<1>3. \A f \in Events : m(f) = IF f = e THEN n(f) + d ELSE n(f)
  OBVIOUS
<1>4. EventBlockedCount = n(0) + n(1) + n(2) + n(3) + n(4)
  BY DEF EventBlockedCount
<1>5. EventBlockedCount' = m(0) + m(1) + m(2) + m(3) + m(4)
  BY DEF EventBlockedCount
<1> HIDE DEF n, m
<1>6. /\ m(0) = (IF 0 = e THEN n(0) + d ELSE n(0)) /\ n(0) \in Nat
      /\ m(1) = (IF 1 = e THEN n(1) + d ELSE n(1)) /\ n(1) \in Nat
      /\ m(2) = (IF 2 = e THEN n(2) + d ELSE n(2)) /\ n(2) \in Nat
      /\ m(3) = (IF 3 = e THEN n(3) + d ELSE n(3)) /\ n(3) \in Nat
      /\ m(4) = (IF 4 = e THEN n(4) + d ELSE n(4)) /\ n(4) \in Nat
  BY <1>1, <1>2, <1>3
<1>7. m(0) + m(1) + m(2) + m(3) + m(4) = (n(0) + n(1) + n(2) + n(3) + n(4)) + d
  BY <1>2, <1>6
<1>8. QED
  BY <1>4, <1>5, <1>7

\* AwaitEvent moves the caller to the queue of one event and counts it.
LEMMA AwaitEventInv ==
  ASSUME IInv, NEW t \in Tids, NEW e, AwaitEvent(t, e)
  PROVE  IInv'
<1> DEFINE eq == PushBack(event_queue, e, t)
<1>1. /\ mode = "user" /\ state[t] = STATE_READY /\ current_task = t /\ t # NoTask
      /\ t # Idle /\ e \in Events /\ e \in 0 .. 4 /\ state \in [Tids -> States]
      /\ state' = [state EXCEPT ![t] = STATE_EVENT_START + e]
  BY Facts DEF TypeOK, CurrentTask, AwaitEvent, Calls, Events
<1>11. /\ state' \in [Tids -> States]
       /\ \A y \in Tids : state'[y] = IF y = t THEN STATE_EVENT_START + e ELSE state[y]
  BY <1>1
<1>2. /\ UNCHANGED <<current_free_tid, priority, send_queue, sent_to, ready_queue,
                     defunct_queue, pending, preempt>>
      /\ mode' = "schedule" /\ current_task' = NoTask /\ esc_dropped' = FALSE
      /\ event_queue' = eq /\ events_waiting' = events_waiting + 1
  BY DEF AwaitEvent, Leave
<1>3. /\ Family(event_queue, Events) /\ Family(eq, Events)
      /\ Len(eq[e]) = Len(event_queue[e]) + 1
      /\ \A f \in Events : f # e => eq[f] = event_queue[f]
      /\ \A f \in Events, y \in Tids :
           Occurs(y, eq[f]) <=> Occurs(y, event_queue[f]) \/ (f = e /\ y = t)
      /\ \A f \in Events : NoRepeats(eq[f])
  <2>1. /\ Family(event_queue, Events)
        /\ ~Occurs(t, event_queue[e]) /\ \A f \in Events : NoRepeats(event_queue[f])
    BY <1>1, Facts DEF EventQueues, TypeOK, Family
  <2>2. e \in Events
    BY <1>1
  <2>3. /\ Len(eq[e]) = Len(event_queue[e]) + 1
        /\ \A f \in Events : f # e => eq[f] = event_queue[f]
    BY <2>1, <2>2, AppendFacts DEF PushBack, Family
  <2>4. QED
    BY <2>1, <2>2, <2>3, PushFamily, PushOccurs, PushNoRepeats
<1> HIDE DEF eq
<1>4. TypeOK'
  <2>1. events_waiting' \in Nat
    BY <1>2, Facts DEF TypeOK
  <2>2. event_queue' \in [Events -> Seq(Tids)]
    BY <1>2, <1>3 DEF Family
  <2>3. QED
    BY <1>2, <1>11, <2>1, <2>2, Facts DEF TypeOK
<1>5. TaskTable' /\ CurrentTask'
  <2>1. \A y \in Tids : state'[y] = STATE_UNUSED <=> state[y] = STATE_UNUSED
    BY <1>1, <1>11
  <2>2. state'[Idle] = STATE_READY
    BY <1>1, <1>11, Facts DEF TaskTable
  <2>3. QED
    BY <1>2, <2>1, <2>2, Facts DEF TaskTable, CurrentTask
<1>6. ReadyQueues'
  BY <1>1, <1>2, <1>11, Facts DEF ReadyQueues
<1>7. EventQueues'
  <2>1. ASSUME NEW f \in Events, NEW y \in Tids
        PROVE  Occurs(y, eq[f]) <=> state'[y] = STATE_EVENT_START + f
    <3>1. Occurs(y, event_queue[f]) <=> state[y] = STATE_EVENT_START + f
      BY Facts DEF EventQueues
    <3>2. f \in 0 .. 4
      BY DEF Events
    <3>3. QED
      BY <1>1, <1>3, <1>11, <3>1, <3>2
  <2>2. EventBlockedCount' = EventBlockedCount + 1
    BY <1>1, <1>2, <1>3, EventCountChange
  <2>3. events_waiting' = EventBlockedCount'
    BY <1>2, <2>2, Facts DEF EventQueues
  <2>4. QED
    BY <1>2, <1>3, <2>1, <2>3 DEF EventQueues
<1>8. SendQueues'
  BY <1>1, <1>2, <1>11, Facts, SendQueuesKept
<1>9. PreemptInv' /\ HaltInv'
  BY <1>1, <1>2, Facts DEF PreemptInv, HaltInv
<1>10. QED
  BY <1>4, <1>5, <1>6, <1>7, <1>8, <1>9 DEF IInv, OneQueuePerTask

\* Shutdown stops the machine with the caller still current.
LEMMA ShutdownInv ==
  ASSUME IInv, NEW t \in Tids, Shutdown(t)
  PROVE  IInv'
<1>1. /\ mode = "user" /\ current_task = t /\ t # NoTask /\ mode' = "halted"
      /\ preempt = FALSE
  BY Facts DEF Shutdown, Calls, PreemptInv
<1>2. UNCHANGED <<current_free_tid, state, priority, send_queue, sent_to,
                  ready_queue, event_queue, defunct_queue, events_waiting,
                  current_task, pending, preempt, esc_dropped>>
  BY DEF Shutdown, taskVars, queueVars, irqVars
<1>3. TypeOK'
  BY <1>1, <1>2, Facts DEF TypeOK
<1>4. TaskTable' /\ CurrentTask'
  BY <1>1, <1>2, Facts DEF TaskTable, CurrentTask
<1>5. ReadyQueues' /\ SendQueues'
  BY <1>2, Facts DEF ReadyQueues, SendQueues
<1>6. EventQueues'
  BY <1>2, Facts, EventQueuesKept
<1>7. PreemptInv' /\ HaltInv'
  BY <1>1, <1>2, Facts DEF PreemptInv, HaltInv
<1>8. QED
  BY <1>3, <1>4, <1>5, <1>6, <1>7 DEF IInv, OneQueuePerTask

\* A step inside or around the interrupt handler that leaves the tasks and the
\* queues alone, and does not forget a preemption.
LEMMA IrqBookkeepingInv ==
  ASSUME IInv, mode \in {"user", "irq"}, mode' \in {"user", "irq"},
         UNCHANGED <<current_free_tid, state, priority, send_queue, sent_to,
                     ready_queue, event_queue, defunct_queue, events_waiting,
                     current_task>>,
         pending' \subseteq IrqSources,
         preempt' \in BOOLEAN, esc_dropped' \in BOOLEAN,
         mode' = "user" => preempt' = FALSE,
         preempt' = FALSE /\ esc_dropped' = FALSE
           => preempt = FALSE /\ esc_dropped = FALSE,
         esc_dropped' = TRUE => esc_dropped = TRUE \/ ESC_PRESSED \in IrqSources
  PROVE  IInv'
<1>1. TypeOK'
  BY Facts DEF TypeOK
<1>2. TaskTable' /\ CurrentTask'
  BY Facts DEF TaskTable, CurrentTask
<1>3. ReadyQueues' /\ SendQueues'
  BY Facts DEF ReadyQueues, SendQueues
<1>4. EventQueues'
  BY Facts, EventQueuesKept
<1>5. HaltInv'
  BY DEF HaltInv
<1>6. PreemptInv'
  BY Facts DEF PreemptInv, NoneReadyAbove
<1>7. QED
  BY <1>1, <1>2, <1>3, <1>4, <1>5, <1>6 DEF IInv, OneQueuePerTask

\* An interrupt moves no task: it only raises its causes.
LEMMA TakeIrqInv ==
  ASSUME IInv, NEW causes \in SUBSET IrqSources, TakeIrq(causes)
  PROVE  IInv'
<1>1. mode = "user" /\ mode' = "irq" /\ pending' = causes
      /\ preempt' = preempt /\ esc_dropped' = esc_dropped
      /\ preempt \in BOOLEAN /\ esc_dropped \in BOOLEAN
  BY Facts DEF TakeIrq, TypeOK
<1>2. UNCHANGED <<current_free_tid, state, priority, send_queue, sent_to,
                  ready_queue, event_queue, defunct_queue, events_waiting,
                  current_task>>
  BY DEF TakeIrq, taskVars, queueVars
<1>3. QED
  BY <1>1, <1>2, IrqBookkeepingInv

\* Raising an event nobody waits for moves no task.
LEMMA NotifyDoneInv ==
  ASSUME IInv, NEW e, NotifyDone(e)
  PROVE  IInv'
<1>1. mode = "irq" /\ mode' = "irq" /\ pending' \subseteq IrqSources
      /\ preempt' = preempt /\ esc_dropped' = esc_dropped
      /\ preempt \in BOOLEAN /\ esc_dropped \in BOOLEAN
  BY Facts DEF NotifyDone, TypeOK
<1>2. UNCHANGED <<current_free_tid, state, priority, send_queue, sent_to,
                  ready_queue, event_queue, defunct_queue, events_waiting,
                  current_task>>
  BY DEF NotifyDone, taskVars, queueVars
<1>3. QED
  BY <1>1, <1>2, IrqBookkeepingInv

\* The return on ESC leaves the remaining causes, and moves no task.
LEMMA EscReturnInv ==
  ASSUME IInv, EscReturn
  PROVE  IInv'
<1>1. mode = "irq" /\ mode' = "irq" /\ pending' \subseteq IrqSources
      /\ preempt' = FALSE /\ preempt \in BOOLEAN /\ esc_dropped \in BOOLEAN
  BY Facts DEF EscReturn, TypeOK
<1>2. ESC_PRESSED \in IrqSources
  BY Facts DEF EscReturn, Serving, TypeOK
<1>3. esc_dropped' = (esc_dropped \/ preempt)
  BY DEF EscReturn
<1>4. esc_dropped' \in BOOLEAN /\ (esc_dropped' = FALSE => preempt = FALSE /\ esc_dropped = FALSE)
  BY <1>1, <1>3, Zenon
<1>5. UNCHANGED <<current_free_tid, state, priority, send_queue, sent_to,
                  ready_queue, event_queue, defunct_queue, events_waiting,
                  current_task>>
  BY DEF EscReturn, taskVars, queueVars
<1>6. QED
  BY <1>1, <1>2, <1>4, <1>5, IrqBookkeepingInv

\* The handler may return to the interrupted task only when it has woken
\* no task above it.
LEMMA ResumeTaskInv ==
  ASSUME IInv, ResumeTask
  PROVE  IInv'
<1>1. mode = "irq" /\ mode' = "user" /\ pending' \subseteq IrqSources
      /\ preempt' = preempt /\ esc_dropped' = esc_dropped
      /\ preempt \in BOOLEAN /\ esc_dropped \in BOOLEAN
  BY Facts DEF ResumeTask, TypeOK, irqVars
<1>2. preempt = FALSE
  BY <1>1, Zenon DEF ResumeTask
<1>3. UNCHANGED <<current_free_tid, state, priority, send_queue, sent_to,
                  ready_queue, event_queue, defunct_queue, events_waiting,
                  current_task>>
  BY DEF ResumeTask, taskVars, queueVars
<1>4. QED
  BY <1>1, <1>2, <1>3, IrqBookkeepingInv

\* The interrupted task goes back to the end of its ready queue.
LEMMA PreemptTaskInv ==
  ASSUME IInv, PreemptTask
  PROVE  IInv'
<1> DEFINE t  == current_task
           rq == ReadyAdd(ready_queue, priority, t)
<1>1. /\ mode = "irq" /\ t \in Tids /\ state[t] = STATE_READY
      /\ priority \in [Tids -> Priorities]
  BY Facts DEF PreemptTask, CurrentTask, TypeOK
<1>2. /\ UNCHANGED <<current_free_tid, state, priority, send_queue, sent_to,
                     event_queue, defunct_queue, events_waiting, pending>>
      /\ mode' = "schedule" /\ current_task' = NoTask /\ preempt' = FALSE
      /\ esc_dropped' = FALSE /\ ready_queue' = rq
  BY DEF PreemptTask, taskVars
<1>3. /\ Family(rq, Priorities)
      /\ \A p \in Priorities, y \in Tids :
           Occurs(y, rq[p]) <=> Occurs(y, ready_queue[p]) \/ (p = priority[t] /\ y = t)
      /\ \A p \in Priorities : NoRepeats(rq[p])
  <2>1. /\ Family(ready_queue, Priorities)
        /\ ~Occurs(t, ready_queue[priority[t]])
        /\ \A p \in Priorities : NoRepeats(ready_queue[p])
    BY <1>1, Facts DEF ReadyQueues, TypeOK, Family
  <2>2. t \in Tids /\ priority \in [Tids -> Priorities]
    BY <1>1
  <2> HIDE DEF t
  <2>3. QED
    BY <2>1, <2>2, ReadyAddFacts
<1> HIDE DEF rq
<1>4. TypeOK'
  BY <1>2, <1>3, Facts DEF TypeOK, Family
<1>5. TaskTable' /\ CurrentTask'
  BY <1>2, Facts DEF TaskTable, CurrentTask
<1>6. ReadyQueues'
  <2>1. ASSUME NEW p \in Priorities, NEW y \in Tids
        PROVE  Occurs(y, rq[p])
                 <=> state[y] = STATE_READY /\ priority[y] = p /\ y # NoTask
    <3>1. Occurs(y, ready_queue[p])
            <=> state[y] = STATE_READY /\ priority[y] = p /\ y # t
      BY Facts DEF ReadyQueues
    <3>2. QED
      BY <1>1, <1>3, <3>1, Facts
  <2>2. QED
    BY <1>2, <1>3, <2>1 DEF ReadyQueues
<1>7. EventQueues' /\ SendQueues'
  BY <1>2, Facts, EventQueuesKept, SendQueuesKept
<1>8. PreemptInv' /\ HaltInv'
  BY <1>2, Facts DEF PreemptInv, HaltInv
<1>9. QED
  BY <1>4, <1>5, <1>6, <1>7, <1>8 DEF IInv, OneQueuePerTask

\* The head of the highest non-empty ready queue becomes the current task.
LEMMA DispatchInv ==
  ASSUME IInv, NEW p \in Priorities, Dispatch(p)
  PROVE  IInv'
<1> DEFINE t  == Head(ready_queue[p])
           rq == PopFront(ready_queue, p)
<1>1. /\ mode = "schedule" /\ ready_queue[p] # << >> /\ NoneReadyAbove(p)
      /\ current_task = NoTask /\ preempt = FALSE /\ preempt \in BOOLEAN
      /\ Family(ready_queue, Priorities)
      /\ \A q \in Priorities : NoRepeats(ready_queue[q])
  BY Facts DEF Dispatch, CurrentTask, PreemptInv, ReadyQueues, TypeOK, Family
<1>2. /\ UNCHANGED <<current_free_tid, state, priority, send_queue, sent_to,
                     event_queue, defunct_queue, events_waiting, pending,
                     preempt, esc_dropped>>
      /\ mode' = "user" /\ current_task' = t /\ ready_queue' = rq
  BY DEF Dispatch, taskVars, irqVars
<1>3. Family(rq, Priorities) /\ t \in Tids /\ Occurs(t, ready_queue[p])
  BY <1>1, PopFamily
<1>4. /\ \A q \in Priorities, y \in Tids :
           Occurs(y, rq[q]) <=> Occurs(y, ready_queue[q]) /\ ~(q = p /\ y = t)
      /\ \A q \in Priorities : NoRepeats(rq[q])
  BY <1>1, PopOccurs, PopNoRepeats
<1>5. \A q \in Priorities : q # p => rq[q] = ready_queue[q]
  BY <1>1 DEF PopFront, Family
<1> HIDE DEF rq, t
<1>6. state[t] = STATE_READY /\ priority[t] = p /\ t # NoTask
  BY <1>1, <1>3, Facts DEF ReadyQueues
<1>7. TypeOK'
  BY <1>2, <1>3, Facts DEF TypeOK, Family
<1>8. TaskTable' /\ CurrentTask'
  BY <1>2, <1>6, Facts DEF TaskTable, CurrentTask
<1>9. ReadyQueues'
  <2>1. ASSUME NEW q \in Priorities, NEW y \in Tids
        PROVE  Occurs(y, rq[q])
                 <=> state[y] = STATE_READY /\ priority[y] = q /\ y # t
    <3>1. Occurs(y, ready_queue[q])
            <=> state[y] = STATE_READY /\ priority[y] = q /\ y # NoTask
      BY <1>1, Facts DEF ReadyQueues
    <3>2. QED
      BY <1>3, <1>4, <1>6, <3>1, Facts
  <2>2. QED
    BY <1>2, <1>4, <2>1 DEF ReadyQueues
<1>10. EventQueues' /\ SendQueues'
  BY <1>2, Facts, EventQueuesKept, SendQueuesKept
<1>11. NoneReadyAbove(p)'
  <2>1. ASSUME NEW q \in PRIORITY_LOWEST .. PRIORITY_HIGHEST, q > p
        PROVE  rq[q] = << >>
    <3>1. q \in Priorities /\ q # p /\ ready_queue[q] = << >>
      BY <1>1, <2>1, Facts DEF NoneReadyAbove, Priorities
    <3>2. QED
      BY <1>5, <3>1
  <2>2. QED
    BY <1>2, <2>1 DEF NoneReadyAbove
<1>12. PreemptInv' /\ HaltInv'
  BY <1>1, <1>2, <1>6, <1>11, Facts DEF PreemptInv, HaltInv
<1>13. QED
  BY <1>7, <1>8, <1>9, <1>10, <1>12 DEF IInv, OneQueuePerTask

\* The idle task is always there to run, so only "no event to wait for" halts
\* the kernel: the second reason in scheduler_get_next never applies.
LEMMA HaltKernelInv ==
  ASSUME IInv, HaltKernel
  PROVE  IInv'
<1>1. /\ mode = "schedule" /\ mode' = "halted" /\ current_task = NoTask
      /\ preempt = FALSE /\ NoneReadyAbove(PRIORITY_IDLE)
  BY Facts DEF HaltKernel, CurrentTask, PreemptInv
<1>2. UNCHANGED <<current_free_tid, state, priority, send_queue, sent_to,
                  ready_queue, event_queue, defunct_queue, events_waiting,
                  current_task, pending, preempt, esc_dropped>>
  BY DEF HaltKernel, taskVars, queueVars, irqVars
<1>3. events_waiting = 0
  <2>1. state[Idle] = STATE_READY /\ priority[Idle] = PRIORITY_IDLE
    BY Facts DEF TaskTable, TypeOK
  <2>2. Occurs(Idle, ready_queue[PRIORITY_IDLE])
    BY <1>1, <2>1, Facts DEF ReadyQueues
  <2>3. ready_queue[PRIORITY_IDLE] # << >>
    BY <2>2, Facts, EmptyFacts DEF TypeOK
  <2>4. QED
    BY <2>3 DEF HaltKernel
<1>4. TypeOK'
  BY <1>1, <1>2, Facts DEF TypeOK
<1>5. TaskTable' /\ CurrentTask'
  BY <1>1, <1>2, Facts DEF TaskTable, CurrentTask
<1>6. ReadyQueues' /\ SendQueues'
  BY <1>2, Facts DEF ReadyQueues, SendQueues
<1>7. EventQueues'
  BY <1>2, Facts, EventQueuesKept
<1>8. PreemptInv' /\ HaltInv'
  BY <1>1, <1>2, <1>3, Facts DEF PreemptInv, HaltInv, NoneReadyAbove
<1>9. QED
  BY <1>4, <1>5, <1>6, <1>7, <1>8 DEF IInv, OneQueuePerTask

\* One turn of notify_tasks: the head of the event's queue becomes ready, and a
\* task above the current one is not woken without asking for a preemption.
LEMMA NotifyTaskInv ==
  ASSUME IInv, NEW e, NotifyTask(e)
  PROVE  IInv'
<1> DEFINE t  == Head(event_queue[e])
           eq == PopFront(event_queue, e)
           rq == ReadyAdd(ready_queue, priority, t)
<1>1. /\ mode = "irq" /\ current_task \in Tids /\ state[current_task] = STATE_READY
      /\ e \in Events /\ e \in 0 .. 4 /\ event_queue[e] # << >>
      /\ state \in [Tids -> States] /\ priority \in [Tids -> Priorities]
      /\ Family(event_queue, Events) /\ Family(ready_queue, Priorities)
      /\ \A f \in Events : NoRepeats(event_queue[f])
      /\ \A p \in Priorities : NoRepeats(ready_queue[p])
  BY Facts DEF NotifyTask, CurrentTask, TypeOK, Family, EventQueues, ReadyQueues, Events
<1>2. /\ UNCHANGED <<current_free_tid, priority, send_queue, sent_to,
                     defunct_queue, current_task, mode, pending, esc_dropped>>
      /\ ready_queue' = rq /\ event_queue' = eq
      /\ events_waiting' = events_waiting - 1
      /\ state' = [state EXCEPT ![t] = STATE_READY]
      /\ preempt' = (preempt \/ priority[t] > priority[current_task])
  BY DEF NotifyTask
<1>3. Family(eq, Events) /\ t \in Tids /\ Occurs(t, event_queue[e])
  BY <1>1, PopFamily
<1>4. /\ \A f \in Events, y \in Tids :
           Occurs(y, eq[f]) <=> Occurs(y, event_queue[f]) /\ ~(f = e /\ y = t)
      /\ \A f \in Events : NoRepeats(eq[f])
  BY <1>1, PopOccurs, PopNoRepeats
<1>5. /\ Len(eq[e]) = Len(event_queue[e]) + (-1)
      /\ \A f \in Events : f # e => eq[f] = event_queue[f]
  BY <1>1, TailFacts DEF PopFront, Family
<1> HIDE DEF eq, t
<1>6. state[t] = STATE_EVENT_START + e /\ t # current_task
  BY <1>1, <1>3, Facts DEF EventQueues
<1>7. /\ Family(rq, Priorities)
      /\ \A p \in Priorities, y \in Tids :
           Occurs(y, rq[p]) <=> Occurs(y, ready_queue[p]) \/ (p = priority[t] /\ y = t)
      /\ \A p \in Priorities : NoRepeats(rq[p])
  <2>1. ~Occurs(t, ready_queue[priority[t]])
    BY <1>1, <1>3, <1>6, Facts DEF ReadyQueues
  <2>2. priority \in [Tids -> Priorities] /\ Family(ready_queue, Priorities)
        /\ \A p \in Priorities : NoRepeats(ready_queue[p])
    BY <1>1
  <2>3. QED
    BY <1>3, <2>1, <2>2, ReadyAddFacts
<1>8. \A p \in Priorities : p # priority[t] => rq[p] = ready_queue[p]
  BY <1>1, <1>3 DEF ReadyAdd, PushBack, Family
<1> HIDE DEF rq
<1>9. /\ state' \in [Tids -> States]
      /\ \A y \in Tids : state'[y] = IF y = t THEN STATE_READY ELSE state[y]
  BY <1>1, <1>2, <1>3
<1>10. EventBlockedCount' = EventBlockedCount + (-1)
  <2>1. Family(event_queue', Events)
    BY <1>2, <1>3
  <2>2. QED
    BY <1>1, <1>2, <1>5, <2>1, EventCountChange
<1>11. events_waiting' = EventBlockedCount' /\ events_waiting' \in Nat
  <2>1. events_waiting' = EventBlockedCount'
    BY <1>2, <1>10, Facts DEF EventQueues, TypeOK
  <2>2. EventBlockedCount' \in Nat
    <3>1. \A f \in 0 .. 4 : Len(eq[f]) \in Nat
      BY <1>3 DEF Family, Events
    <3>2. EventBlockedCount' = Len(eq[0]) + Len(eq[1]) + Len(eq[2]) + Len(eq[3]) + Len(eq[4])
      BY <1>2 DEF EventBlockedCount
    <3> DEFINE n(f) == Len(eq[f])
    <3>3. n(0) \in Nat /\ n(1) \in Nat /\ n(2) \in Nat /\ n(3) \in Nat /\ n(4) \in Nat
      BY <3>1
    <3> HIDE DEF n
    <3>4. n(0) + n(1) + n(2) + n(3) + n(4) \in Nat
      BY <3>3
    <3>5. QED
      BY <3>2, <3>4 DEF n
  <2>3. QED
    BY <2>1, <2>2
<1>12. preempt' \in BOOLEAN
  BY <1>2, Zenon
<1>13. TypeOK'
  <2>1. event_queue' \in [Events -> Seq(Tids)] /\ ready_queue' \in [Priorities -> Seq(Tids)]
    BY <1>2, <1>3, <1>7 DEF Family
  <2>2. QED
    BY <1>2, <1>9, <1>11, <1>12, <2>1, Facts DEF TypeOK
<1>14. TaskTable' /\ CurrentTask'
  <2>1. \A y \in Tids : state'[y] = STATE_UNUSED <=> state[y] = STATE_UNUSED
    BY <1>1, <1>6, <1>9
  <2>2. state'[Idle] = STATE_READY
    BY <1>9, Facts DEF TaskTable
  <2>3. state'[current_task] = STATE_READY
    BY <1>1, <1>9
  <2>4. QED
    BY <1>2, <2>1, <2>2, <2>3, Facts DEF TaskTable, CurrentTask
<1>15. ReadyQueues'
  <2>1. ASSUME NEW p \in Priorities, NEW y \in Tids
        PROVE  Occurs(y, rq[p])
                 <=> state'[y] = STATE_READY /\ priority[y] = p /\ y # current_task
    <3>1. Occurs(y, ready_queue[p])
            <=> state[y] = STATE_READY /\ priority[y] = p /\ y # current_task
      BY Facts DEF ReadyQueues
    <3>2. QED
      BY <1>1, <1>6, <1>7, <1>9, <3>1
  <2>2. QED
    BY <1>2, <1>7, <2>1 DEF ReadyQueues
<1>16. EventQueues'
  <2>1. ASSUME NEW f \in Events, NEW y \in Tids
        PROVE  Occurs(y, eq[f]) <=> state'[y] = STATE_EVENT_START + f
    <3>1. Occurs(y, event_queue[f]) <=> state[y] = STATE_EVENT_START + f
      BY Facts DEF EventQueues
    <3>2. f \in 0 .. 4
      BY DEF Events
    <3>3. QED
      BY <1>1, <1>4, <1>6, <1>9, <3>1, <3>2
  <2>2. QED
    BY <1>2, <1>4, <1>11, <2>1 DEF EventQueues
<1>17. SendQueues'
  BY <1>1, <1>2, <1>6, <1>9, Facts, SendQueuesKept
<1>18. PreemptInv'
  <2>1. ASSUME preempt' = FALSE, esc_dropped = FALSE
        PROVE  NoneReadyAbove(priority[current_task])'
    <3>1. preempt = FALSE /\ ~(priority[t] > priority[current_task])
      <4>1. preempt \in BOOLEAN
        BY Facts DEF TypeOK
      <4>2. QED
        BY <1>2, <2>1, <4>1, Zenon
    <3>2. NoneReadyAbove(priority[current_task])
      BY <1>1, <2>1, <3>1, Facts DEF PreemptInv
    <3>3. ASSUME NEW q \in PRIORITY_LOWEST .. PRIORITY_HIGHEST, q > priority[current_task]
          PROVE  rq[q] = << >>
      <4>1. q \in Priorities /\ q # priority[t] /\ ready_queue[q] = << >>
        BY <1>1, <1>3, <3>1, <3>2, <3>3, Facts DEF NoneReadyAbove, Priorities
      <4>2. QED
        BY <1>8, <4>1
    <3>4. QED
      BY <1>2, <3>3 DEF NoneReadyAbove
  <2>2. QED
    BY <1>1, <1>2, <2>1, Facts DEF PreemptInv
<1>19. HaltInv'
  BY <1>1, <1>2 DEF HaltInv
<1>20. QED
  BY <1>13, <1>14, <1>15, <1>16, <1>17, <1>18, <1>19 DEF IInv, OneQueuePerTask

-----------------------------------------------------------------------------
(* Every step keeps the invariant.                                         *)

\* Every system call keeps the invariant.
LEMMA SysCallInv ==
  ASSUME IInv, NEW t \in Tids, SysCall(t)
  PROVE  IInv'
<1>1. CASE Pass(t)
  BY <1>1, RequeueInv DEF Pass
<1>2. ASSUME NEW p \in -1 .. PRIORITY_HIGHEST + 1, Create(t, p)
      PROVE  IInv'
  BY <1>2, CreateInv
<1>3. ASSUME NEW p \in -1 .. PRIORITY_HIGHEST + 1, CreateError(t, p)
      PROVE  IInv'
  BY <1>3, RequeueInv DEF CreateError
<1>4. CASE Exit(t)
  BY <1>4, ExitInv
<1>5. ASSUME NEW dst \in -1 .. MAX_NUM_TASKS, SendQueued(t, dst)
      PROVE  IInv'
  BY <1>5, SendQueuedInv
<1>6. ASSUME NEW dst \in -1 .. MAX_NUM_TASKS, SendReceived(t, dst)
      PROVE  IInv'
  BY <1>6, SendReceivedInv
<1>7. ASSUME NEW dst \in -1 .. MAX_NUM_TASKS, NEW replylen \in 0 .. 1,
             SendError(t, dst, replylen)
      PROVE  IInv'
  BY <1>7, RequeueInv DEF SendError
<1>8. CASE Receive(t)
  BY <1>8, ReceiveInv
<1>9. CASE ReceiveBlocks(t)
  BY <1>9, ReceiveBlocksInv
<1>10. ASSUME NEW w \in -1 .. MAX_NUM_TASKS, Reply(t, w)
       PROVE  IInv'
  BY <1>10, ReplyInv
<1>11. ASSUME NEW w \in -1 .. MAX_NUM_TASKS, NEW fits \in BOOLEAN,
              ReplyError(t, w, fits)
       PROVE  IInv'
  BY <1>11, RequeueInv DEF ReplyError
<1>12. ASSUME NEW e \in IrqSources \cup {-1}, AwaitEvent(t, e)
       PROVE  IInv'
  BY <1>12, AwaitEventInv
<1>13. ASSUME NEW e \in IrqSources \cup {-1}, AwaitEventError(t, e)
       PROVE  IInv'
  BY <1>13, RequeueInv DEF AwaitEventError
<1>14. CASE Shutdown(t)
  BY <1>14, ShutdownInv
<1>15. QED
  BY <1>1, <1>2, <1>3, <1>4, <1>5, <1>6, <1>7, <1>8, <1>9, <1>10, <1>11, <1>12,
     <1>13, <1>14 DEF SysCall

\* Every step of the interrupt handler keeps the invariant.
LEMMA HandlerInv == ASSUME IInv, Handler PROVE IInv'
<1>1. ASSUME NEW e \in IrqSources, NotifyTask(e) PROVE IInv'
  BY <1>1, NotifyTaskInv
<1>2. ASSUME NEW e \in IrqSources, NotifyDone(e) PROVE IInv'
  BY <1>2, NotifyDoneInv
<1>3. CASE EscReturn
  BY <1>3, EscReturnInv
<1>4. CASE ResumeTask
  BY <1>4, ResumeTaskInv
<1>5. CASE PreemptTask
  BY <1>5, PreemptTaskInv
<1>6. QED
  BY <1>1, <1>2, <1>3, <1>4, <1>5 DEF Handler

\* A step that changes no variable keeps the invariant.
LEMMA StutterInv == ASSUME IInv, UNCHANGED vars PROVE IInv'
<1>1. UNCHANGED <<current_free_tid, state, priority, send_queue, sent_to,
                  ready_queue, event_queue, defunct_queue, events_waiting,
                  current_task, mode, pending, preempt, esc_dropped>>
  BY DEF vars, taskVars, queueVars, irqVars
<1>2. TypeOK'
  BY <1>1, Facts DEF TypeOK
<1>3. TaskTable' /\ CurrentTask'
  BY <1>1, Facts DEF TaskTable, CurrentTask
<1>4. ReadyQueues' /\ SendQueues'
  BY <1>1, Facts DEF ReadyQueues, SendQueues
<1>5. EventQueues'
  BY <1>1, Facts, EventQueuesKept
<1>6. PreemptInv' /\ HaltInv'
  BY <1>1, Facts DEF PreemptInv, HaltInv, NoneReadyAbove
<1>7. QED
  BY <1>2, <1>3, <1>4, <1>5, <1>6 DEF IInv, OneQueuePerTask

\* Every step of the kernel keeps the invariant.
LEMMA StepInv == IInv /\ [Next]_vars => IInv'
<1> SUFFICES ASSUME IInv, [Next]_vars PROVE IInv'
  OBVIOUS
<1>1. CASE Schedule
  <2>1. ASSUME NEW p \in Priorities, Dispatch(p) PROVE IInv'
    BY <2>1, DispatchInv
  <2>2. CASE HaltKernel
    BY <2>2, HaltKernelInv
  <2>3. QED
    BY <1>1, <2>1, <2>2 DEF Schedule
<1>2. ASSUME NEW t \in Tids, SysCall(t) PROVE IInv'
  BY <1>2, SysCallInv
<1>3. ASSUME NEW causes \in SUBSET IrqSources, TakeIrq(causes) PROVE IInv'
  BY <1>3, TakeIrqInv
<1>4. CASE Handler
  BY <1>4, HandlerInv
<1>5. CASE Halted
  BY <1>5, StutterInv DEF Halted
<1>6. CASE UNCHANGED vars
  BY <1>6, StutterInv
<1>7. QED
  BY <1>1, <1>2, <1>3, <1>4, <1>5, <1>6 DEF Next

\* IInv holds in every reachable state of the kernel.
THEOREM Invariance == Spec => []IInv
<1>1. QED
  BY InitInv, StepInv, PTL DEF Spec

\* The kernel's variables keep their types whatever the tasks do; with it, the
\* count of event-blocked tasks (scheduler.c) never goes below zero.
THEOREM Typing == Spec => []TypeOK
<1>1. IInv => TypeOK
  BY DEF IInv
<1>2. QED
  BY Invariance, <1>1, PTL

\* Every task is in exactly the queue its state calls for, so the one `next'
\* link of a task descriptor never carries two queues (task_queue.c).
THEOREM QueuesConsistent == Spec => []OneQueuePerTask
<1>1. IInv => OneQueuePerTask
  BY DEF IInv
<1>2. QED
  BY Invariance, <1>1, PTL

\* main() returns to the boot monitor only when no task is ready and none waits
\* for an interrupt (scheduler_get_next returning 0), or on Shutdown.
THEOREM NoWorkAbandoned == Spec => []NeverHaltsWithWork
<1>1. IInv => NeverHaltsWithWork
  <2> SUFFICES ASSUME IInv, mode = "halted", current_task = NoTask,
                      NEW t \in Tids \ {Idle}
               PROVE  state[t] \in {STATE_UNUSED, STATE_DEFUNCT,
                        STATE_SEND_BLOCKED, STATE_RECEIVE_BLOCKED, STATE_REPLY_BLOCKED}
    BY DEF NeverHaltsWithWork
  <2>1. NoneReadyAbove(PRIORITY_IDLE) /\ events_waiting = 0 /\ state[t] \in States
    BY Facts DEF HaltInv, TypeOK
  <2>2. state[t] # STATE_READY
    <3>1. SUFFICES ASSUME state[t] = STATE_READY PROVE FALSE
      OBVIOUS
    <3>2. t < current_free_tid /\ priority[t] # PRIORITY_IDLE /\ priority[t] \in Priorities
      BY <3>1, Facts DEF TaskTable, TypeOK, Tids
    <3>3. priority[t] \in PRIORITY_LOWEST .. PRIORITY_HIGHEST
      BY <3>2, Facts DEF Priorities
    <3>4. ready_queue[priority[t]] = << >>
      BY <2>1, <3>3 DEF NoneReadyAbove
    <3>5. Occurs(t, ready_queue[priority[t]])
      BY <3>1, <3>2, Facts DEF ReadyQueues
    <3>6. QED
      BY <3>2, <3>4, <3>5, Facts, EmptyFacts DEF TypeOK
  <2>3. \A e \in Events : state[t] # STATE_EVENT_START + e
    <3>1. \A e \in Events : event_queue[e] \in Seq(Tids)
      BY Facts DEF TypeOK
    <3> DEFINE n(f) == Len(event_queue[f])
    <3>2. \A e \in Events : n(e) \in Nat
      BY <3>1
    <3>3. n(0) + n(1) + n(2) + n(3) + n(4) = 0
      BY <2>1, Facts DEF EventQueues, EventBlockedCount
    <3> HIDE DEF n
    <3>4. \A e \in Events : n(e) = 0
      <4>1. n(0) \in Nat /\ n(1) \in Nat /\ n(2) \in Nat /\ n(3) \in Nat /\ n(4) \in Nat
        BY <3>2 DEF Events
      <4>2. n(0) = 0
        BY <3>3, <4>1
      <4>3. n(1) = 0
        BY <3>3, <4>1
      <4>4. n(2) + n(3) + n(4) = 0
        BY <3>3, <4>1, <4>2, <4>3
      <4>5. n(2) = 0
        BY <4>1, <4>4
      <4>6. n(3) = 0
        BY <4>1, <4>5, <4>4
      <4>7. n(4) = 0
        BY <4>1, <4>5, <4>6, <4>4
      <4>8. QED
        BY <4>2, <4>3, <4>5, <4>6, <4>7 DEF Events
    <3>5. \A e \in Events : ~Occurs(t, event_queue[e])
      BY <3>4 DEF Occurs, n
    <3>6. QED
      BY <3>5, Facts DEF EventQueues
  <2>4. QED
    BY <2>1, <2>2, <2>3 DEF Events
<1>2. QED
  BY Invariance, <1>1, PTL

\* A running task is never outranked by a ready one, except after the ESC key
\* made the interrupt handler drop a preemption (interrupts.c).
THEOREM PriorityTheorem == Spec => []PriorityRespected
<1>1. IInv => PriorityRespected
  <2> SUFFICES ASSUME IInv PROVE PriorityRespected
    OBVIOUS
  <2>1. ASSUME mode = "user", esc_dropped = FALSE, NEW t \in Tids, state[t] = STATE_READY
        PROVE  priority[t] <= priority[current_task]
    <3>1. preempt = FALSE /\ NoneReadyAbove(priority[current_task])
          /\ current_task \in Tids /\ priority \in [Tids -> Priorities]
      BY <2>1, Facts DEF PreemptInv, CurrentTask, TypeOK
    <3>2. SUFFICES ASSUME priority[t] > priority[current_task] PROVE FALSE
      BY <3>1 DEF Priorities
    <3>3. priority[t] \in PRIORITY_LOWEST .. PRIORITY_HIGHEST /\ priority[t] \in Priorities
      BY <3>1, <3>2, Facts DEF Priorities
    <3>4. ready_queue[priority[t]] = << >>
      BY <3>1, <3>2, <3>3 DEF NoneReadyAbove
    <3>5. t # current_task
      BY <3>1, <3>2 DEF Priorities
    <3>6. Occurs(t, ready_queue[priority[t]])
      BY <2>1, <3>3, <3>5, Facts DEF ReadyQueues
    <3>7. QED
      BY <3>3, <3>4, <3>6, Facts, EmptyFacts DEF TypeOK
  <2>2. esc_dropped = TRUE => ESC_PRESSED \in IrqSources
    BY Facts DEF PreemptInv
  <2>3. esc_dropped \in BOOLEAN
    BY Facts DEF TypeOK
  <2>4. QED
    BY <2>1, <2>2, <2>3, Zenon DEF PriorityRespected
<1>2. QED
  BY Invariance, <1>1, PTL

-----------------------------------------------------------------------------
(* The kernel implements MessagePassing.                                   *)

\* The abstract status of a task tells the kernel's states apart.
LEMMA StatusFacts ==
  ASSUME NEW s \in States
  PROVE  /\ StatusOf(s) = "unborn"    <=> s = STATE_UNUSED
         /\ StatusOf(s) = "dead"      <=> s = STATE_DEFUNCT
         /\ StatusOf(s) = "able"      <=> s = STATE_READY
         /\ StatusOf(s) = "receiving" <=> s = STATE_SEND_BLOCKED
         /\ StatusOf(s) = "posted"    <=> s = STATE_RECEIVE_BLOCKED
         /\ StatusOf(s) = "taken"     <=> s = STATE_REPLY_BLOCKED
         /\ StatusOf(s) = "waiting"
              <=> s \in STATE_EVENT_START .. STATE_EVENT_END
BY DEF StatusOf

\* A step that sets the state of one task sets its abstract status.
LEMMA StatusSet ==
  ASSUME NEW t \in Tids, NEW v,
         \A y \in Tids : state'[y] = IF y = t THEN v ELSE state[y]
  PROVE  IPC!Set(t, StatusOf(v))
BY DEF IPC!Set

\* A step that moves no task between rendezvous stages is a stutter of the
\* abstract rendezvous.
LEMMA StutterImplements ==
  ASSUME UNCHANGED <<state, send_queue, sent_to>>
  PROVE  UNCHANGED IPC!vars
BY DEF IPC!vars

\* The kernel's boot state is an initial state of the abstract rendezvous.
LEMMA InitImplements == Init => IPC!Init
<1> SUFFICES ASSUME Init PROVE IPC!Init
  OBVIOUS
<1>1. \A t \in Tids : StatusOf(state[t]) = IF t \in {Idle, First} THEN "able" ELSE "unborn"
  BY DEF Init, StatusOf
<1>2. send_queue = [t \in Tids |-> << >>] /\ sent_to = [t \in Tids |-> NoTask]
  BY DEF Init
<1>3. QED
  BY <1>1, <1>2 DEF IPC!Init

\* Create is the birth of a task.
LEMMA CreateImplements ==
  ASSUME IInv, NEW t \in Tids, NEW p, Create(t, p)
  PROVE  \E x \in Tids : IPC!Birth(x)
<1> DEFINE new == current_free_tid
<1>1. new \in Tids /\ state[new] = STATE_UNUSED /\ state \in [Tids -> States]
      /\ send_queue \in [Tids -> Seq(Tids)]
  <2>1. new \in Nat /\ new < MAX_NUM_TASKS
    BY Facts DEF Create, TypeOK
  <2>2. QED
    BY <2>1, Facts DEF TaskTable, Tids, TypeOK
<1>2. send_queue[new] = << >>
  BY <1>1, Facts DEF SendQueues
<1>3. send_queue' = send_queue /\ sent_to' = sent_to
      /\ \A y \in Tids : state'[y] = IF y = new THEN STATE_READY ELSE state[y]
  BY <1>1, <1>2 DEF Create
<1>4. IPC!Set(new, "able")
  <2> HIDE DEF new
  <2>1. IPC!Set(new, StatusOf(STATE_READY))
    BY <1>1, <1>3, StatusSet
  <2>2. QED
    BY <2>1 DEF StatusOf
<1>5. StatusOf(state[new]) = "unborn"
  BY <1>1 DEF StatusOf
<1>6. IPC!Birth(new)
  BY <1>1, <1>3, <1>4, <1>5 DEF IPC!Birth
<1>7. QED
  BY <1>1, <1>6

\* Exit is the death of its caller.
LEMMA ExitImplements ==
  ASSUME IInv, NEW t \in Tids, Exit(t)
  PROVE  IPC!Die(t)
<1>1. state[t] = STATE_READY /\ state \in [Tids -> States]
  BY Facts DEF Exit, Calls, CurrentTask, TypeOK
<1>2. send_queue' = send_queue /\ sent_to' = sent_to
      /\ \A y \in Tids : state'[y] = IF y = t THEN STATE_DEFUNCT ELSE state[y]
  BY <1>1 DEF Exit
<1>3. IPC!Set(t, StatusOf(STATE_DEFUNCT)) /\ StatusOf(STATE_DEFUNCT) = "dead"
  BY <1>2, StatusSet DEF StatusOf
<1>4. StatusOf(state[t]) = "able"
  BY <1>1 DEF StatusOf
<1>5. QED
  BY <1>2, <1>3, <1>4 DEF IPC!Die

\* AwaitEvent takes its caller out of the rendezvous.
LEMMA AwaitEventImplements ==
  ASSUME IInv, NEW t \in Tids, NEW e, AwaitEvent(t, e)
  PROVE  IPC!Await(t)
<1>1. state[t] = STATE_READY /\ state \in [Tids -> States] /\ e \in 0 .. 4
  BY Facts DEF AwaitEvent, Calls, CurrentTask, TypeOK, Events
<1>2. send_queue' = send_queue /\ sent_to' = sent_to
      /\ \A y \in Tids : state'[y] = IF y = t THEN STATE_EVENT_START + e ELSE state[y]
  BY <1>1 DEF AwaitEvent
<1>3. StatusOf(STATE_EVENT_START + e) = "waiting"
  BY <1>1, StatusFacts
<1>4. IPC!Set(t, StatusOf(STATE_EVENT_START + e))
  BY <1>2, StatusSet
<1>5. StatusOf(state[t]) = "able"
  BY <1>1 DEF StatusOf
<1>6. QED
  BY <1>2, <1>3, <1>4, <1>5 DEF IPC!Await

\* An interrupt that wakes a notifier brings it back to the rendezvous.
LEMMA NotifyTaskImplements ==
  ASSUME IInv, NEW e, NotifyTask(e)
  PROVE  \E t \in Tids : IPC!Wake(t)
<1> DEFINE t == Head(event_queue[e])
<1>1. e \in Events /\ e \in 0 .. 4 /\ state \in [Tids -> States]
      /\ Family(event_queue, Events) /\ event_queue[e] # << >>
  BY Facts DEF NotifyTask, TypeOK, Events, Family
<1>2. t \in Tids /\ Occurs(t, event_queue[e])
  BY <1>1, PopFamily
<1>3. state[t] = STATE_EVENT_START + e
  BY <1>1, <1>2, Facts DEF EventQueues
<1>4. send_queue' = send_queue /\ sent_to' = sent_to
      /\ state' = [state EXCEPT ![t] = STATE_READY]
  BY DEF NotifyTask
<1> HIDE DEF t
<1>5. \A y \in Tids : state'[y] = IF y = t THEN STATE_READY ELSE state[y]
  BY <1>1, <1>4
<1>6. IPC!Set(t, StatusOf(STATE_READY)) /\ StatusOf(STATE_READY) = "able"
  BY <1>2, <1>5, StatusSet DEF StatusOf
<1>7. StatusOf(state[t]) = "waiting"
  BY <1>1, <1>3, StatusFacts
<1>8. IPC!Wake(t)
  BY <1>2, <1>4, <1>6, <1>7 DEF IPC!Wake
<1>9. QED
  BY <1>2, <1>8

\* Send to a task that is not receiving posts a message to it.
LEMMA SendQueuedImplements ==
  ASSUME IInv, NEW t \in Tids, NEW dst, SendQueued(t, dst)
  PROVE  dst \in Tids /\ IPC!Post(t, dst)
<1>1. state[t] = STATE_READY /\ state \in [Tids -> States] /\ dst \in Tids
      /\ state[dst] \in States
      /\ state[dst] \notin {STATE_UNUSED, STATE_DEFUNCT, STATE_SEND_BLOCKED}
  BY Facts DEF SendQueued, CanSendTo, Calls, CurrentTask, TypeOK
<1>2. send_queue' = [send_queue EXCEPT ![dst] = Append(@, t)]
      /\ sent_to' = [sent_to EXCEPT ![t] = dst]
      /\ \A y \in Tids : state'[y] = IF y = t THEN STATE_RECEIVE_BLOCKED ELSE state[y]
  BY <1>1 DEF SendQueued, PushBack
<1>3. IPC!Set(t, "posted")
  <2>1. IPC!Set(t, StatusOf(STATE_RECEIVE_BLOCKED))
    BY <1>2, StatusSet
  <2>2. QED
    BY <2>1 DEF StatusOf
<1>4. StatusOf(state[t]) = "able"
      /\ StatusOf(state[dst]) \notin {"unborn", "dead", "receiving"}
  BY <1>1, StatusFacts
<1>5. QED
  BY <1>1, <1>2, <1>3, <1>4 DEF IPC!Post

\* sys_send to a sleeping receiver completes its sys_receive in one step.
LEMMA SendReceivedImplements ==
  ASSUME IInv, NEW t \in Tids, NEW dst, SendReceived(t, dst)
  PROVE  dst \in Tids /\ IPC!HandOver(t, dst)
<1>1. /\ t # dst /\ dst \in Tids /\ state \in [Tids -> States]
      /\ state[t] = STATE_READY /\ state[dst] = STATE_SEND_BLOCKED
      /\ send_queue[dst] = << >> /\ send_queue' = send_queue
      /\ state' = [state EXCEPT ![t] = STATE_REPLY_BLOCKED, ![dst] = STATE_READY]
  BY Facts, SendReceivedIsHandOver DEF TypeOK
<1>2. sent_to' = [sent_to EXCEPT ![t] = dst]
  BY DEF SendReceived
<1>3. \A y \in Tids : StatusOf(state'[y]) = IF y = t THEN "taken"
                                            ELSE IF y = dst THEN "able"
                                            ELSE StatusOf(state[y])
  <2>1. \A y \in Tids : state'[y] = IF y = t THEN STATE_REPLY_BLOCKED
                                    ELSE IF y = dst THEN STATE_READY ELSE state[y]
    BY <1>1
  <2>2. StatusOf(STATE_REPLY_BLOCKED) = "taken" /\ StatusOf(STATE_READY) = "able"
    BY DEF StatusOf
  <2>3. QED
    BY <2>1, <2>2
<1>4. StatusOf(state[t]) = "able" /\ StatusOf(state[dst]) = "receiving"
  BY <1>1 DEF StatusOf
<1>5. QED
  BY <1>1, <1>2, <1>3, <1>4 DEF IPC!HandOver

\* Receive with a sender waiting takes the oldest message.
LEMMA ReceiveImplements ==
  ASSUME IInv, NEW t \in Tids, Receive(t)
  PROVE  IPC!Take(t)
<1> DEFINE s == Head(send_queue[t])
<1>1. /\ state[t] = STATE_READY /\ state \in [Tids -> States]
      /\ send_queue[t] # << >> /\ Family(send_queue, Tids)
  BY Facts DEF Receive, Calls, CurrentTask, TypeOK, Family
<1>2. s \in Tids /\ Occurs(s, send_queue[t])
  BY <1>1, PopFamily
<1>3. state[s] = STATE_RECEIVE_BLOCKED /\ sent_to[s] = t
  BY <1>2, Facts DEF SendQueues
<1>4. send_queue' = [send_queue EXCEPT ![t] = Tail(@)] /\ sent_to' = sent_to
      /\ state' = [state EXCEPT ![s] = STATE_REPLY_BLOCKED]
  BY DEF Receive, PopFront
<1>5. IPC!Set(s, "taken")
  <2> HIDE DEF s
  <2>1. \A y \in Tids : state'[y] = IF y = s THEN STATE_REPLY_BLOCKED ELSE state[y]
    BY <1>1, <1>4
  <2>2. IPC!Set(s, StatusOf(STATE_REPLY_BLOCKED))
    BY <1>2, <2>1, StatusSet
  <2>3. QED
    BY <2>2 DEF StatusOf
<1>6. StatusOf(state[t]) = "able" /\ StatusOf(state[s]) = "posted"
  BY <1>1, <1>3 DEF StatusOf
<1>7. QED
  BY <1>1, <1>2, <1>3, <1>4, <1>5, <1>6 DEF IPC!Take

\* Receive with no sender waiting puts its caller to sleep.
LEMMA ReceiveBlocksImplements ==
  ASSUME IInv, NEW t \in Tids, ReceiveBlocks(t)
  PROVE  IPC!Sleep(t)
<1>1. state[t] = STATE_READY /\ state \in [Tids -> States] /\ send_queue[t] = << >>
  BY Facts DEF ReceiveBlocks, Calls, CurrentTask, TypeOK
<1>2. send_queue' = send_queue /\ sent_to' = sent_to
      /\ \A y \in Tids : state'[y] = IF y = t THEN STATE_SEND_BLOCKED ELSE state[y]
  BY <1>1 DEF ReceiveBlocks
<1>3. IPC!Set(t, "receiving")
  <2>1. IPC!Set(t, StatusOf(STATE_SEND_BLOCKED))
    BY <1>2, StatusSet
  <2>2. QED
    BY <2>1 DEF StatusOf
<1>4. StatusOf(state[t]) = "able"
  BY <1>1 DEF StatusOf
<1>5. QED
  BY <1>1, <1>2, <1>3, <1>4 DEF IPC!Sleep

\* Reply answers a task that waits for an answer.
LEMMA ReplyImplements ==
  ASSUME IInv, NEW t \in Tids, NEW w, Reply(t, w)
  PROVE  w \in Tids /\ IPC!Answer(w)
<1>1. w \in Tids /\ state[w] = STATE_REPLY_BLOCKED /\ state \in [Tids -> States]
  BY Facts DEF Reply, TypeOK
<1>2. send_queue' = send_queue /\ sent_to' = [sent_to EXCEPT ![w] = NoTask]
      /\ \A y \in Tids : state'[y] = IF y = w THEN STATE_READY ELSE state[y]
  BY <1>1 DEF Reply
<1>3. IPC!Set(w, "able")
  <2>1. IPC!Set(w, StatusOf(STATE_READY))
    BY <1>1, <1>2, StatusSet
  <2>2. QED
    BY <2>1 DEF StatusOf
<1>4. StatusOf(state[w]) = "taken"
  BY <1>1 DEF StatusOf
<1>5. QED
  BY <1>1, <1>2, <1>3, <1>4 DEF IPC!Answer

\* A call that only requeues its caller is invisible to the tasks.
LEMMA RequeueImplements ==
  ASSUME NEW t, Requeue(t)
  PROVE  UNCHANGED IPC!vars
BY StutterImplements DEF Requeue, taskVars

\* Every system call is a step of the abstract rendezvous, or a stutter.
LEMMA SysCallImplements ==
  ASSUME IInv, NEW t \in Tids, SysCall(t)
  PROVE  [IPC!Next]_(IPC!vars)
<1>1. CASE Pass(t)
  BY <1>1, RequeueImplements DEF Pass
<1>2. ASSUME NEW p \in -1 .. PRIORITY_HIGHEST + 1, Create(t, p)
      PROVE  IPC!Next
  BY <1>2, CreateImplements DEF IPC!Next
<1>3. ASSUME NEW p \in -1 .. PRIORITY_HIGHEST + 1, CreateError(t, p)
      PROVE  UNCHANGED IPC!vars
  BY <1>3, RequeueImplements DEF CreateError
<1>4. CASE Exit(t)
  BY <1>4, ExitImplements DEF IPC!Next
<1>5. ASSUME NEW dst \in -1 .. MAX_NUM_TASKS, SendQueued(t, dst)
      PROVE  IPC!Next
  BY <1>5, SendQueuedImplements DEF IPC!Next
<1>6. ASSUME NEW dst \in -1 .. MAX_NUM_TASKS, SendReceived(t, dst)
      PROVE  IPC!Next
  BY <1>6, SendReceivedImplements DEF IPC!Next
<1>7. ASSUME NEW dst \in -1 .. MAX_NUM_TASKS, NEW replylen \in 0 .. 1,
             SendError(t, dst, replylen)
      PROVE  UNCHANGED IPC!vars
  BY <1>7, RequeueImplements DEF SendError
<1>8. CASE Receive(t)
  BY <1>8, ReceiveImplements DEF IPC!Next
<1>9. CASE ReceiveBlocks(t)
  BY <1>9, ReceiveBlocksImplements DEF IPC!Next
<1>10. ASSUME NEW w \in -1 .. MAX_NUM_TASKS, Reply(t, w)
       PROVE  IPC!Next
  BY <1>10, ReplyImplements DEF IPC!Next
<1>11. ASSUME NEW w \in -1 .. MAX_NUM_TASKS, NEW fits \in BOOLEAN,
              ReplyError(t, w, fits)
       PROVE  UNCHANGED IPC!vars
  BY <1>11, RequeueImplements DEF ReplyError
<1>12. ASSUME NEW e \in IrqSources \cup {-1}, AwaitEvent(t, e)
       PROVE  IPC!Next
  BY <1>12, AwaitEventImplements DEF IPC!Next
<1>13. ASSUME NEW e \in IrqSources \cup {-1}, AwaitEventError(t, e)
       PROVE  UNCHANGED IPC!vars
  BY <1>13, RequeueImplements DEF AwaitEventError
<1>14. CASE Shutdown(t)
  BY <1>14, StutterImplements DEF Shutdown, taskVars
<1>15. QED
  BY <1>1, <1>2, <1>3, <1>4, <1>5, <1>6, <1>7, <1>8, <1>9, <1>10, <1>11, <1>12,
     <1>13, <1>14 DEF SysCall

\* Every step of the kernel is a step of the abstract rendezvous, or a
\* stutter.
LEMMA StepImplements == IInv /\ [Next]_vars => [IPC!Next]_(IPC!vars)
<1> SUFFICES ASSUME IInv, [Next]_vars PROVE [IPC!Next]_(IPC!vars)
  OBVIOUS
<1>1. CASE Schedule
  BY <1>1, StutterImplements DEF Schedule, Dispatch, HaltKernel, taskVars
<1>2. ASSUME NEW t \in Tids, SysCall(t) PROVE [IPC!Next]_(IPC!vars)
  BY <1>2, SysCallImplements
<1>3. ASSUME NEW causes \in SUBSET IrqSources, TakeIrq(causes)
      PROVE  UNCHANGED IPC!vars
  BY <1>3, StutterImplements DEF TakeIrq, taskVars
<1>4. CASE Handler
  <2>1. ASSUME NEW e \in IrqSources, NotifyTask(e) PROVE IPC!Next
    BY <2>1, NotifyTaskImplements DEF IPC!Next
  <2>2. ASSUME NEW e \in IrqSources, NotifyDone(e) PROVE UNCHANGED IPC!vars
    BY <2>2, StutterImplements DEF NotifyDone, taskVars
  <2>3. CASE EscReturn \/ ResumeTask \/ PreemptTask
    BY <2>3, StutterImplements DEF EscReturn, ResumeTask, PreemptTask, taskVars
  <2>4. QED
    BY <1>4, <2>1, <2>2, <2>3 DEF Handler
<1>5. CASE Halted \/ UNCHANGED vars
  BY <1>5, StutterImplements DEF Halted, vars, taskVars
<1>6. QED
  BY <1>1, <1>2, <1>3, <1>4, <1>5 DEF Next

\* The kernel's Send, Receive and Reply (syscall_kern.c) implement the abstract
\* message passing: no message is lost, reordered, taken twice or answered
\* twice, and no receiver sleeps on a non-empty inbox.
THEOREM Refinement == Spec => MessagePassingSpec
<1>1. QED
  BY Invariance, InitImplements, StepImplements, PTL
     DEF Spec, MessagePassingSpec, IPC!Spec
=============================================================================
