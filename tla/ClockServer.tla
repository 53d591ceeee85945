----------------------------- MODULE ClockServer -----------------------------
(***************************************************************************)
(* The clock server, its event notifier and the tasks that call it         *)
(* (tasks/clock_server.c, tasks/event_notifier.c, ordered_list.c).         *)
(*                                                                         *)
(* TIMER3 counts down at 2 kHz; the server reads it with every message and *)
(* turns CountsPerTick counts into a tick.  TIMER2 interrupts only tell    *)
(* the server to look for delays that are over.  The register wraps round, *)
(* and the code compares and subtracts it as a signed integer.             *)
(***************************************************************************)
EXTENDS Integers, Sequences, FiniteSets, LinkedLists

CONSTANTS
  Clients,        \* the tasks that call Time, Delay and DelayUntil
  MAX_TIMERS,     \* 12 in the code: as many as there are such tasks
  CountsPerTick,  \* 20 in the code
  TimerRange,     \* values of the TIMER3 register: 2^32 in the code, even
  Delays,         \* arguments of Delay and DelayUntil
  MaxTime         \* bound of the model on the number of counts that pass

ASSUME ClientsAssumption == {"none", "notifier"} \cap Clients = {}
ASSUME TimersAssumption ==
  IsFiniteSet(Clients) /\ MAX_TIMERS \in Nat \ {0} /\ MAX_TIMERS >= Cardinality(Clients)
ASSUME CountsAssumption ==
  /\ CountsPerTick \in Nat \ {0}
  /\ TimerRange \in Nat /\ TimerRange % 2 = 0 /\ TimerRange > 2 * CountsPerTick
  /\ Delays \subseteq Nat /\ MaxTime \in Nat

CLOCK_TIME        == "time"
CLOCK_DELAY       == "delay"
CLOCK_DELAY_UNTIL == "delay until"
Notifier  == "notifier"
NoClient  == "none"
NoRequest == [type |-> "none", data |-> 0, called |-> 0]
Timers    == 1 .. MAX_TIMERS

VARIABLES
  now,               \* counts since the server read TIMER3 for the first time
  previous_ticks,    \* the register's value when ticks last changed
  ticks,
  inbox,             \* the server's send queue
  client,            \* "running" | "sent" | "waiting" (received, no reply yet)
  request,           \* the client's last request, and when it was made
  notifier,          \* "awaiting" | "sent" | "held" (received, no reply yet)
  notifier_blocked,
  lists,             \* the links of the timers, the free and the active list
  timer              \* per timer: the task and the tick it waits for

vars == <<now, previous_ticks, ticks, inbox, client, request, notifier,
          notifier_blocked, lists, timer>>

-----------------------------------------------------------------------------
(* TIMER3.                                                                 *)

\* The register, a free-running down counter.
Timer3(time) == (TimerRange - 1 - time) % TimerRange

\* A register value, or a difference of two, as the code's int.
Signed(x) ==
  LET m == x % TimerRange IN IF m >= TimerRange \div 2 THEN m - TimerRange ELSE m

\* Lines 94-101: the ticks to add; the counts that do not make up a tick are
\* dropped whenever ticks changes.
TicksPassed ==
  LET current  == Signed(Timer3(now))
      previous == Signed(previous_ticks)
      up   == Signed(current - previous)
      down == Signed(previous - current)
  IN  IF current > previous /\ up >= CountsPerTick
      THEN (TimerRange - 1 - up) \div CountsPerTick
      ELSE IF down >= CountsPerTick THEN down \div CountsPerTick ELSE 0

\* Counts since ticks last changed.
Elapsed == (previous_ticks - Timer3(now)) % TimerRange

-----------------------------------------------------------------------------
(* After start-up: the notifier has been told to wait for the timer.       *)

Init ==
  /\ now   = 0
  /\ ticks = 0
  /\ previous_ticks = Timer3(0)
  /\ inbox    = << >>
  /\ client   = [cl \in Clients |-> "running"]
  /\ request  = [cl \in Clients |-> NoRequest]
  /\ notifier = "awaiting"
  /\ notifier_blocked = FALSE
  /\ lists = [next   |-> [t \in Timers |-> IF t = MAX_TIMERS THEN Null ELSE t + 1],
              free   |-> [front |-> 1, back |-> MAX_TIMERS],
              active |-> EmptyList]
  /\ timer = [t \in Timers |-> [tid |-> NoClient, data |-> 0]]

-----------------------------------------------------------------------------
(* The world around the server.                                            *)

\* A count of TIMER3.  The server looks at it at least once in half a range
\* (12 days in the code).
Count ==
  /\ now < MaxTime
  /\ Elapsed + 1 < TimerRange \div 2
  /\ now' = now + 1
  /\ UNCHANGED <<previous_ticks, ticks, inbox, client, request, notifier,
                 notifier_blocked, lists, timer>>

\* Time, Delay and DelayUntil: Send to the server.
Call(cl, type, n) ==
  /\ client[cl] = "running"
  /\ client'  = [client EXCEPT ![cl] = "sent"]
  /\ request' = [request EXCEPT ![cl] = [type |-> type, data |-> n, called |-> now]]
  /\ inbox'   = Append(inbox, cl)
  /\ UNCHANGED <<now, previous_ticks, ticks, notifier, notifier_blocked, lists,
                 timer>>

\* The timer interrupt wakes the notifier, which Sends to the server.
Notify ==
  /\ notifier = "awaiting"
  /\ notifier' = "sent"
  /\ inbox'    = Append(inbox, Notifier)
  /\ UNCHANGED <<now, previous_ticks, ticks, client, request, notifier_blocked,
                 lists, timer>>

-----------------------------------------------------------------------------
(* The server.                                                             *)

Received(sender) ==
  /\ inbox # << >>
  /\ Head(inbox) = sender
  /\ inbox' = Tail(inbox)

\* Defect for TicksTrackTime: previous_ticks advances even when no tick passed.
UpdateTicksAlways ==
  /\ ticks' = ticks + TicksPassed
  /\ previous_ticks' = Timer3(now)

UpdateTicks ==
  /\ ticks' = ticks + TicksPassed
  /\ previous_ticks' = IF TicksPassed = 0 THEN previous_ticks ELSE Timer3(now)

Data == [t \in Timers |-> timer[t].data]

\* The timers that are over: the front of the list up to the first that is not.
Over(tick) ==
  LET at == Places(lists, "active")
  IN  {t \in Timers :
         /\ timer[t].data <= tick
         /\ \E k \in Timers : at[k] = t /\ \A j \in 1 .. k : timer[at[j]].data <= tick}

\* Defect for TimersAccounted: a timer that is over is not made free again.
ReleaseNot(h, n) ==
  LET after[k \in 0 .. n] ==
        IF k = 0 THEN h ELSE list_pop_front(after[k - 1], "active")
  IN  after[n]

\* Moves the first n timers of the active list to the free list.
Release(h, n) ==
  LET after[k \in 0 .. n] ==
        IF k = 0 THEN h
        ELSE list_push_back(list_pop_front(after[k - 1], "active"), "free",
                            after[k - 1].active.front)
  IN  after[n]

\* Nothing to wait for: the notifier is not replied to.
NotifierBlocks ==
  /\ Received(Notifier)
  /\ UpdateTicks
  /\ lists.active.front = Null
  /\ notifier' = "held"
  /\ notifier_blocked' = TRUE
  /\ UNCHANGED <<now, client, request, lists, timer>>

\* The notifier is replied to, and so is every task whose time has come.
NotifierWakes ==
  /\ Received(Notifier)
  /\ UpdateTicks
  /\ lists.active.front # Null
  /\ notifier' = "awaiting"
  /\ LET over  == Over(ticks')
         woken == {timer[t].tid : t \in over}
     IN  /\ client'  = [cl \in Clients |-> IF cl \in woken THEN "running" ELSE client[cl]]
         /\ request' = [cl \in Clients |-> IF cl \in woken THEN NoRequest ELSE request[cl]]
         /\ lists'   = Release(lists, Cardinality(over))
         /\ timer'   = [t \in Timers |->       \* the code leaves stale values
                          IF t \in over THEN [tid |-> NoClient, data |-> 0] ELSE timer[t]]
  /\ UNCHANGED <<now, notifier_blocked>>

\* Defect for AlarmClockSpec: the new timer goes to the back of the list.
AddUnordered(h, t, data) == list_push_back(h, "active", t)

Add(h, t, data) == ordered_list_add(h, "active", t, data)

\* Defect for NotifierProtocol and DelaysEnd: DELAY_UNTIL forgets the blocked notifier.
ReleaseNotifierIfDelay(cl) ==
  IF request[cl].type = CLOCK_DELAY /\ notifier_blocked
  THEN notifier' = "awaiting" /\ notifier_blocked' = FALSE
  ELSE UNCHANGED <<notifier, notifier_blocked>>

ReleaseNotifier(cl) ==
  IF notifier_blocked
  THEN notifier' = "awaiting" /\ notifier_blocked' = FALSE
  ELSE UNCHANGED <<notifier, notifier_blocked>>

\* Defect for NeverEarly: the delay counts from the start of the server.
DeadlineAbsolute(cl) == request[cl].data

Deadline(cl) ==
  IF request[cl].type = CLOCK_DELAY THEN ticks' + request[cl].data
                                    ELSE request[cl].data

\* CLOCK_TIME: replied to at once.
TimeMessage(cl) ==
  /\ Received(cl)
  /\ request[cl].type = CLOCK_TIME
  /\ UpdateTicks
  /\ client'  = [client EXCEPT ![cl] = "running"]
  /\ request' = [request EXCEPT ![cl] = NoRequest]
  /\ UNCHANGED <<now, notifier, notifier_blocked, lists, timer>>

\* CLOCK_DELAY and CLOCK_DELAY_UNTIL: a timer from the free list, which is not
\* checked for being empty.
DelayMessage(cl) ==
  /\ Received(cl)
  /\ request[cl].type \in {CLOCK_DELAY, CLOCK_DELAY_UNTIL}
  /\ UpdateTicks
  /\ LET t == lists.free.front
         new == [timer EXCEPT ![t] = [tid |-> cl, data |-> Deadline(cl)]]
     IN  /\ timer' = new
         /\ lists' = Add(list_pop_front(lists, "free"), t,
                         [u \in Timers |-> new[u].data])
  /\ client' = [client EXCEPT ![cl] = "waiting"]
  /\ ReleaseNotifier(cl)
  /\ UNCHANGED <<now, request>>

Server ==
  \/ NotifierBlocks
  \/ NotifierWakes
  \/ \E cl \in Clients : TimeMessage(cl) \/ DelayMessage(cl)

Next ==
  \/ Count
  \/ \E cl \in Clients, type \in {CLOCK_DELAY, CLOCK_DELAY_UNTIL}, n \in Delays :
       Call(cl, type, n)
  \/ \E cl \in Clients : Call(cl, CLOCK_TIME, 0)
  \/ Notify
  \/ Server

Spec == Init /\ [][Next]_vars

\* Time passes, the timer interrupts, and server and notifier have the two
\* highest priorities.  Nobody need ever call.
Fairness == WF_vars(Count) /\ WF_vars(Notify) /\ WF_vars(Server)

FairSpec == Spec /\ Fairness

-----------------------------------------------------------------------------
(* Properties.                                                             *)

ActiveTimers == NodesOf(lists, "active")
FreeTimers   == NodesOf(lists, "free")

\* Types of the variables.
TypeOK ==
  /\ now \in 0 .. MaxTime
  /\ previous_ticks \in 0 .. TimerRange - 1
  /\ ticks  \in Nat
  /\ inbox  \in Seq(Clients \cup {Notifier})
  /\ client \in [Clients -> {"running", "sent", "waiting"}]
  /\ notifier \in {"awaiting", "sent", "held"}
  /\ notifier_blocked \in BOOLEAN
  /\ timer \in [Timers -> [tid : Clients \cup {NoClient}, data : Nat]]

\* Every timer is free or active, never both, and a task that waits in Delay
\* has exactly one active timer: none is lost when timers end out of order.
TimersAccounted ==
  /\ TypeOK
  /\ ActiveTimers \cap FreeTimers = {}
  /\ ActiveTimers \cup FreeTimers = Timers
  /\ \A cl \in Clients :
       LET mine == {t \in ActiveTimers : timer[t].tid = cl}
       IN  IF client[cl] = "waiting" THEN \E t \in mine : mine = {t} ELSE mine = {}

\* The notifier is held exactly while notifier_blocked says so, and then the list
\* of those who wait is empty: a held notifier never leaves a task asleep
\* (clock_server.c:103-106).
NotifierProtocol ==
  /\ notifier = "held" <=> notifier_blocked
  /\ notifier_blocked => lists.active.front = Null

\* The server's time, read at any moment and across the register's wrap, is
\* never ahead of the hardware's, and loses less than half of it.  It does lose
\* some: the counts left over by the division are dropped at every update, so
\* "each tick is 10ms" (clock_server.c:83) is a lower bound.
TicksTrackTime ==
  LET last == now - Elapsed
  IN  /\ CountsPerTick * ticks <= last
      /\ last <= (2 * CountsPerTick - 1) * ticks

\* Delay(n) returns after more than n - 1 whole ticks, and DelayUntil(n) not
\* before tick n.
NeverEarly ==
  [][\A cl \in Clients :
       (client[cl] = "waiting" /\ client'[cl] = "running") =>
         IF request[cl].type = CLOCK_DELAY
         THEN now' - request[cl].called > CountsPerTick * (request[cl].data - 1)
         ELSE now' >= CountsPerTick * request[cl].data]_vars

\* The alarms of a client: one if it waits, and none otherwise.
Alarms(cl) == {timer[t].data : t \in {u \in ActiveTimers : timer[u].tid = cl}}

Promise == INSTANCE AlarmClock WITH
  time    <- ticks,
  alarm   <- [cl \in Clients |-> Alarms(cl)],
  pending <- notifier = "sent"

\* The server is an alarm clock: when the notifier's message has been handled, those
\* whose time has come have been woken and no other, in whatever order they called,
\* since the active list is in the order of its deadlines; and no other message
\* moves an alarm or the time backwards.
AlarmClockSpec == Promise!Spec

\* The bound leaves time for the tick to come, with the loss of TicksTrackTime.
Comes(tick) == (2 * CountsPerTick - 1) * tick <= MaxTime - (CountsPerTick - 1)

\* Every Delay and DelayUntil returns, whoever calls meanwhile and wherever the
\* register wraps: the notifier that was left without a reply is always let go
\* again, and no timer hides behind one that ends later.
DelaysEnd ==
  \A cl \in Clients :
    (\E t \in ActiveTimers : timer[t].tid = cl /\ Comes(timer[t].data))
      ~> client[cl] = "running"
=============================================================================
