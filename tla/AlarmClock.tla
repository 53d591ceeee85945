----------------------------- MODULE AlarmClock -----------------------------
(***************************************************************************)
(* What the clock server promises, without its lists, its queue and its    *)
(* register: time goes forward, a task that delays sets an alarm, and      *)
(* after an interrupt of the timer all alarms go off whose time has come   *)
(* and no other.  ClockServer implements this.                             *)
(***************************************************************************)
EXTENDS Naturals

CONSTANTS
  Clients,
  Delays     \* the numbers a client asks for

VARIABLES
  time,      \* in ticks
  alarm,     \* per client: the ticks its alarms are set to, one or none
  pending    \* the timer has interrupted, and the alarms have not gone off

vars == <<time, alarm, pending>>

Init ==
  /\ time    = 0
  /\ alarm   = [cl \in Clients |-> {}]
  /\ pending = FALSE

TimeGoesOn == time' \in Nat /\ time' >= time

\* Time passes, or is asked for.
Advance == TimeGoesOn /\ UNCHANGED <<alarm, pending>>

Interrupt == pending' = TRUE /\ UNCHANGED <<time, alarm>>

Set(cl, tick) ==
  /\ alarm[cl] = {}
  /\ alarm' = [alarm EXCEPT ![cl] = {tick}]
  /\ UNCHANGED pending

Delay(cl, n)      == TimeGoesOn /\ Set(cl, time' + n)
DelayUntil(cl, n) == TimeGoesOn /\ Set(cl, n)

\* The alarms go off: all that are due by now.
Ring ==
  /\ pending /\ pending' = FALSE
  /\ TimeGoesOn
  /\ alarm' = [cl \in Clients |-> {tick \in alarm[cl] : tick > time'}]

Next ==
  \/ Advance
  \/ Interrupt
  \/ \E cl \in Clients, n \in Delays : Delay(cl, n) \/ DelayUntil(cl, n)
  \/ Ring

Spec == Init /\ [][Next]_vars
=============================================================================
