--------------------------- MODULE MessagePassing ---------------------------
(***************************************************************************)
(* What the kernel promises its tasks about Send, Receive and Reply, with  *)
(* no scheduler, no priorities and no interrupts: a message waits in its   *)
(* receiver's inbox, messages are taken oldest first, a sender is released *)
(* by exactly one reply and only after its message was taken, and a        *)
(* receiver sleeps only while its inbox is empty.                          *)
(***************************************************************************)
EXTENDS Sequences

CONSTANTS Task, Started, Nobody

VARIABLES
  status,   \* what each task is doing
  inbox,    \* the tasks whose message a task has not taken yet, oldest first
  peer      \* whom a task has sent to and has no answer from

vars == <<status, inbox, peer>>

Set(t, s) == status' = [status EXCEPT ![t] = s]

Init ==
  /\ status = [t \in Task |-> IF t \in Started THEN "able" ELSE "unborn"]
  /\ inbox  = [t \in Task |-> << >>]
  /\ peer   = [t \in Task |-> Nobody]

Birth(t) == status[t] = "unborn"  /\ Set(t, "able")    /\ UNCHANGED <<inbox, peer>>
Die(t)   == status[t] = "able"    /\ Set(t, "dead")    /\ UNCHANGED <<inbox, peer>>
Await(t) == status[t] = "able"    /\ Set(t, "waiting") /\ UNCHANGED <<inbox, peer>>
Wake(t)  == status[t] = "waiting" /\ Set(t, "able")    /\ UNCHANGED <<inbox, peer>>

\* A message to a task that is not sleeping in Receive.
Post(s, r) ==
  /\ status[s] = "able"
  /\ status[r] \notin {"unborn", "dead", "receiving"}
  /\ Set(s, "posted")
  /\ inbox' = [inbox EXCEPT ![r] = Append(@, s)]
  /\ peer'  = [peer EXCEPT ![s] = r]

\* A message to a task that sleeps in Receive, whose inbox is then empty.
HandOver(s, r) ==
  /\ status[s] = "able"
  /\ status[r] = "receiving"
  /\ inbox[r] = << >>
  /\ status' = [status EXCEPT ![s] = "taken", ![r] = "able"]
  /\ peer'   = [peer EXCEPT ![s] = r]
  /\ UNCHANGED inbox

\* The oldest message, whose sender still waits and did send it to r.
Take(r) ==
  /\ status[r] = "able"
  /\ inbox[r] # << >>
  /\ LET s == Head(inbox[r])
     IN  /\ status[s] = "posted"
         /\ peer[s] = r
         /\ Set(s, "taken")
  /\ inbox' = [inbox EXCEPT ![r] = Tail(@)]
  /\ UNCHANGED peer

Sleep(r) ==
  /\ status[r] = "able"
  /\ inbox[r] = << >>
  /\ Set(r, "receiving")
  /\ UNCHANGED <<inbox, peer>>

Answer(s) ==
  /\ status[s] = "taken"
  /\ Set(s, "able")
  /\ peer' = [peer EXCEPT ![s] = Nobody]
  /\ UNCHANGED inbox

Next ==
  \E t \in Task :
    \/ Birth(t) \/ Die(t) \/ Await(t) \/ Wake(t)
    \/ \E r \in Task : Post(t, r) \/ HandOver(t, r)
    \/ Take(t) \/ Sleep(t) \/ Answer(t)

Spec == Init /\ [][Next]_vars
=============================================================================
