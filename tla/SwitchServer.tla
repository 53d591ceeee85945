---------------------------- MODULE SwitchServer ----------------------------
(***************************************************************************)
(* The switch server, its couriers and the two tasks they report to        *)
(* (tasks/switch_server.c, tasks/track_server.c, tasks/main_task.c).  The  *)
(* track server keeps a copy of the table and routes and reserves by it;   *)
(* the main task does nothing with a report (the body of                   *)
(* term_switch_update is commented out) but has its courier ask again.     *)
(*                                                                         *)
(* A courier asks the switch server for the next change, takes it to its   *)
(* parent and asks again; what changes in between, nobody tells it.        *)
(* Commands come from the command line to the main task and from the train *)
(* controller to the track server, which receive them and the reports in   *)
(* any order.                                                              *)
(***************************************************************************)
EXTENDS Naturals, Sequences, FiniteSets

CONSTANTS
  Switches,               \* the turn-outs
  MAX_EVENT_QUEUE_SIZE    \* of the ring buffer of listeners, 5 in the code

SWITCH_CURVED   == "curved"
SWITCH_STRAIGHT == "straight"
Directions == {SWITCH_CURVED, SWITCH_STRAIGHT}
Nothing    == [sw |-> "none", direction |-> "none"]   \* no change to speak of
Reports    == [sw : Switches, direction : Directions] \cup {Nothing}

Main    == "main"
Track   == "track"
Parents == {Main, Track}
Courier(p) == <<"courier", p>>
Self(p)    == <<"parent", p>>

\* A ring buffer of this size holds one less (clist.c).
ASSUME QueueAssumption ==
  MAX_EVENT_QUEUE_SIZE \in Nat /\ MAX_EVENT_QUEUE_SIZE > Cardinality(Parents)

VARIABLES
  inbox,         \* the switch server's send queue: parents and couriers
  server,        \* "receive" | "switching" | "resting", with current
  current,       \* the change the switch server works on
  switch_table,  \* the switch server's table
  event_list,    \* the couriers it will answer
  solenoid,      \* whether the coil of a turn-out has current
  parent,        \* "receive" | "setting" (in SwitchSetDirection) | "set"
  request,       \* the parent's last call of SwitchSetDirection
  copy,          \* the track server's copy of the table
  courier,       \* "asking" | "listening" | "reporting"
  report,        \* what the courier has to report
  missed         \* history: what last changed while Track's courier was away

vars == <<inbox, server, current, switch_table, event_list, solenoid, parent,
          request, copy, courier, report, missed>>

serverVars == <<server, current, switch_table, event_list, solenoid, missed>>
parentVars == <<parent, request, copy>>

\* After start-up: track_init has fetched the table.
Init ==
  /\ server       = "receive"
  /\ switch_table \in [Switches -> Directions]
  /\ current      = Nothing
  /\ event_list   = << >>
  /\ solenoid     = "off"
  /\ parent       = [p \in Parents |-> "receive"]
  /\ request      = [p \in Parents |-> Nothing]
  /\ copy         = switch_table
  /\ courier      = [p \in Parents |-> "asking"]
  /\ inbox        \in {<<Courier(Track), Courier(Main)>>, <<Courier(Main), Courier(Track)>>}
  /\ report       = [p \in Parents |-> Nothing]
  /\ missed       = {}

-----------------------------------------------------------------------------
(* The main task and the track server.                                     *)

\* A command that sets a turn-out: SwitchSetDirection, a Send to the switch
\* server.  A command that is refused (not valid, the turn-out not reserved by
\* the train) changes nothing.
SetDirection(p, sw, direction) ==
  /\ parent[p] = "receive"
  /\ parent'  = [parent EXCEPT ![p] = "setting"]
  /\ request' = [request EXCEPT ![p] = [sw |-> sw, direction |-> direction]]
  /\ inbox'   = Append(inbox, Self(p))
  /\ UNCHANGED <<copy, courier, report>>
  /\ UNCHANGED serverVars

\* SwitchSetDirection has returned.  The track server records the direction
\* itself.  Both reply to their sender.
DirectionSet(p) ==
  /\ parent[p] = "set"
  /\ parent' = [parent EXCEPT ![p] = "receive"]
  /\ copy'   = IF p = Track
               THEN [copy EXCEPT ![request[p].sw] = request[p].direction] ELSE copy
  /\ request' = [request EXCEPT ![p] = Nothing]
  /\ UNCHANGED <<inbox, courier, report>>
  /\ UNCHANGED serverVars

\* The report of the courier, which may ask for the next: the track server
\* records it, the main task only answers.
ReportMessage(p) ==
  /\ parent[p] = "receive"
  /\ courier[p] = "reporting"
  /\ copy'    = IF p = Track
                THEN [copy EXCEPT ![report[p].sw] = report[p].direction] ELSE copy
  /\ courier' = [courier EXCEPT ![p] = "asking"]
  /\ report'  = [report EXCEPT ![p] = Nothing]
  /\ inbox'   = Append(inbox, Courier(p))
  /\ UNCHANGED <<parent, request>>
  /\ UNCHANGED serverVars

-----------------------------------------------------------------------------
(* The switch server.                                                      *)

Received(sender) ==
  /\ server = "receive"
  /\ inbox # << >>
  /\ Head(inbox) = sender
  /\ inbox' = Tail(inbox)

\* SWITCH_OP_LISTEN; the AssertF on a full list cannot fail, see TypeOK.
ListenMessage(p) ==
  /\ Received(Courier(p))
  /\ event_list' = Append(event_list, p)
  /\ courier'    = [courier EXCEPT ![p] = "listening"]
  /\ UNCHANGED <<server, current, switch_table, solenoid, report, missed>>
  /\ UNCHANGED parentVars

\* Defect for CommandsAnswered: the reply comes after the test for a change.
NoChangeSilent(p) ==
  /\ Received(Self(p))
  /\ switch_table[request[p].sw] = request[p].direction
  /\ UNCHANGED <<courier, report>>
  /\ UNCHANGED parentVars
  /\ UNCHANGED serverVars

\* SWITCH_OP_CURVED and SWITCH_OP_STRAIGHT, and no change: a reply only.
NoChange(p) ==
  /\ Received(Self(p))
  /\ switch_table[request[p].sw] = request[p].direction
  /\ parent' = [parent EXCEPT ![p] = "set"]
  /\ UNCHANGED <<request, copy, courier, report>>
  /\ UNCHANGED serverVars

\* A change: the reply comes first, then TrainCommandSwitch, a Send.
Change(p) ==
  /\ Received(Self(p))
  /\ switch_table[request[p].sw] # request[p].direction
  /\ parent'  = [parent EXCEPT ![p] = "set"]
  /\ server'  = "switching"
  /\ current' = request[p]
  /\ UNCHANGED <<switch_table, event_list, solenoid, missed, request,
                 copy, courier, report>>

\* Defect for CopiesGoStaleOnlyWhileAway: only the first listener is told.
TellListenersFirst ==
  LET told == IF event_list = << >> THEN {} ELSE {Head(event_list)}
  IN  /\ courier' = [p \in Parents |-> IF p \in told THEN "reporting" ELSE courier[p]]
      /\ report'  = [p \in Parents |-> IF p \in told THEN current ELSE report[p]]

\* Everybody on the list gets the report, and the couriers Send it on.
TellListeners ==
  LET told == {event_list[i] : i \in DOMAIN event_list}
  IN  /\ courier' = [p \in Parents |-> IF p \in told THEN "reporting" ELSE courier[p]]
      /\ report'  = [p \in Parents |-> IF p \in told THEN current ELSE report[p]]

\* The command has gone out: the table, the listeners, then Delay.
Switched ==
  /\ server = "switching"
  /\ server'       = "resting"
  /\ solenoid'     = "on"
  /\ switch_table' = [switch_table EXCEPT ![current.sw] = current.direction]
  /\ event_list'   = << >>
  /\ missed'       = IF \E i \in DOMAIN event_list : event_list[i] = Track
                     THEN missed \ {current.sw} ELSE missed \cup {current.sw}
  /\ TellListeners
  /\ UNCHANGED <<inbox, current, parent, request, copy>>

\* Defect for SolenoidReleased: the coil stays on while requests wait.
SolenoidOffIfIdle ==
  /\ server = "resting"
  /\ server'   = "receive"
  /\ solenoid' = IF inbox = << >> THEN "off" ELSE solenoid
  /\ current'  = Nothing
  /\ UNCHANGED <<inbox, switch_table, event_list, missed, courier, report>>
  /\ UNCHANGED parentVars

\* Delay is over: TrainCommandSolenoidOff, then the next message.
SolenoidOff ==
  /\ server = "resting"
  /\ server'   = "receive"
  /\ solenoid' = "off"
  /\ current'  = Nothing
  /\ UNCHANGED <<inbox, switch_table, event_list, missed, courier, report>>
  /\ UNCHANGED parentVars

Server ==
  \/ \E p \in Parents : ListenMessage(p) \/ NoChange(p) \/ Change(p)
  \/ Switched
  \/ SolenoidOff

Parent(p) ==
  \/ \E sw \in Switches, direction \in Directions : SetDirection(p, sw, direction)
  \/ DirectionSet(p)
  \/ ReportMessage(p)

Next == Server \/ \E p \in Parents : Parent(p)

Spec == Init /\ [][Next]_vars

\* None of these tasks is starved: the clock and train command servers they
\* wait for answer, and none runs for long.  Commands need not ever come.
Fairness == WF_vars(Server) /\ \A p \in Parents : WF_vars(DirectionSet(p))

FairSpec == Spec /\ Fairness

-----------------------------------------------------------------------------
(* Properties.                                                             *)

\* Types of the variables; the list of listeners never overflows.
TypeOK ==
  /\ inbox  \in Seq({Self(p) : p \in Parents} \cup {Courier(p) : p \in Parents})
  /\ server \in {"receive", "switching", "resting"}
  /\ current \in Reports
  /\ switch_table \in [Switches -> Directions]
  /\ event_list \in Seq(Parents) /\ Len(event_list) < MAX_EVENT_QUEUE_SIZE
  /\ solenoid \in {"on", "off"}
  /\ parent  \in [Parents -> {"receive", "setting", "set"}]
  /\ request \in [Parents -> Reports]
  /\ copy    \in [Switches -> Directions]
  /\ courier \in [Parents -> {"asking", "listening", "reporting"}]
  /\ report  \in [Parents -> Reports]
  /\ missed  \in SUBSET Switches

\* The track server's copy is wrong about a turn-out only when that turn-out last
\* changed while the courier was away from the list, or while the change is on its
\* way: the switch server is at it, or the courier has it.  The changes the courier
\* listens for are never lost, nor put in the wrong order with those the track
\* server records itself.  (That the courier can be away at all is what `missed'
\* excuses; CachedTableInSync shows what comes of it.)
CopiesGoStaleOnlyWhileAway ==
  \A sw \in Switches :
    copy[sw] # switch_table[sw] =>
      \/ sw \in missed
      \/ courier[Track] = "reporting" /\ report[Track].sw = sw
      \/ server = "switching" /\ current.sw = sw

\* The comment of track_server.c:513-514, "record the switch that changed so that
\* our cached table of switches is in sync": when everything is quiet, it is.
Quiet ==
  /\ server = "receive" /\ inbox = << >>
  /\ \A p \in Parents :
       parent[p] = "receive" /\ courier[p] = "listening"

CachedTableInSync == Quiet => copy = switch_table

\* A task that sets a switch goes on, although the server that answers it waits
\* for the train command server and for the clock, and tells that same task's
\* courier: no circle of tasks that wait for each other.
CommandsAnswered ==
  \A p \in Parents : parent[p] # "receive" ~> parent[p] = "receive"

\* A coil that was given current is switched off again, however many commands
\* are waiting.
SolenoidReleased == (solenoid = "on") ~> (solenoid = "off")
=============================================================================
