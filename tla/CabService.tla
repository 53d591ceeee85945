----------------------------- MODULE CabService -----------------------------
(***************************************************************************)
(* The cab service and its couriers (tasks/cab_service.c).                 *)
(*                                                                         *)
(* A customer is promised to every free cab; the first that arrives takes  *)
(* him and stops the others.  The service orders a cab through its         *)
(* courier, which calls the train controller, stays blocked there as long  *)
(* as the train is on its way, waits four seconds and reports.  The        *)
(* service therefore never waits for a train, and learns of an arrival     *)
(* late: by then the other cabs may have arrived too.                      *)
(*                                                                         *)
(* Of the train controller (tasks/train_controller.c, module               *)
(* TrainController) only the answers are kept, and that it may be waiting: *)
(* for a train's task that reverses, it waits up to four seconds, or for   *)
(* ever.  The service waits for it when it stops another cab, and nowhere  *)
(* else.  Calls of the clock and of the terminal server always return.     *)
(***************************************************************************)
EXTENDS Integers, Sequences, SequencesExt

CONSTANTS
  cab_descriptors,   \* the sequence of the cabs' trains, <<35, 41>> in the code
  NUM_REQUESTS       \* the dispatches there are, 10 in the code

Cabs == Range(cab_descriptors)

ASSUME CabsAssumption ==
  /\ cab_descriptors \in Seq(Nat \ {0}) /\ IsInjective(cab_descriptors)
  /\ NUM_REQUESTS \in Nat /\ NUM_REQUESTS >= Len(cab_descriptors)

Dispatches == 1 .. NUM_REQUESTS
NoDispatch == 0
Main       == 0                 \* the main task among the senders
Senders    == Cabs \cup {Main}

VARIABLES
  inbox,             \* the service's send queue: the main task, the couriers
  work,              \* the Sends and the Reply its handler has yet to make
  free_cabs_list, free_dispatch_list,
  dispatch,          \* of each cab
  courier,           \* of each cab: "receive" | "routing" (its call has not been
                     \* handled) | "on_route" | "forgotten" (it will never be
                     \* answered) | "waiting" (in Delay) | "reporting"
  event,             \* the event it was told to report
  status,            \* and what the controller answered
  main,              \* "idle" | "asking"
  controller,        \* "serving" | "waiting" (in a Send to a train's task)
  failed             \* an AssertF has stopped the system

vars == <<inbox, work, free_cabs_list, free_dispatch_list, dispatch, courier,
          event, status, main, controller, failed>>

listVars    == <<free_cabs_list, free_dispatch_list, dispatch>>
courierVars == <<courier, event, status>>

Init ==
  /\ inbox  = << >>
  /\ work   = << >>
  /\ free_cabs_list     = cab_descriptors
  /\ free_dispatch_list = [i \in Dispatches |-> i]
  /\ dispatch = [c \in Cabs |-> NoDispatch]
  /\ courier  = [c \in Cabs |-> "receive"]
  /\ event    = [c \in Cabs |-> "CAB_DISPATCH_COMPLETE"]
  /\ status   = [c \in Cabs |-> 0]
  /\ main     = "idle"
  /\ controller = "serving"
  /\ failed   = FALSE

-----------------------------------------------------------------------------
(* What a handler has yet to do.                                           *)

CabRoute(c, e)           == [op |-> "route", cab |-> c, event |-> e]
TrainControllerRouteStop(b, c) == [op |-> "stop", cab |-> b, arrived |-> c]
Answer                   == [op |-> "answer"]

\* CabRoute: the courier takes the order and replies at once, if it is in its
\* Receive; the service is blocked until then.
SendRoute ==
  /\ ~failed /\ work # << >> /\ Head(work).op = "route"
  /\ LET c == Head(work).cab
     IN  /\ courier[c] = "receive"
         /\ courier' = [courier EXCEPT ![c] = "routing"]
         /\ event'   = [event EXCEPT ![c] = Head(work).event]
  /\ work' = Tail(work)
  /\ UNCHANGED <<inbox, status, main, failed, controller>>
  /\ UNCHANGED listVars

\* The cab b has the same customer as c.
Rival(b, c) == b # c /\ dispatch[b] = dispatch[c]

Stopping == ~failed /\ work # << >> /\ Head(work).op = "stop"

\* A cab with another customer, and the one that arrived, is left alone.
SkipStop ==
  /\ Stopping
  /\ ~Rival(Head(work).cab, Head(work).arrived)
  /\ work' = Tail(work)
  /\ UNCHANGED <<inbox, main, failed, controller>>
  /\ UNCHANGED <<listVars, courierVars>>

\* The service Sends to the train controller, and waits until that serves it.  A
\* train on its route is stopped, and the courier answered with -1, which does
\* not wait then.  For a train that is not on a route the controller does
\* nothing.
SendStop ==
  /\ Stopping
  /\ controller = "serving"
  /\ LET b == Head(work).cab
     IN  /\ Rival(b, Head(work).arrived)
         /\ IF courier[b] = "on_route"
            THEN /\ courier' = [courier EXCEPT ![b] = "reporting"]
                 /\ status'  = [status EXCEPT ![b] = -1]
                 /\ inbox'   = Append(inbox, b)
            ELSE UNCHANGED <<courier, status, inbox>>
  /\ work' = Tail(work)
  /\ UNCHANGED <<event, main, failed, controller>>
  /\ UNCHANGED listVars

SendAnswer ==
  /\ ~failed /\ work # << >> /\ Head(work).op = "answer"
  /\ main' = "idle"
  /\ work' = Tail(work)
  /\ UNCHANGED <<inbox, failed, controller>>
  /\ UNCHANGED <<listVars, courierVars>>

-----------------------------------------------------------------------------
(* The couriers and the controller's answers.                              *)

Step(c, from, to) ==
  /\ ~failed
  /\ courier[c] = from
  /\ courier' = [courier EXCEPT ![c] = to]
  /\ UNCHANGED <<work, event, main, failed, controller>>
  /\ UNCHANGED listVars

\* The controller deals with c.
Serves(c, from, to) == controller = "serving" /\ Step(c, from, to)

\* The train is not known, not found on the track, moving, or there is no way:
\* the answer is 0, which the courier takes for an arrival.
RouteRefused(c) ==
  /\ Serves(c, "routing", "waiting")
  /\ status' = [status EXCEPT ![c] = 0]
  /\ UNCHANGED inbox

RouteAccepted(c) ==
  /\ Serves(c, "routing", "on_route")
  /\ UNCHANGED <<status, inbox>>

\* The train has stopped at the end of its route.
RouteEnded(c) ==
  /\ Serves(c, "on_route", "waiting")
  /\ status' = [status EXCEPT ![c] = 0]
  /\ UNCHANGED inbox

\* A later route finds no path, or the command line routes the train: reply_tid
\* is lost (see RouteEndsAnswered of TrainController).
RouteForgotten(c) ==
  /\ Serves(c, "on_route", "forgotten")
  /\ UNCHANGED <<status, inbox>>

\* The controller sets a train's speed: its task is reversing, and does not
\* receive.
ControllerWaits ==
  /\ ~failed /\ controller = "serving"
  /\ controller' = "waiting"
  /\ UNCHANGED <<inbox, work, main, failed>>
  /\ UNCHANGED <<listVars, courierVars>>

\* Until the task receives: unless it waits for the controller (see
\* NoCircularWait of TrainController).
ControllerGoesOn ==
  /\ ~failed /\ controller = "waiting"
  /\ controller' = "serving"
  /\ UNCHANGED <<inbox, work, main, failed>>
  /\ UNCHANGED <<listVars, courierVars>>

\* Four seconds later.
ReportEvent(c) ==
  /\ Step(c, "waiting", "reporting")
  /\ inbox' = Append(inbox, c)
  /\ UNCHANGED status

-----------------------------------------------------------------------------
(* The main task and the service.                                          *)

\* The cab command of the command line.
CabRequest ==
  /\ ~failed /\ main = "idle"
  /\ main'  = "asking"
  /\ inbox' = Append(inbox, Main)
  /\ UNCHANGED <<work, failed, controller>>
  /\ UNCHANGED <<listVars, courierVars>>

Received(sender) ==
  /\ ~failed /\ work = << >> /\ inbox # << >>
  /\ Head(inbox) = sender
  /\ inbox' = Tail(inbox)

\* Defect for RequestsAnswered: the courier is answered after the handler, which
\* sends it an order meanwhile.
ReportedUnanswered(c, e) ==
  /\ Received(c)
  /\ event[c] = e
  /\ UNCHANGED <<courier, event, status, main>>

\* A courier's report is answered before it is handled.
Reported(c, e) ==
  /\ Received(c)
  /\ event[c] = e
  /\ courier' = [courier EXCEPT ![c] = "receive"]
  /\ UNCHANGED <<event, status, main>>

\* CAB_REQUEST with no cab free.
RequestBusy ==
  /\ Received(Main)
  /\ free_cabs_list = << >>
  /\ work' = <<Answer>>
  /\ UNCHANGED <<main, failed, controller>>
  /\ UNCHANGED <<listVars, courierVars>>

\* dispatch_cabs: an order for every free cab, in the order of the list.
DispatchCabs ==
  [i \in DOMAIN free_cabs_list |-> CabRoute(free_cabs_list[i], "CAB_DISPATCH_ARRIVE")]

\* CAB_REQUEST: all the free cabs are sent to the customer.
Request ==
  /\ Received(Main)
  /\ free_cabs_list # << >>
  /\ dispatch' = [c \in Cabs |->
       IF Contains(free_cabs_list, c) THEN Head(free_dispatch_list) ELSE dispatch[c]]
  /\ work' = DispatchCabs \o <<Answer>>
  /\ free_dispatch_list' = Tail(free_dispatch_list)
  /\ free_cabs_list'     = << >>
  /\ UNCHANGED <<main, failed, controller>>
  /\ UNCHANGED courierVars

\* on_dispatch_arrive: the others are stopped, and c drives to the drop-off.
DispatchArrive(c) ==
  /\ Reported(c, "CAB_DISPATCH_ARRIVE")
  /\ status[c] >= 0
  /\ work' = [i \in DOMAIN cab_descriptors |->
                TrainControllerRouteStop(cab_descriptors[i], c)]
             \o <<CabRoute(c, "CAB_DISPATCH_COMPLETE")>>
  /\ UNCHANGED <<failed, controller>>
  /\ UNCHANGED listVars

\* Defect for CabsAccounted: the cab is free again, and keeps its dispatch.
DispatchFailedFreed(c) ==
  /\ Reported(c, "CAB_DISPATCH_ARRIVE")
  /\ status[c] < 0
  /\ free_cabs_list' = Append(free_cabs_list, c)
  /\ UNCHANGED <<work, failed, controller, free_dispatch_list, dispatch>>

\* on_dispatch_arrive of a cab that was stopped: it is left as it is.
DispatchFailed(c) ==
  /\ Reported(c, "CAB_DISPATCH_ARRIVE")
  /\ status[c] < 0
  /\ UNCHANGED <<work, failed, controller>>
  /\ UNCHANGED listVars

\* on_dispatch_complete.  A push on a full list is an AssertF that fails: the
\* list of cabs is longer than the cabs there are.
DispatchComplete(c) ==
  /\ Reported(c, "CAB_DISPATCH_COMPLETE")
  /\ free_cabs_list' = Append(free_cabs_list, c)
  /\ IF Len(free_dispatch_list) < NUM_REQUESTS
     THEN /\ free_dispatch_list' = Append(free_dispatch_list, dispatch[c])
          /\ dispatch' = [dispatch EXCEPT ![c] = NoDispatch]
          /\ UNCHANGED failed
     ELSE failed' = TRUE /\ UNCHANGED <<free_dispatch_list, dispatch>>
  /\ UNCHANGED <<work, controller>>

Service ==
  \/ SendRoute \/ SkipStop \/ SendStop \/ SendAnswer \/ RequestBusy \/ Request
  \/ \E c \in Cabs : DispatchArrive(c) \/ DispatchFailed(c) \/ DispatchComplete(c)

Next ==
  \/ CabRequest
  \/ Service
  \/ ControllerWaits \/ ControllerGoesOn
  \/ \E c \in Cabs :
       \/ RouteRefused(c) \/ RouteAccepted(c) \/ RouteEnded(c)
       \/ RouteForgotten(c) \/ ReportEvent(c)

\* The service goes on when it can.  Its message to the controller has a place in
\* a queue that is served in order: a controller that serves again and again comes
\* to it, though it waits in between.  Nothing is assumed of the controller
\* itself, the trains, the command line or even of Delay.
Fairness == WF_vars(Service) /\ SF_vars(SendStop)

Spec == Init /\ [][Next]_vars /\ Fairness

-----------------------------------------------------------------------------

Orders == {CabRoute(c, e) : c \in Cabs, e \in {"CAB_DISPATCH_ARRIVE", "CAB_DISPATCH_COMPLETE"}}
Stops  == {TrainControllerRouteStop(b, c) : b, c \in Cabs}

\* The types; of what a handler has yet to do, the Reply comes last.
TypeOK ==
  /\ inbox \in Seq(Senders) /\ IsInjective(inbox)
  /\ work \in Seq(Orders \cup Stops \cup {Answer})
  /\ Contains(inbox, Main) => main = "asking"
  /\ free_cabs_list \in Seq(Cabs)
  /\ free_dispatch_list \in Seq(Dispatches) /\ Len(free_dispatch_list) <= NUM_REQUESTS
  /\ dispatch \in [Cabs -> Dispatches \cup {NoDispatch}]
  /\ courier \in [Cabs -> {"receive", "routing", "on_route", "forgotten", "waiting", "reporting"}]
  /\ event \in [Cabs -> {"CAB_DISPATCH_ARRIVE", "CAB_DISPATCH_COMPLETE"}]
  /\ status \in [Cabs -> {0, -1}]
  /\ main \in {"idle", "asking"}
  /\ controller \in {"serving", "waiting"}
  /\ failed \in BOOLEAN

\* A free cab is on the list once, its courier listens and it has no dispatch;
\* a cab that is not free has one, so neither a report nor dispatch_cabs ever
\* follows a null pointer.  No dispatch gets lost, and one is left for every
\* cab that may be sent (cab_service.c:153-215, 249-256).
CabsAccounted ==
  ~failed =>
    /\ IsInjective(free_cabs_list)
    /\ \A c \in Cabs :
         /\ Contains(free_cabs_list, c) <=> dispatch[c] = NoDispatch
         /\ Contains(free_cabs_list, c) => courier[c] = "receive"
         /\ Contains(inbox, c) <=> courier[c] = "reporting"
    /\ Range(free_dispatch_list) \cup Range(dispatch) \cup {NoDispatch}
         = Dispatches \cup {NoDispatch}
    /\ free_cabs_list # << >> => free_dispatch_list # << >>

\* Who asks for a cab is answered, unless the train controller waits for ever: the
\* service never waits for a courier that is on a route or Sends to the service,
\* and for the controller only when that has a customer's other cabs to stop
\* (cab_service.c:70-103, 142-151, 182-186, 273-288).
RequestsAnswered ==
  []<>(controller = "serving") => (main = "asking" ~> main = "idle" \/ failed)

\* "could not add dispatch node back to free list" (cab_service.c:157): there is
\* always room, as a dispatch is given back once, by the cab that served the
\* customer.
DispatchFreedOnce == ~failed
=============================================================================
