---------------------------- MODULE SensorServer ----------------------------
(***************************************************************************)
(* The sensor server, its worker and couriers, and what the worker's       *)
(* readings go through: the train command server, UART1 both ways and the  *)
(* train controller box (tasks/sensor_server.c, tasks/train_command.c; the *)
(* box is external).                                                       *)
(*                                                                         *)
(* The answer to a reading is a row of bytes without a frame: the worker   *)
(* takes the first byte it gets for the first module.  A byte that arrives *)
(* while the receive notifier is not in AwaitEvent is lost; a byte that    *)
(* arrives while two tasks wait in Getc goes to both.  Of the bytes on     *)
(* UART1 only the meaning is kept: a command, or one sensor and its state  *)
(* (eight sensors in the code).                                            *)
(***************************************************************************)
EXTENDS Uart1, FiniteSets

CONSTANTS
  Worker, Helper,        \* the Getters: the sensor worker and its getc helper
  NumSensors,            \* sensors, one for each byte of an answer: 80 and 10
  Couriers,              \* the couriers of the main task and train controller
  MAX_EVENT_QUEUE_SIZE   \* of the ring buffer of listeners, 5 in the code

Sensors     == 1 .. NumSensors
FirstSensor == 1    \* its entry is sensor_table[-1]: memory of something else

ASSUME SensorsAssumption == NumSensors \in Nat \ {0, 1}
ASSUME GettersAssumption ==
  Getters = {Worker, Helper} /\ Worker # Helper /\ Getters \cap Couriers = {}
ASSUME QueueAssumption   ==
  /\ IsFiniteSet(Couriers)
  /\ MAX_EVENT_QUEUE_SIZE \in Nat /\ MAX_EVENT_QUEUE_SIZE > Cardinality(Couriers)

TRAIN_READ_SENSORS  == 8
TRAIN_RESET_SENSORS == 9

NUM_SENSOR_MODULES == 5

NoRequest == [command |-> 0, data1 |-> 0]

VARIABLES
  latched,        \* sensors the box remembers since it was last asked
  reset_mode,     \* the box forgets what it has told
  request,        \* the worker's message to the train command server
  pausing,        \* the train command server is in Delay
  worker,         \* "drain" | "ask" | "reset" | "read" | "getc" | "report"
  bytes,          \* module_bytes, as far as the worker has filled them
  inbox,          \* the sensor server's send queue
  sensor_table,   \* "unknown" (0xff) | "off" | "on"
  event_list,     \* the couriers the server will answer
  courier,        \* "asking" | "listening" | "away"
  report,         \* what a courier that is away has to tell
  news,           \* history: sensors tripped between the last two answers
  tripped,        \* history: sensors tripped since the last answer
  early           \* history: a byte came before the tasks had dealt with the
                  \* command or the byte before it

trackVars   == <<latched, reset_mode, news, tripped>>
uartVars    == <<txVars, rxVars>>
serverVars  == <<sensor_table, event_list, courier, report>>
workerVars  == <<worker, bytes, early>>
vars        == <<uartVars, trackVars, workerVars, request, pausing, inbox, serverVars>>

\* Answer(on): the bytes for the sensors, in order.
Answer(on) == [i \in 1 .. NumSensors |-> [sensor |-> i, on |-> i \in on]]

\* The worker waits in Receive for its helpers' messages, the getc helper in
\* Getc; what is left of an answer nobody waits for any more is on the line.
Init ==
  /\ latched \in SUBSET Sensors
  /\ reset_mode \in BOOLEAN
  /\ UartInit({Helper})
  /\ \E on \in SUBSET Sensors, i \in 1 .. NumSensors + 1 :
       line = SubSeq(Answer(on), i, NumSensors)
  /\ request = NoRequest /\ pausing = FALSE
  /\ worker = "drain"
  /\ bytes = << >>
  /\ inbox = << >>
  /\ sensor_table = [s \in Sensors |-> "unknown"]
  /\ event_list = << >>
  /\ courier = [c \in Couriers |-> "away"]   \* not listening yet
  /\ report  = [c \in Couriers |-> {}]
  /\ news = {} /\ tripped = {} /\ early = FALSE

-----------------------------------------------------------------------------
(* The track and the box, external: what train_command.c and               *)
(* sensor_server.c expect of them.                                         *)

\* A train runs onto a sensor.
Trip(s) ==
  /\ latched' = latched \cup {s}
  /\ tripped' = tripped \cup ({s} \ {FirstSensor})
  /\ UNCHANGED <<reset_mode, news>>
  /\ UNCHANGED <<uartVars, workerVars, request, pausing, inbox, serverVars>>

\* The box obeys one command: 192 makes it forget what it has told from then
\* on, but for the sensors a train is still on; 0x80 + n makes it tell the
\* sensors of n modules.
Obey ==
  /\ box = "busy"
  /\ box' = "done" /\ box_byte' = NoByte
  /\ reset_mode' = (reset_mode \/ box_byte = TRAIN_RESET_SENSORS)
  /\ IF box_byte = TRAIN_READ_SENSORS
     THEN /\ line' = line \o Answer(latched)
          /\ IF reset_mode THEN \E still \in SUBSET latched : latched' = still
                           ELSE UNCHANGED latched
          /\ news'    = tripped
          /\ tripped' = {}
     ELSE UNCHANGED <<line, latched, news, tripped>>
  /\ UNCHANGED <<buffer, tx_notifier, tien, msien, mis, uart1_tx_flag,
                 uart1_cts_flag, wire, overrun, raced, rx_notifier, rx_byte, getc>>
  /\ UNCHANGED <<workerVars, request, pausing, inbox, serverVars>>

-----------------------------------------------------------------------------
(* UART1: its own steps, and a byte that arrives.                          *)

Transmit ==
  /\ \/ TxMessage
     \/ \E late \in BOOLEAN : HandleTransmit(late)
  /\ UNCHANGED <<trackVars, workerVars, request, pausing, inbox, serverVars>>

Wire ==
  /\ Transmitted \/ ClearToSend
  /\ UNCHANGED <<trackVars, workerVars, request, pausing, inbox, serverVars>>

GetcReceived ==
  /\ \E t \in Getters : GetcMessage(t)
  /\ UNCHANGED <<trackVars, workerVars, request, pausing, inbox, serverVars>>

ByteArrives ==
  /\ HandleReceive
  /\ early' = \/ early
              \/ /\ worker # "drain"
                 /\ (rx_notifier = "sent" \/ getc[Worker] # "waiting")
  /\ UNCHANGED <<worker, bytes, request, pausing, inbox>>
  /\ UNCHANGED <<trackVars, serverVars>>

\* The worker stores the byte, and calls Getc for the next, or Time and Send when
\* it has them all.  The helper Sends it to the worker, which replies during the
\* drain, and never again afterwards.
ByteReceived ==
  LET full == Worker \in Getting /\ Len(bytes) + 1 = NumSensors
  IN  /\ RxMessage((IF full THEN {} ELSE {Worker})
                          \cup (IF worker = "drain" THEN {Helper} ELSE {}))
      /\ bytes'  = IF Worker \in Getting THEN Append(bytes, rx_byte) ELSE bytes
      /\ worker' = IF full THEN "report" ELSE worker
      /\ inbox'  = IF full THEN Append(inbox, Worker) ELSE inbox
      /\ UNCHANGED <<early, request, pausing>>
      /\ UNCHANGED <<trackVars, serverVars>>

-----------------------------------------------------------------------------
(* The worker and the train command server.                                *)

\* Defect for ReportsAreTrips: the worker does not wait for the line to fall
\* silent.
DrainedAtOnce ==
  /\ worker = "drain"
  /\ worker' = "ask"
  /\ UNCHANGED <<bytes, early, request, pausing, inbox>>
  /\ UNCHANGED <<uartVars, trackVars, serverVars>>

\* The clock helper's message after three seconds: by then the bytes of a
\* forgotten answer, 4 ms each, have passed.
Drained ==
  /\ worker = "drain"
  /\ line = << >> /\ rx_notifier # "sent" /\ getc[Helper] = "waiting"
  /\ worker' = "ask"
  /\ UNCHANGED <<bytes, early, request, pausing, inbox>>
  /\ UNCHANGED <<uartVars, trackVars, serverVars>>

\* TrainCommandResetSensors: data1 is not initialised, any value may be sent.
ResetSensors ==
  /\ worker = "ask"
  /\ worker' = "reset"
  /\ \E data1 \in {0, NUM_SENSOR_MODULES} :
       request' = [command |-> TRAIN_RESET_SENSORS, data1 |-> data1]
  /\ UNCHANGED <<bytes, early, pausing, inbox>>
  /\ UNCHANGED <<uartVars, trackVars, serverVars>>

\* What goes out on the line; the rest is answered with -1.
Accepted(msg) ==
  msg.command \in {TRAIN_READ_SENSORS, TRAIN_RESET_SENSORS} => msg.data1 \in 1 .. 31

\* One request: its byte goes into the transmit buffer, then Delay.  What other
\* tasks ask of the server only makes the worker wait longer.
TrainCommand ==
  /\ ~pausing /\ request # NoRequest
  /\ IF Accepted(request)
     THEN PutcMessage(request.command)
     ELSE UNCHANGED txVars
  /\ pausing' = TRUE
  /\ UNCHANGED <<rxVars, trackVars, workerVars, request, inbox, serverVars>>

\* The tick is over and the reply, which nobody looks at, wakes the client: the
\* worker asks for the sensors, or begins to read the answer.
PauseOver ==
  /\ pausing
  /\ pausing' = FALSE
  /\ IF worker = "reset"
     THEN /\ worker' = "read"
          /\ request' = [command |-> TRAIN_READ_SENSORS, data1 |-> NUM_SENSOR_MODULES]
          /\ UNCHANGED <<getc, bytes>>
     ELSE /\ worker' = "getc"
          /\ request' = NoRequest
          /\ getc'  = [getc EXCEPT ![Worker] = "sent"]
          /\ bytes' = << >>
  /\ UNCHANGED <<line, rx_notifier, rx_byte, early, inbox>>
  /\ UNCHANGED <<txVars, trackVars, serverVars>>

-----------------------------------------------------------------------------
(* The sensor server and its couriers.                                     *)

Received(sender) ==
  /\ inbox # << >>
  /\ Head(inbox) = sender
  /\ inbox' = Tail(inbox)

\* Defect for ReportsAreTrips: an entry that is not known yet counts as off.
TurnedOnUnknown(s) == sensor_table[s] # "on" /\ bytes[s].on

\* The entry of the table says that the sensor was off.
TurnedOn(s) == sensor_table[s] = "off" /\ bytes[s].on

\* Every courier on the list is answered.
Tell(on) ==
  /\ courier' = [c \in Couriers |->
                   IF courier[c] = "listening" THEN "away" ELSE courier[c]]
  /\ report'  = [c \in Couriers |->
                   IF courier[c] = "listening" THEN on ELSE report[c]]

TellListeners(on) == Tell(on) /\ event_list' = << >>

\* The worker may go on; the table takes over what it has read, and if a sensor
\* has turned on all listeners are told.  Whether the first sensor counts as
\* off before is up to whatever lies below the table.
WorkerMessage ==
  /\ Received(Worker)
  /\ worker' = "ask"
  /\ bytes'  = << >>
  /\ sensor_table' = [s \in Sensors |-> IF s = FirstSensor THEN "unknown"
                                        ELSE IF bytes[s].on THEN "on" ELSE "off"]
  /\ \E first \in SUBSET {s \in {FirstSensor} : bytes[s].on} :
       LET on == first \cup {s \in Sensors \ {FirstSensor} : TurnedOn(s)}
       IN  IF on = {}
           THEN UNCHANGED <<event_list, courier, report>>
           ELSE TellListeners(on)
  /\ UNCHANGED <<early, request, pausing>>
  /\ UNCHANGED <<uartVars, trackVars>>

\* A courier joins the listeners; the AssertF on a full list cannot fail, see
\* TypeOK.
CourierMessage(c) ==
  /\ Received(c)
  /\ event_list' = Append(event_list, c)
  /\ courier'    = [courier EXCEPT ![c] = "listening"]
  /\ UNCHANGED <<sensor_table, report, workerVars, request, pausing>>
  /\ UNCHANGED <<uartVars, trackVars>>

\* The courier's parent has received what it reports and replied: it asks for
\* the next, and has missed what was reported since.
CourierReturns(c) ==
  /\ courier[c] = "away"
  /\ courier' = [courier EXCEPT ![c] = "asking"]
  /\ report'  = [report EXCEPT ![c] = {}]
  /\ inbox'   = Append(inbox, c)
  /\ UNCHANGED <<sensor_table, event_list, workerVars, request, pausing>>
  /\ UNCHANGED <<uartVars, trackVars>>

-----------------------------------------------------------------------------

Asking == Drained \/ ResetSensors

Commanding == TrainCommand \/ PauseOver

Server ==
  WorkerMessage \/ \E c \in Couriers : CourierMessage(c)

Next ==
  \/ \E s \in Sensors : Trip(s)
  \/ Obey \/ Wire
  \/ Transmit \/ GetcReceived \/ ByteArrives \/ ByteReceived
  \/ Asking \/ Commanding
  \/ Server
  \/ \E c \in Couriers : CourierReturns(c)

Spec == Init /\ [][Next]_vars

\* The servers and the worker have priorities 7 to 9 and none runs for long; the
\* box obeys and bytes arrive. Trains and couriers' parents are free.
Fairness ==
  /\ WF_vars(Obey \/ Wire) /\ WF_vars(ByteArrives)
  /\ WF_vars(Transmit) /\ WF_vars(GetcReceived) /\ WF_vars(ByteReceived)
  /\ WF_vars(Asking) /\ WF_vars(Commanding) /\ WF_vars(Server)

FairSpec == Spec /\ Fairness

-----------------------------------------------------------------------------
(* Properties.                                                             *)

\* Types of the variables; a courier is in one place, and the list of listeners
\* has room for every courier there is.
TypeOK ==
  /\ latched \subseteq Sensors
  /\ UartTypeOK
  /\ reset_mode \in BOOLEAN /\ pausing \in BOOLEAN
  /\ worker \in {"drain", "ask", "reset", "read", "getc", "report"}
  /\ bytes \in Seq([sensor : Sensors, on : BOOLEAN]) /\ Len(bytes) <= NumSensors
  /\ sensor_table \in [Sensors -> {"unknown", "off", "on"}]
  /\ courier \in [Couriers -> {"asking", "listening", "away"}]
  /\ report \in [Couriers -> SUBSET Sensors]
  /\ event_list \in Seq(Couriers) /\ Len(event_list) < MAX_EVENT_QUEUE_SIZE

\* The couriers that listen are told of exactly the sensors that a train tripped
\* between the last two answers of the box, and that the server knows to have
\* been off before: nothing that was left on the line, latched from before or
\* read at the wrong place is taken for a trip, and no trip that was read is kept
\* back.  The first sensor, whose entry lies outside the table, is left out.
ReportsAreTrips ==
  [][ inbox # << >> /\ Head(inbox) = Worker /\ inbox' = Tail(inbox) =>
        LET fresh == {s \in news \ {FirstSensor} : sensor_table[s] = "off"}
        IN  \A c \in Couriers : courier[c] = "listening" =>
              IF courier'[c] = "away" THEN report'[c] \ {FirstSensor} = fresh
                                      ELSE fresh = {} ]_vars

\* As long as no byte of an answer comes before the worker is in Getc and the
\* notifier has handed over the byte before it, and no edge of CTS leaves a flag
\* behind, the worker goes on reading: every command it waits for goes out, the
\* helper that is left in Getc after the drain does not stop it.  It has no
\* timeout: one lost byte and it waits for ever.
ReadingsGoOn == [](~early /\ ~raced) => []<>(worker = "report")

=============================================================================
