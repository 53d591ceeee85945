------------------------- MODULE SensorServerProofs -------------------------
(* Proofs about SensorServer, for any number of sensors and couriers and    *)
(* any size of the transmit buffer: the flow control of UART1, the types,   *)
(* that the list of listeners is never full, and that what the listeners   *)
(* are told are the sensors that trains have tripped.                      *)
EXTENDS SensorServer, FiniteSetTheorems, WellFoundedInduction, TLAPS

Byte == [sensor : Sensors, on : BOOLEAN]

Requests == [command : {0, TRAIN_READ_SENSORS, TRAIN_RESET_SENSORS}, data1 : Nat]

\* The transmit notifier waits for the interrupts, or has a message in the
\* queue, only while there is a byte to write, and then the modem interrupt is
\* enabled.
NotifierOK ==
  /\ buffer \in Seq({0, TRAIN_READ_SENSORS, TRAIN_RESET_SENSORS})
  /\ Len(buffer) <= Capacity
  /\ tx_notifier \in {"held", "awaiting", "sent"}
  /\ tx_notifier # "held" => buffer # << >> /\ msien

\* Unless CTS has raced the handler: a byte is about to be written only while the
\* line is idle, the box ready and no edge of CTS unseen, and from then until the
\* box is ready again the flag that lets the next through cannot be set.
FlowControl ==
  raced \/ /\ ~overrun
           /\ tx_notifier = "sent" =>
                wire = NoByte /\ box = "ready" /\ ~mis /\ ~uart1_cts_flag
           /\ wire # NoByte =>
                tx_notifier # "sent" /\ box = "ready" /\ ~mis /\ ~uart1_cts_flag
           /\ box # "ready" =>
                tx_notifier # "sent" /\ wire = NoByte /\ ~uart1_cts_flag

\* What UART1's transmitter and its notifier, and nothing else, depend on.
TxOK ==
  /\ tien \in BOOLEAN /\ msien \in BOOLEAN /\ mis \in BOOLEAN
  /\ uart1_tx_flag \in BOOLEAN /\ uart1_cts_flag \in BOOLEAN
  /\ overrun \in BOOLEAN /\ raced \in BOOLEAN
  /\ box \in {"ready", "busy", "done"}
  /\ NotifierOK
  /\ FlowControl

\* The bytes on their way to the worker, which asks for no more than it has room
\* for.
RxOK ==
  /\ line \in Seq(Byte)
  /\ rx_notifier \in {"held", "awaiting", "sent"}
  /\ rx_notifier = "sent" => rx_byte \in Byte
  /\ getc \in [Getters -> {"no", "sent", "waiting"}]
  /\ bytes \in Seq(Byte) /\ Len(bytes) <= NumSensors
  /\ getc[Worker] # "no" => Len(bytes) < NumSensors

\* The worker, the train command server and the box.
WorkerOK ==
  /\ latched \subseteq Sensors
  /\ reset_mode \in BOOLEAN /\ pausing \in BOOLEAN
  /\ worker \in {"drain", "ask", "reset", "read", "getc", "report"}
  /\ request \in Requests

\* A courier has one message in the queue while it asks, one place in the list
\* while it listens, and none while it is away.
CouriersOK ==
  /\ inbox \in Seq(Couriers \cup {Worker})
  /\ event_list \in Seq(Couriers)
  /\ sensor_table \in [Sensors -> {"unknown", "off", "on"}]
  /\ courier \in [Couriers -> {"asking", "listening", "away"}]
  /\ report \in [Couriers -> SUBSET Sensors]
  /\ \A i \in DOMAIN inbox : inbox[i] \in Couriers => courier[inbox[i]] = "asking"
  /\ \A i, j \in DOMAIN inbox : inbox[i] \in Couriers /\ inbox[i] = inbox[j] => i = j
  /\ \A i \in DOMAIN event_list : courier[event_list[i]] = "listening"
  /\ \A i, j \in DOMAIN event_list : event_list[i] = event_list[j] => i = j

IInv == TxOK /\ RxOK /\ WorkerOK /\ CouriersOK

-----------------------------------------------------------------------------
(* The pieces.                                                             *)

LEMMA SizesOK ==
  /\ NumSensors \in Nat \ {0, 1} /\ FirstSensor \in Sensors
  /\ Worker \in Getters /\ Helper \in Getters /\ Worker # Helper
  /\ Worker \notin Couriers
BY SensorsAssumption, GettersAssumption DEF Sensors, FirstSensor

\* A list that holds each courier once is not full.
LEMMA ListFits ==
  ASSUME NEW list \in Seq(Couriers),
         \A i, j \in DOMAIN list : list[i] = list[j] => i = j
  PROVE  Len(list) < MAX_EVENT_QUEUE_SIZE
<1> DEFINE places == 1 .. Len(list)
<1>1. Len(list) \in Nat /\ DOMAIN list = places /\ list \in [places -> Couriers]
  OBVIOUS
<1>2. list \in Injection(places, Couriers)
  BY <1>1 DEF Injection, IsInjective
<1>3. Cardinality(places) <= Cardinality(Couriers)
  BY <1>2, FS_Injection, QueueAssumption
<1>4. Cardinality(places) = Len(list)
  BY <1>1, FS_Interval
<1>5. Cardinality(Couriers) \in Nat
  BY FS_CardinalityType, QueueAssumption
<1> QED
  BY <1>1, <1>3, <1>4, <1>5, QueueAssumption

\* The parts together are at least the types.
LEMMA Typed == IInv => TypeOK
<1> SUFFICES ASSUME IInv PROVE TypeOK
  OBVIOUS
<1>1. UartTypeOK
  BY Zenon DEF IInv, TxOK, RxOK, NotifierOK, UartTypeOK
<1>2. Len(event_list) < MAX_EVENT_QUEUE_SIZE
  BY ListFits DEF IInv, CouriersOK
<1> QED
  BY <1>1, <1>2, Zenon DEF IInv, RxOK, WorkerOK, CouriersOK, TypeOK, Byte

\* What the box answers are bytes.
LEMMA AnswerOK ==
  ASSUME NEW on
  PROVE  Answer(on) \in Seq(Byte) /\ Len(Answer(on)) = NumSensors
<1>1. ASSUME NEW i \in 1 .. NumSensors PROVE [sensor |-> i, on |-> i \in on] \in Byte
  BY DEF Byte, Sensors
<1>2. Answer(on) \in [1 .. NumSensors -> Byte]
  BY <1>1, Zenon DEF Answer
<1> QED
  BY <1>2, SizesOK

\* The first message is taken off the queue; the others move up.
LEMMA Taken ==
  ASSUME CouriersOK, NEW sender, Received(sender)
  PROVE  /\ inbox' \in Seq(Couriers \cup {Worker})
         /\ 1 \in DOMAIN inbox /\ inbox[1] = sender
         /\ \A i \in DOMAIN inbox' :
              i + 1 \in DOMAIN inbox /\ inbox'[i] = inbox[i + 1] /\ i \in Nat \ {0}
BY DEF Received, CouriersOK

-----------------------------------------------------------------------------
(* What a step leaves alone stays as it should be.                         *)

LEMMA TxUnchanged == TxOK /\ UNCHANGED txVars => TxOK'
<1> SUFFICES ASSUME TxOK, UNCHANGED txVars PROVE TxOK'
  OBVIOUS
<1>1. /\ UNCHANGED <<buffer, tx_notifier, tien, msien, mis, uart1_tx_flag>>
      /\ UNCHANGED <<uart1_cts_flag, wire, box, overrun, raced>>
  BY DEF txVars
<1>2. NotifierOK'
  BY <1>1, Zenon DEF TxOK, NotifierOK
<1>3. FlowControl'
  BY <1>1, Zenon DEF TxOK, FlowControl
<1> QED
  BY <1>1, <1>2, <1>3, Zenon DEF TxOK

LEMMA RxUnchanged == RxOK /\ UNCHANGED <<rxVars, bytes>> => RxOK'
BY Zenon DEF rxVars, RxOK

LEMMA WorkerUnchanged ==
  WorkerOK /\ UNCHANGED <<latched, reset_mode, pausing, worker, request>> => WorkerOK'
BY Zenon DEF WorkerOK

LEMMA CouriersUnchanged == CouriersOK /\ UNCHANGED <<inbox, serverVars>> => CouriersOK'
BY Zenon DEF serverVars, CouriersOK

-----------------------------------------------------------------------------
(* UART1's transmitter.                                                    *)

LEMMA PutcMessageOK ==
  ASSUME TxOK, NEW byte \in {0, TRAIN_READ_SENSORS, TRAIN_RESET_SENSORS},
         PutcMessage(byte)
  PROVE  TxOK'
<1>1. NotifierOK'
  <2>1. /\ buffer' \in Seq({0, TRAIN_READ_SENSORS, TRAIN_RESET_SENSORS})
        /\ Len(buffer') <= Capacity /\ buffer' # << >>
    BY CapacityAssumption DEF TxOK, NotifierOK, PutcMessage
  <2>2. tx_notifier' \in {"awaiting", "sent"} /\ msien'
    <3>1. CASE tx_notifier = "held"
      BY <3>1, Zenon DEF PutcMessage, AwaitTransmit
    <3>2. CASE tx_notifier # "held"
      BY <3>2, Zenon DEF TxOK, NotifierOK, PutcMessage
    <3> QED
      BY <3>1, <3>2
  <2> QED
    BY <2>1, <2>2, Zenon DEF NotifierOK
<1>2. /\ UNCHANGED <<mis, uart1_tx_flag, uart1_cts_flag, wire, box, overrun, raced>>
      /\ tx_notifier' = "sent" => tx_notifier = "sent"
      /\ tien' \in BOOLEAN /\ msien' \in BOOLEAN
  BY Zenon DEF TxOK, PutcMessage, AwaitTransmit
<1>3. FlowControl'
  BY <1>2, Zenon DEF TxOK, FlowControl
<1> QED
  BY <1>1, <1>2, <1>3, Zenon DEF TxOK

LEMMA TxMessageOK ==
  ASSUME TxOK, TxMessage
  PROVE  TxOK'
<1>1. NotifierOK'
  <2>1. /\ buffer # << >> /\ buffer' = Tail(buffer) /\ msien
        /\ buffer \in Seq({0, TRAIN_READ_SENSORS, TRAIN_RESET_SENSORS})
        /\ Len(buffer) <= Capacity
    BY Zenon DEF TxOK, NotifierOK, TxMessage
  <2>2. /\ buffer' \in Seq({0, TRAIN_READ_SENSORS, TRAIN_RESET_SENSORS})
        /\ Len(buffer') <= Capacity
    BY <2>1, CapacityAssumption
  <2>3. tx_notifier' \in {"held", "awaiting"} /\ (tx_notifier' # "held" => buffer' # << >> /\ msien')
    BY Zenon DEF TxMessage, AwaitTransmit
  <2> QED
    BY <2>2, <2>3, Zenon DEF NotifierOK
<1>2. /\ UNCHANGED <<mis, uart1_tx_flag, uart1_cts_flag, box, raced>>
      /\ tx_notifier = "sent" /\ tx_notifier' # "sent"
      /\ tien' \in BOOLEAN /\ msien' \in BOOLEAN
  BY Zenon DEF TxOK, TxMessage, AwaitTransmit
<1>3. overrun' = (overrun \/ wire # NoByte \/ box # "ready")
  BY Zenon DEF TxMessage
<1>4. overrun' \in BOOLEAN
  BY <1>3, Zenon
<1>5. FlowControl'
  BY <1>2, <1>3, Zenon DEF TxOK, FlowControl
<1> QED
  BY <1>1, <1>2, <1>4, <1>5, Zenon DEF TxOK

LEMMA TransmittedOK ==
  ASSUME TxOK, Transmitted
  PROVE  TxOK'
<1>1. /\ UNCHANGED <<buffer, tx_notifier, tien, msien, uart1_tx_flag, uart1_cts_flag,
                     overrun, raced>>
      /\ wire # NoByte /\ wire' = NoByte /\ box' = "busy" /\ mis' = TRUE
  BY Zenon DEF Transmitted
<1>2. NotifierOK'
  BY <1>1, Zenon DEF TxOK, NotifierOK
<1>3. FlowControl'
  BY <1>1, Zenon DEF TxOK, FlowControl
<1> QED
  BY <1>1, <1>2, <1>3, Zenon DEF TxOK

\* Obey, for the transmitter, and ClearToSend.
LEMMA BoxOK ==
  ASSUME TxOK, box # "ready",
         \/ box' = "done" /\ mis' = mis
         \/ box' = "ready" /\ mis' = TRUE,
         UNCHANGED <<buffer, tx_notifier, tien, msien, uart1_tx_flag, uart1_cts_flag,
                     wire, overrun, raced>>
  PROVE  TxOK'
<1>1. NotifierOK'
  BY Zenon DEF TxOK, NotifierOK
<1>2. FlowControl'
  BY Zenon DEF TxOK, FlowControl
<1> QED
  BY <1>1, <1>2, Zenon DEF TxOK

LEMMA HandleTransmitOK ==
  ASSUME TxOK, NEW late \in BOOLEAN, HandleTransmit(late)
  PROVE  TxOK'
<1> DEFINE modem  == msien /\ mis
           tx     == uart1_tx_flag \/ tien
           cts    == CtsFlag(modem, late)
           notify == tx /\ cts
<1>1. /\ tien' = FALSE
      /\ late => modem /\ box = "done"
      /\ mis' = ((mis /\ ~modem) \/ late)
      /\ box' = IF late THEN "ready" ELSE box
      /\ raced' = (raced \/ late)
      /\ uart1_tx_flag'  = (tx /\ ~notify)
      /\ uart1_cts_flag' = (cts /\ ~notify)
      /\ tx_notifier' = IF notify /\ tx_notifier = "awaiting" THEN "sent" ELSE tx_notifier
      /\ UNCHANGED <<buffer, msien, wire, overrun>>
  BY Zenon DEF HandleTransmit
<1>2. cts <=> uart1_cts_flag \/ (modem /\ (box = "ready" \/ late))
  BY Zenon DEF CtsFlag
<1>3. NotifierOK'
  <2>1. /\ tx_notifier' \in {"held", "awaiting", "sent"}
        /\ tx_notifier' # "held" => tx_notifier # "held"
    BY <1>1, Zenon DEF TxOK, NotifierOK
  <2> QED
    BY <1>1, <2>1, Zenon DEF TxOK, NotifierOK
<1>4. FlowControl'
  <2>1. CASE raced \/ late
    BY <1>1, <2>1, Zenon DEF FlowControl
  <2>2. CASE ~raced /\ ~late
    <3>1. /\ mis' <=> mis /\ ~msien
          /\ box' = box
          /\ ~raced
          /\ uart1_cts_flag' => uart1_cts_flag \/ (msien /\ mis /\ box = "ready")
      BY <1>1, <1>2, <2>2, Zenon
    <3>2. CASE notify /\ tx_notifier = "awaiting"
      <4>1. uart1_cts_flag' = FALSE
        BY <1>1, <3>2, Zenon
      <4>2. msien /\ ~mis'
        BY <3>1, <3>2, Zenon DEF TxOK, NotifierOK
      <4>3. wire = NoByte /\ box = "ready"
        BY <1>2, <2>2, <3>2, Zenon DEF TxOK, FlowControl
      <4> QED
        BY <1>1, <2>2, <3>1, <4>1, <4>2, <4>3, Zenon DEF TxOK, FlowControl
    <3>3. CASE ~(notify /\ tx_notifier = "awaiting")
      <4>1. tx_notifier' = tx_notifier
        BY <1>1, <3>3, Zenon
      <4> QED
        BY <1>1, <2>2, <3>1, <4>1, Zenon DEF TxOK, FlowControl
    <3> QED
      BY <3>2, <3>3
  <2> QED
    BY <2>1, <2>2
<1>5. /\ mis' \in BOOLEAN /\ raced' \in BOOLEAN
      /\ uart1_tx_flag' \in BOOLEAN /\ uart1_cts_flag' \in BOOLEAN
      /\ tien' \in BOOLEAN /\ msien' \in BOOLEAN /\ overrun' \in BOOLEAN
      /\ box' \in {"ready", "busy", "done"}
  BY <1>1, Zenon DEF TxOK
<1> QED
  BY <1>3, <1>4, <1>5, Zenon DEF TxOK

-----------------------------------------------------------------------------
(* UART1's receiver.                                                       *)

\* A byte arrives; the worker and its buffer are not involved.
LEMMA HandleReceiveOK ==
  ASSUME RxOK, HandleReceive, UNCHANGED bytes
  PROVE  RxOK'
<1>1. line # << >> /\ line' = Tail(line) /\ line \in Seq(Byte)
  BY DEF RxOK, HandleReceive
<1>2. line' \in Seq(Byte) /\ Head(line) \in Byte
  BY <1>1
<1>3. /\ rx_notifier' \in {"held", "awaiting", "sent"}
      /\ rx_notifier' = "sent" => rx_byte' \in Byte
  BY <1>2, Zenon DEF RxOK, HandleReceive
<1>4. UNCHANGED getc
  BY DEF HandleReceive
<1> QED
  BY <1>2, <1>3, <1>4, Zenon DEF RxOK

LEMMA GetcMessageOK ==
  ASSUME RxOK, NEW t \in Getters, GetcMessage(t), UNCHANGED bytes
  PROVE  RxOK'
<1>1. /\ getc' \in [Getters -> {"no", "sent", "waiting"}]
      /\ getc'[Worker] # "no" => getc[Worker] # "no"
  BY SizesOK DEF RxOK, GetcMessage
<1>2. /\ rx_notifier' \in {"held", "awaiting", "sent"}
      /\ rx_notifier' = "sent" => rx_notifier = "sent"
      /\ UNCHANGED <<line, rx_byte>>
  BY Zenon DEF RxOK, GetcMessage
<1> QED
  BY <1>1, <1>2, Zenon DEF RxOK

\* The worker stores the byte, and calls Getc again only while it has room.
LEMMA ByteReceivedOK ==
  ASSUME RxOK, ByteReceived
  PROVE  RxOK'
<1> DEFINE full  == Worker \in Getting /\ Len(bytes) + 1 = NumSensors
           again == (IF full THEN {} ELSE {Worker})
                       \cup (IF worker = "drain" THEN {Helper} ELSE {})
<1>1. /\ rx_notifier = "sent" /\ rx_notifier' = "held" /\ line' = line
      /\ getc' = [t \in Getters |->
                    IF t \notin Getting THEN getc[t] ELSE IF t \in again THEN "sent" ELSE "no"]
      /\ bytes' = IF Worker \in Getting THEN Append(bytes, rx_byte) ELSE bytes
  BY DEF ByteReceived, RxMessage
<1>2. getc' \in [Getters -> {"no", "sent", "waiting"}]
  BY <1>1 DEF RxOK
<1>3. bytes \in Seq(Byte) /\ Len(bytes) \in Nat /\ Len(bytes) <= NumSensors /\ rx_byte \in Byte
  BY <1>1 DEF RxOK
<1>4. CASE Worker \in Getting
  <2>1. bytes' = Append(bytes, rx_byte) /\ Len(bytes) < NumSensors
    BY <1>1, <1>4, SizesOK DEF Getting, RxOK
  <2>2. bytes' \in Seq(Byte) /\ Len(bytes') = Len(bytes) + 1
    BY <1>3, <2>1
  <2>3. Len(bytes') <= NumSensors
    BY <1>3, <2>1, <2>2, SizesOK
  <2>4. getc'[Worker] # "no" => Len(bytes') < NumSensors
    <3>1. full => getc'[Worker] = "no"
      BY <1>1, <1>4, SizesOK, Zenon
    <3> QED
      BY <1>3, <1>4, <2>1, <2>2, <3>1, SizesOK
  <2> QED
    BY <1>1, <1>2, <2>2, <2>3, <2>4, Zenon DEF RxOK
<1>5. CASE Worker \notin Getting
  <2>1. bytes' = bytes /\ getc'[Worker] = getc[Worker]
    BY <1>1, <1>5, SizesOK
  <2> QED
    BY <1>1, <1>2, <2>1, Zenon DEF RxOK
<1> QED
  BY <1>4, <1>5

-----------------------------------------------------------------------------
(* The queue and the couriers.                                             *)

\* Somebody Sends: a courier that was away, or the worker.
LEMMA SendOK ==
  ASSUME CouriersOK, NEW sender \in Couriers \cup {Worker},
         inbox' = Append(inbox, sender),
         UNCHANGED <<sensor_table, event_list>>,
         \/ sender = Worker /\ UNCHANGED <<courier, report>>
         \/ /\ sender \in Couriers /\ courier[sender] = "away"
            /\ courier' = [courier EXCEPT ![sender] = "asking"]
            /\ report'  = [report EXCEPT ![sender] = {}]
  PROVE  CouriersOK'
<1>1. /\ inbox' \in Seq(Couriers \cup {Worker})
      /\ \A i \in DOMAIN inbox' :
           \/ i \in DOMAIN inbox /\ inbox'[i] = inbox[i]
           \/ i = Len(inbox) + 1 /\ inbox'[i] = sender
  BY DEF CouriersOK
<1>2. \A i \in DOMAIN inbox : inbox[i] \in Couriers => inbox[i] # sender
  BY SizesOK DEF CouriersOK
<1>3. \A i, j \in DOMAIN inbox' : inbox'[i] \in Couriers /\ inbox'[i] = inbox'[j] => i = j
  <2>1. SUFFICES ASSUME NEW i \in DOMAIN inbox', NEW j \in DOMAIN inbox',
                        inbox'[i] \in Couriers, inbox'[i] = inbox'[j]
                 PROVE  i = j
    OBVIOUS
  <2> QED
    BY <1>1, <1>2, <2>1 DEF CouriersOK
<1>4. /\ courier' \in [Couriers -> {"asking", "listening", "away"}]
      /\ report' \in [Couriers -> SUBSET Sensors]
      /\ sender \in Couriers => courier'[sender] = "asking"
      /\ \A c \in Couriers : c # sender => courier'[c] = courier[c]
  BY SizesOK DEF CouriersOK
<1>5. \A i \in DOMAIN inbox' : inbox'[i] \in Couriers => courier'[inbox'[i]] = "asking"
  <2>1. SUFFICES ASSUME NEW i \in DOMAIN inbox', inbox'[i] \in Couriers
                 PROVE  courier'[inbox'[i]] = "asking"
    OBVIOUS
  <2>2. CASE inbox'[i] = sender
    BY <1>4, <2>1, <2>2
  <2>3. CASE inbox'[i] # sender
    <3>1. i \in DOMAIN inbox /\ inbox'[i] = inbox[i]
      BY <1>1, <2>3
    <3>2. courier[inbox[i]] = "asking"
      BY <2>1, <3>1 DEF CouriersOK
    <3> QED
      BY <1>4, <2>1, <2>3, <3>1, <3>2
  <2> QED
    BY <2>2, <2>3
<1>6. \A i \in DOMAIN event_list : courier'[event_list[i]] = "listening"
  <2>1. ASSUME NEW i \in DOMAIN event_list PROVE courier'[event_list[i]] = "listening"
    <3>1. event_list[i] \in Couriers /\ courier[event_list[i]] = "listening"
      BY DEF CouriersOK
    <3> QED
      BY <1>4, <3>1, SizesOK
  <2> QED
    BY <2>1
<1> QED
  BY <1>1, <1>3, <1>4, <1>5, <1>6, Zenon DEF CouriersOK

\* What is left of the queue once the first message is taken.
LEMMA QueueMovesUp ==
  ASSUME CouriersOK, NEW sender, Received(sender)
  PROVE  /\ \A i, j \in DOMAIN inbox' : inbox'[i] \in Couriers /\ inbox'[i] = inbox'[j] => i = j
         /\ \A i \in DOMAIN inbox' : inbox'[i] \in Couriers =>
              inbox'[i] # sender /\ courier[inbox'[i]] = "asking"
<1>1. ASSUME NEW i \in DOMAIN inbox', NEW j \in DOMAIN inbox',
             inbox'[i] \in Couriers, inbox'[i] = inbox'[j]
      PROVE  i = j
  <2>1. /\ i + 1 \in DOMAIN inbox /\ inbox'[i] = inbox[i + 1] /\ i \in Nat \ {0}
        /\ j + 1 \in DOMAIN inbox /\ inbox'[j] = inbox[j + 1] /\ j \in Nat \ {0}
    BY Taken
  <2>2. i + 1 = j + 1
    BY <1>1, <2>1, Zenon DEF CouriersOK
  <2> QED
    BY <2>1, <2>2
<1>2. ASSUME NEW i \in DOMAIN inbox', inbox'[i] \in Couriers
      PROVE  inbox'[i] # sender /\ courier[inbox'[i]] = "asking"
  <2>1. /\ i + 1 \in DOMAIN inbox /\ inbox'[i] = inbox[i + 1] /\ i \in Nat \ {0}
        /\ 1 \in DOMAIN inbox /\ inbox[1] = sender
    BY Taken
  <2>2. i + 1 # 1
    BY <2>1
  <2> QED
    BY <1>2, <2>1, <2>2, Zenon DEF CouriersOK
<1> QED
  BY <1>1, <1>2

LEMMA CourierMessageOK ==
  ASSUME CouriersOK, NEW c \in Couriers, CourierMessage(c)
  PROVE  CouriersOK'
<1>1. Received(c)
  BY DEF CourierMessage
<1>2. /\ event_list' = Append(event_list, c)
      /\ courier' = [courier EXCEPT ![c] = "listening"]
      /\ UNCHANGED <<sensor_table, report>>
  BY DEF CourierMessage
<1>3. courier[c] = "asking"
  BY <1>1, Taken DEF CouriersOK
<1>4. /\ event_list' \in Seq(Couriers)
      /\ \A i \in DOMAIN event_list' :
           \/ i \in DOMAIN event_list /\ event_list'[i] = event_list[i]
           \/ i = Len(event_list) + 1 /\ event_list'[i] = c
  BY <1>2 DEF CouriersOK
<1>5. \A i \in DOMAIN event_list : event_list[i] # c
  BY <1>3 DEF CouriersOK
<1>6. \A i, j \in DOMAIN event_list' : event_list'[i] = event_list'[j] => i = j
  <2>1. SUFFICES ASSUME NEW i \in DOMAIN event_list', NEW j \in DOMAIN event_list',
                        event_list'[i] = event_list'[j]
                 PROVE  i = j
    OBVIOUS
  <2> QED
    BY <1>4, <1>5, <2>1 DEF CouriersOK
<1>7. /\ courier' \in [Couriers -> {"asking", "listening", "away"}]
      /\ courier'[c] = "listening"
      /\ \A d \in Couriers : d # c => courier'[d] = courier[d]
  BY <1>2 DEF CouriersOK
<1>8. \A i \in DOMAIN event_list' : courier'[event_list'[i]] = "listening"
  <2>1. ASSUME NEW i \in DOMAIN event_list' PROVE courier'[event_list'[i]] = "listening"
    <3>1. CASE event_list'[i] = c
      BY <1>7, <3>1
    <3>2. CASE i \in DOMAIN event_list /\ event_list'[i] = event_list[i]
      <4>1. event_list[i] \in Couriers /\ courier[event_list[i]] = "listening"
        BY <3>2 DEF CouriersOK
      <4> QED
        BY <1>5, <1>7, <3>2, <4>1
    <3> QED
      BY <1>4, <3>1, <3>2
  <2> QED
    BY <2>1
<1>9. \A i \in DOMAIN inbox' : inbox'[i] \in Couriers => courier'[inbox'[i]] = "asking"
  BY <1>1, <1>7, QueueMovesUp, Zenon
<1>10. inbox' \in Seq(Couriers \cup {Worker})
  BY <1>1, Taken
<1>11. \A i, j \in DOMAIN inbox' : inbox'[i] \in Couriers /\ inbox'[i] = inbox'[j] => i = j
  BY <1>1, QueueMovesUp
<1> QED
  BY <1>2, <1>4, <1>6, <1>7, <1>8, <1>9, <1>10, <1>11, Zenon DEF CouriersOK

LEMMA WorkerMessageOK ==
  ASSUME CouriersOK, WorkerMessage
  PROVE  CouriersOK'
<1>1. Received(Worker)
  BY DEF WorkerMessage
<1>2. sensor_table' \in [Sensors -> {"unknown", "off", "on"}]
  BY DEF WorkerMessage
<1>3. \/ UNCHANGED <<event_list, courier, report>>
      \/ \E on \in SUBSET Sensors : TellListeners(on)
  <2>1. PICK first \in SUBSET {s \in {FirstSensor} : bytes[s].on} :
          LET on == first \cup {s \in Sensors \ {FirstSensor} : TurnedOn(s)}
          IN  IF on = {} THEN UNCHANGED <<event_list, courier, report>> ELSE TellListeners(on)
    BY DEF WorkerMessage
  <2>2. first \cup {s \in Sensors \ {FirstSensor} : TurnedOn(s)} \in SUBSET Sensors
    BY SizesOK
  <2> QED
    BY <2>1, <2>2, Zenon
<1>4. /\ inbox' \in Seq(Couriers \cup {Worker})
      /\ \A i, j \in DOMAIN inbox' : inbox'[i] \in Couriers /\ inbox'[i] = inbox'[j] => i = j
      /\ \A i \in DOMAIN inbox' : inbox'[i] \in Couriers => courier[inbox'[i]] = "asking"
  BY <1>1, Taken, QueueMovesUp, Zenon
<1>5. CASE UNCHANGED <<event_list, courier, report>>
  <2>1. event_list' = event_list /\ courier' = courier /\ report' = report
    BY <1>5
  <2> QED
    BY <1>2, <1>4, <2>1, Zenon DEF CouriersOK
<1>6. ASSUME NEW on \in SUBSET Sensors, TellListeners(on) PROVE CouriersOK'
  <2>1. /\ courier' = [c \in Couriers |->
                         IF courier[c] = "listening" THEN "away" ELSE courier[c]]
        /\ report'  = [c \in Couriers |->
                         IF courier[c] = "listening" THEN on ELSE report[c]]
        /\ event_list' = << >>
    BY <1>6 DEF TellListeners, Tell
  <2>2. /\ courier' \in [Couriers -> {"asking", "listening", "away"}]
        /\ report' \in [Couriers -> SUBSET Sensors]
        /\ \A c \in Couriers : courier[c] = "asking" => courier'[c] = "asking"
    BY <2>1 DEF CouriersOK
  <2>3. event_list' \in Seq(Couriers) /\ DOMAIN event_list' = {}
    BY <2>1
  <2> QED
    BY <1>2, <1>4, <2>2, <2>3, Zenon DEF CouriersOK
<1> QED
  BY <1>3, <1>5, <1>6

-----------------------------------------------------------------------------
(* The specification.                                                      *)

LEMMA InitOK == Init => IInv
<1> SUFFICES ASSUME Init PROVE IInv
  OBVIOUS
<1>1. TxOK
  <2>1. UartInit({Helper})
    BY DEF Init
  <2>2. NotifierOK
    BY <2>1, CapacityAssumption DEF UartInit, NotifierOK
  <2>3. FlowControl
    BY <2>1, Zenon DEF UartInit, FlowControl
  <2> QED
    BY <2>1, <2>2, <2>3, Zenon DEF UartInit, TxOK
<1>2. RxOK
  <2>1. PICK on \in SUBSET Sensors, i \in 1 .. NumSensors + 1 :
          line = SubSeq(Answer(on), i, NumSensors)
    BY DEF Init
  <2>2. line \in Seq(Byte)
    BY <2>1, AnswerOK, SizesOK
  <2>3. /\ getc = [t \in Getters |-> IF t = Helper THEN "waiting" ELSE "no"]
        /\ rx_notifier = "awaiting" /\ bytes = << >>
    BY DEF Init, UartInit
  <2>4. getc \in [Getters -> {"no", "sent", "waiting"}] /\ getc[Worker] = "no"
    BY <2>3, SizesOK
  <2>5. bytes \in Seq(Byte) /\ Len(bytes) <= NumSensors
    BY <2>3, SizesOK
  <2> QED
    BY <2>2, <2>3, <2>4, <2>5 DEF RxOK
<1>3. WorkerOK
  BY DEF Init, WorkerOK, NoRequest, Requests
<1>4. CouriersOK
  BY DEF Init, CouriersOK
<1> QED
  BY <1>1, <1>2, <1>3, <1>4 DEF IInv

LEMMA StepOK == IInv /\ [Next]_vars => IInv'
<1> SUFFICES ASSUME IInv, [Next]_vars PROVE IInv'
  OBVIOUS
<1>0. TxOK /\ RxOK /\ WorkerOK /\ CouriersOK
  BY DEF IInv
<1> USE DEF uartVars, trackVars, workerVars
<1>1. CASE UNCHANGED vars
  BY <1>0, <1>1, TxUnchanged, RxUnchanged, WorkerUnchanged, CouriersUnchanged, Zenon
     DEF vars, IInv
<1>2. ASSUME NEW s \in Sensors, Trip(s) PROVE IInv'
  <2>1. WorkerOK'
    BY <1>0, <1>2, Zenon DEF Trip, WorkerOK
  <2> QED
    BY <1>0, <1>2, <2>1, TxUnchanged, RxUnchanged, CouriersUnchanged, Zenon DEF Trip, IInv
<1>3. CASE Obey
  <2>1. TxOK'
    <3>1. /\ box # "ready" /\ box' = "done" /\ mis' = mis
          /\ UNCHANGED <<buffer, tx_notifier, tien, msien, uart1_tx_flag, uart1_cts_flag,
                         wire, overrun, raced>>
      BY <1>3 DEF Obey
    <3> QED
      BY <1>0, <3>1, BoxOK, Zenon
  <2>2. RxOK'
    <3>1. line' \in Seq(Byte)
      <4>1. line' = line \/ line' = line \o Answer(latched)
        BY <1>3 DEF Obey
      <4>2. Answer(latched) \in Seq(Byte)
        BY AnswerOK
      <4>3. line \in Seq(Byte)
        BY <1>0 DEF RxOK
      <4>4. line \o Answer(latched) \in Seq(Byte)
        BY <4>2, <4>3
      <4> QED
        BY <4>1, <4>3, <4>4
    <3>2. UNCHANGED <<rx_notifier, rx_byte, getc, bytes>>
      BY <1>3 DEF Obey
    <3> QED
      BY <1>0, <3>1, <3>2, Zenon DEF RxOK
  <2>3. WorkerOK'
    <3>1. latched' \subseteq Sensors
      BY <1>0, <1>3, Zenon DEF Obey, WorkerOK
    <3>2. reset_mode' \in BOOLEAN
      BY <1>0, <1>3, Zenon DEF Obey, WorkerOK
    <3> QED
      BY <1>0, <1>3, <3>1, <3>2, Zenon DEF Obey, WorkerOK
  <2> QED
    BY <1>0, <1>3, <2>1, <2>2, <2>3, CouriersUnchanged, Zenon DEF Obey, IInv
<1>4. CASE Wire
  <2>1. TxOK' /\ UNCHANGED rxVars
    <3>1. CASE Transmitted
      BY <1>0, <3>1, TransmittedOK DEF Transmitted
    <3>2. CASE ClearToSend
      <4>1. /\ box # "ready" /\ box' = "ready" /\ mis' = TRUE
            /\ UNCHANGED <<buffer, tx_notifier, tien, msien, uart1_tx_flag, uart1_cts_flag,
                           wire, overrun, raced>>
            /\ UNCHANGED rxVars
        BY <3>2 DEF ClearToSend
      <4> QED
        BY <1>0, <4>1, BoxOK, Zenon
    <3> QED
      BY <1>4, <3>1, <3>2 DEF Wire
  <2> QED
    BY <1>0, <1>4, <2>1, RxUnchanged, WorkerUnchanged, CouriersUnchanged, Zenon DEF Wire, IInv
<1>5. CASE Transmit
  <2>1. TxOK' /\ UNCHANGED rxVars
    <3>1. CASE TxMessage
      BY <1>0, <3>1, TxMessageOK DEF TxMessage
    <3>2. ASSUME NEW late \in BOOLEAN, HandleTransmit(late) PROVE TxOK' /\ UNCHANGED rxVars
      BY <1>0, <3>2, HandleTransmitOK DEF HandleTransmit
    <3> QED
      BY <1>5, <3>1, <3>2 DEF Transmit
  <2> QED
    BY <1>0, <1>5, <2>1, RxUnchanged, WorkerUnchanged, CouriersUnchanged, Zenon
       DEF Transmit, IInv
<1>6. CASE GetcReceived
  <2>1. RxOK' /\ UNCHANGED txVars
    <3>1. PICK t \in Getters : GetcMessage(t)
      BY <1>6 DEF GetcReceived
    <3>2. UNCHANGED bytes
      BY <1>6 DEF GetcReceived
    <3> QED
      BY <1>0, <3>1, <3>2, GetcMessageOK DEF GetcMessage
  <2> QED
    BY <1>0, <1>6, <2>1, TxUnchanged, WorkerUnchanged, CouriersUnchanged, Zenon
       DEF GetcReceived, IInv
<1>7. CASE ByteArrives
  <2>1. HandleReceive /\ UNCHANGED bytes
    BY <1>7 DEF ByteArrives
  <2>2. RxOK' /\ UNCHANGED txVars
    BY <1>0, <2>1, HandleReceiveOK DEF HandleReceive
  <2> QED
    BY <1>0, <1>7, <2>2, TxUnchanged, WorkerUnchanged, CouriersUnchanged, Zenon
       DEF ByteArrives, IInv
<1>8. CASE ByteReceived
  <2>1. UNCHANGED txVars
    BY <1>8 DEF ByteReceived, RxMessage
  <2>2. WorkerOK'
    <3>1. worker' = "report" \/ worker' = worker
      BY <1>8 DEF ByteReceived
    <3>2. UNCHANGED <<request, pausing, latched, reset_mode>>
      BY <1>8 DEF ByteReceived
    <3> QED
      BY <1>0, <3>1, <3>2, Zenon DEF WorkerOK
  <2>3. CouriersOK'
    <3>1. inbox' = inbox \/ inbox' = Append(inbox, Worker)
      BY <1>8 DEF ByteReceived
    <3>2. UNCHANGED <<sensor_table, event_list, courier, report>>
      BY <1>8 DEF ByteReceived, serverVars
    <3> QED
      BY <1>0, <3>1, <3>2, SendOK, CouriersUnchanged, Zenon DEF serverVars
  <2> QED
    BY <1>0, <1>8, <2>1, <2>2, <2>3, TxUnchanged, ByteReceivedOK, Zenon DEF IInv
<1>9. CASE Drained
  <2>1. WorkerOK'
    BY <1>0, <1>9, Zenon DEF Drained, WorkerOK
  <2> QED
    BY <1>0, <1>9, <2>1, TxUnchanged, RxUnchanged, CouriersUnchanged, Zenon DEF Drained, IInv
<1>10. CASE ResetSensors
  <2>1. request' \in Requests
    BY <1>10 DEF ResetSensors, Requests, NUM_SENSOR_MODULES
  <2>2. WorkerOK'
    BY <1>0, <1>10, <2>1, Zenon DEF ResetSensors, WorkerOK
  <2> QED
    BY <1>0, <1>10, <2>2, TxUnchanged, RxUnchanged, CouriersUnchanged, Zenon
       DEF ResetSensors, IInv
<1>11. CASE TrainCommand
  <2>1. TxOK'
    <3>1. PutcMessage(request.command) \/ UNCHANGED txVars
      BY <1>11 DEF TrainCommand
    <3>2. request.command \in {0, TRAIN_READ_SENSORS, TRAIN_RESET_SENSORS}
      BY <1>0 DEF WorkerOK, Requests
    <3> QED
      BY <1>0, <3>1, <3>2, PutcMessageOK, TxUnchanged, Zenon
  <2>2. WorkerOK'
    BY <1>0, <1>11, Zenon DEF TrainCommand, WorkerOK
  <2> QED
    BY <1>0, <1>11, <2>1, <2>2, RxUnchanged, CouriersUnchanged, Zenon DEF TrainCommand, IInv
<1>12. CASE PauseOver
  <2>1. WorkerOK'
    <3>1. request' \in Requests /\ worker' \in {"read", "getc"}
      BY <1>12 DEF PauseOver, Requests, NoRequest, NUM_SENSOR_MODULES
    <3>2. pausing' = FALSE /\ UNCHANGED <<latched, reset_mode>>
      BY <1>12 DEF PauseOver
    <3> QED
      BY <1>0, <3>1, <3>2, Zenon DEF WorkerOK
  <2>2. RxOK'
    <3>1. UNCHANGED <<line, rx_notifier, rx_byte>>
      BY <1>12 DEF PauseOver
    <3>2. CASE UNCHANGED <<getc, bytes>>
      BY <1>0, <3>1, <3>2, Zenon DEF RxOK
    <3>3. CASE getc' = [getc EXCEPT ![Worker] = "sent"] /\ bytes' = << >>
      <4>1. getc' \in [Getters -> {"no", "sent", "waiting"}]
        BY <1>0, <3>3 DEF RxOK
      <4>2. bytes' \in Seq(Byte) /\ Len(bytes') < NumSensors /\ Len(bytes') <= NumSensors
        BY <3>3, SizesOK
      <4> QED
        BY <1>0, <3>1, <4>1, <4>2, Zenon DEF RxOK
    <3> QED
      BY <1>12, <3>2, <3>3 DEF PauseOver
  <2> QED
    BY <1>0, <1>12, <2>1, <2>2, TxUnchanged, CouriersUnchanged, Zenon DEF PauseOver, IInv
<1>13. CASE WorkerMessage
  <2>1. WorkerOK'
    BY <1>0, <1>13, Zenon DEF WorkerMessage, WorkerOK
  <2>2. RxOK'
    <3>1. bytes' = << >> /\ UNCHANGED rxVars
      BY <1>13 DEF WorkerMessage
    <3>2. bytes' \in Seq(Byte) /\ Len(bytes') < NumSensors /\ Len(bytes') <= NumSensors
      BY <3>1, SizesOK
    <3> QED
      BY <1>0, <3>1, <3>2, Zenon DEF RxOK, rxVars
  <2> QED
    BY <1>0, <1>13, <2>1, <2>2, TxUnchanged, WorkerMessageOK, Zenon DEF WorkerMessage, IInv
<1>14. ASSUME NEW c \in Couriers, CourierMessage(c) PROVE IInv'
  BY <1>0, <1>14, TxUnchanged, RxUnchanged, WorkerUnchanged, CourierMessageOK, Zenon
     DEF CourierMessage, IInv
<1>15. ASSUME NEW c \in Couriers, CourierReturns(c) PROVE IInv'
  <2>1. CouriersOK'
    <3>1. /\ courier[c] = "away"
          /\ courier' = [courier EXCEPT ![c] = "asking"]
          /\ report'  = [report EXCEPT ![c] = {}]
          /\ inbox'   = Append(inbox, c)
          /\ UNCHANGED <<sensor_table, event_list>>
      BY <1>15 DEF CourierReturns
    <3> QED
      BY <1>0, <3>1, SendOK, Zenon
  <2> QED
    BY <1>0, <1>15, <2>1, TxUnchanged, RxUnchanged, WorkerUnchanged, Zenon
       DEF CourierReturns, IInv
<1> QED
  BY <1>1, <1>2, <1>3, <1>4, <1>5, <1>6, <1>7, <1>8, <1>9, <1>10, <1>11, <1>12, <1>13,
     <1>14, <1>15 DEF Next, Asking, Commanding, Server

\* The four parts hold in every state.
THEOREM Inductive == Spec => []IInv
BY InitOK, StepOK, PTL DEF Spec

\* The list of listeners has room for every courier, the worker never takes more
\* bytes than it has room for, and the transmit buffer is not overfilled.
THEOREM TypeCorrect == Spec => []TypeOK
BY Inductive, Typed, PTL

\* Unless CTS rises between the clearing of the modem interrupt and the reading
\* of CTS, the two flags never let a byte out before the box is ready for it.
THEOREM FlowControlled == Spec => []BytesWhenReady
<1>1. IInv => BytesWhenReady
  BY Zenon DEF IInv, TxOK, FlowControl, BytesWhenReady
<1> QED
  BY <1>1, Inductive, PTL

-----------------------------------------------------------------------------
(* ReportsAreTrips: nothing that is left on the line, latched from before  *)
(* or read at the wrong place is taken for a trip.                         *)

\* Induction, by sets of numbers: a set of them has a least one.
LEMMA LeastElement ==
  ASSUME NEW T \in SUBSET Nat, T # {}
  PROVE  \E x \in T : \A y \in T : x <= y
<1>1. PICK x \in T : \A y \in T : ~(<<y, x>> \in OpToRel(<, Nat))
  BY WFMin, NatLessThanWellFounded
<1>2. \A y \in T : y < x => <<y, x>> \in OpToRel(<, Nat)
  BY DEF OpToRel
<1>3. x \in Nat /\ \A y \in T : y \in Nat /\ ~(y < x)
  BY <1>1, <1>2
<1>4. \A y \in T : x <= y
  BY <1>3
<1>5. QED
  BY <1>4

\* ... and what holds of every number if it holds of those before it, holds of all.
LEMMA StrongInduction ==
  ASSUME NEW T \in SUBSET Nat, \A n \in Nat : (\A k \in 0 .. n - 1 : k \in T) => n \in T
  PROVE  T = Nat
<1> DEFINE B == {n \in Nat : n \notin T}
<1> SUFFICES ASSUME B # {} PROVE FALSE
  OBVIOUS
<1>1. PICK b \in B : \A y \in B : b <= y
  <2>1. B \in SUBSET Nat
    OBVIOUS
  <2> HIDE DEF B
  <2>2. QED
    BY <2>1, LeastElement
<1>2. \A k \in 0 .. b - 1 : k \in T
  BY <1>1
<1>3. QED
  BY <1>1, <1>2

-----------------------------------------------------------------------------
(* Rows of bytes, as they come in: some of an answer, in order.            *)

\* The bytes of row are in the order of their sensors.
Increasing(row) == \A i, j \in DOMAIN row : i < j => row[i].sensor < row[j].sensor
Tells(row, on)  == \A i \in DOMAIN row : row[i].on = (row[i].sensor \in on)

\* All bytes of a row come before those of another, or before one.
Before(row, other)   == \A i \in DOMAIN row, j \in DOMAIN other : row[i].sensor < other[j].sensor
\* Every byte of row is of a sensor before that of byte.
AllBefore(row, byte) == \A i \in DOMAIN row : row[i].sensor < byte.sensor
AllAfter(row, byte)  == \A i \in DOMAIN row : byte.sensor < row[i].sensor

\* A row in order is in order without its first byte.
LEMMA RowShortened ==
  ASSUME NEW row \in Seq(Byte), row # << >>, Increasing(row), NEW on, Tells(row, on)
  PROVE  /\ Tail(row) \in Seq(Byte) /\ Head(row) \in Byte
         /\ Increasing(Tail(row)) /\ Tells(Tail(row), on)
         /\ Head(row).on = (Head(row).sensor \in on)
         /\ AllAfter(Tail(row), Head(row))
         /\ \A byte : AllAfter(row, byte) => AllAfter(Tail(row), byte)
         /\ \A other : Before(other, row) => Before(other, Tail(row)) /\ AllBefore(other, Head(row))
<1> DEFINE rest == Tail(row)
<1>1. /\ rest \in Seq(Byte) /\ Head(row) = row[1] /\ 1 \in DOMAIN row /\ row[1] \in Byte
      /\ \A i \in DOMAIN rest : i \in Nat \ {0} /\ i + 1 \in DOMAIN row /\ rest[i] = row[i + 1]
  OBVIOUS
<1>2. \A i, j \in DOMAIN rest : i < j => i + 1 < j + 1
  BY <1>1
<1>3. \A i \in DOMAIN rest : 1 < i + 1
  BY <1>1
<1> HIDE DEF rest
<1>4. Increasing(rest) /\ Tells(rest, on) /\ AllAfter(rest, row[1])
  BY <1>1, <1>2, <1>3 DEF Increasing, Tells, AllAfter
<1>5. ASSUME NEW other, Before(other, row)
      PROVE  Before(other, rest) /\ AllBefore(other, row[1])
  BY <1>1, <1>5 DEF Before, AllBefore
<1>6. row[1].on = (row[1].sensor \in on)
  BY <1>1 DEF Tells
<1>7. \A byte : AllAfter(row, byte) => AllAfter(rest, byte)
  BY <1>1 DEF AllAfter
<1>8. QED
  BY <1>1, <1>4, <1>5, <1>6, <1>7 DEF rest

\* A byte of a later sensor may be put behind it.
LEMMA RowLengthened ==
  ASSUME NEW row \in Seq(Byte), Increasing(row), NEW on, Tells(row, on),
         NEW byte \in Byte, AllBefore(row, byte), byte.on = (byte.sensor \in on)
  PROVE  /\ Increasing(Append(row, byte)) /\ Tells(Append(row, byte), on)
         /\ \A other : Before(row, other) /\ AllAfter(other, byte) => Before(Append(row, byte), other)
<1> DEFINE more == Append(row, byte)
<1>1. \A i \in DOMAIN more : i \in Nat /\ (\/ i \in DOMAIN row /\ more[i] = row[i]
                                           \/ i = Len(row) + 1 /\ more[i] = byte)
  OBVIOUS
<1>2. \A i \in DOMAIN row : i < Len(row) + 1
  OBVIOUS
<1> HIDE DEF more
<1>3. Tells(more, on)
  BY <1>1 DEF Tells
<1>4. Increasing(more)
  <2> SUFFICES ASSUME NEW i \in DOMAIN more, NEW j \in DOMAIN more, i < j
               PROVE  more[i].sensor < more[j].sensor
    BY DEF Increasing
  <2>1. i \in DOMAIN row /\ more[i] = row[i]
    <3>1. j \in DOMAIN row \/ j = Len(row) + 1
      BY <1>1
    <3>2. ~(i = Len(row) + 1)
      BY <1>1, <1>2, <3>1
    <3>3. QED
      BY <1>1, <3>2
  <2>2. CASE j \in DOMAIN row /\ more[j] = row[j]
    BY <2>1, <2>2 DEF Increasing
  <2>3. CASE more[j] = byte
    BY <2>1, <2>3 DEF AllBefore
  <2>4. QED
    BY <1>1, <2>2, <2>3
<1>5. ASSUME NEW other, Before(row, other), AllAfter(other, byte) PROVE Before(more, other)
  BY <1>1, <1>5 DEF Before, AllAfter
<1>6. QED
  BY <1>3, <1>4, <1>5 DEF more

\* What the box answers is such a row ...
LEMMA AnswerInOrder ==
  ASSUME NEW on
  PROVE  Increasing(Answer(on)) /\ Tells(Answer(on), on)
<1>1. \A i \in DOMAIN Answer(on) : i \in Nat /\ Answer(on)[i].sensor = i /\ Answer(on)[i].on = (i \in on)
  BY SizesOK DEF Answer
<1>2. QED
  BY <1>1 DEF Increasing, Tells

\* ... and a row that is as long is the whole answer.
LEMMA WholeAnswer ==
  ASSUME NEW row \in Seq(Byte), Increasing(row), Len(row) = NumSensors
  PROVE  /\ DOMAIN row = Sensors
         /\ \A i \in Sensors : row[i].sensor = i
<1>0. NumSensors \in Nat /\ Sensors = 1 .. NumSensors /\ DOMAIN row = 1 .. NumSensors
  BY SizesOK DEF Sensors
<1>1. \A i \in 1 .. NumSensors : row[i].sensor \in 1 .. NumSensors
  <2>1. \A i \in 1 .. NumSensors : row[i] \in Byte
    BY <1>0
  <2>2. \A b \in Byte : b.sensor \in Sensors
    BY DEF Byte
  <2>3. QED
    BY <1>0, <2>1, <2>2
<1>2. \A i \in 1 .. NumSensors : i # 1 => i - 1 \in 1 .. NumSensors /\ row[i - 1].sensor < row[i].sensor
  BY <1>0 DEF Increasing
<1>3. \A i \in 1 .. NumSensors : i # NumSensors =>
         i + 1 \in 1 .. NumSensors /\ row[i].sensor < row[i + 1].sensor
  BY <1>0 DEF Increasing
<1>4. \A i \in 1 .. NumSensors : row[i].sensor >= i
  <2> DEFINE T == {n \in Nat : n \in 1 .. NumSensors => row[n].sensor >= n}
  <2>1. ASSUME NEW n \in Nat, \A k \in 0 .. n - 1 : k \in T PROVE n \in T
    <3> SUFFICES ASSUME n \in 1 .. NumSensors PROVE row[n].sensor >= n
      OBVIOUS
    <3>1. CASE n = 1
      BY <1>1, <3>1
    <3>2. CASE n # 1
      <4>1. n - 1 \in 0 .. n - 1 /\ n - 1 \in 1 .. NumSensors
        BY <1>0, <3>2
      <4>2. row[n - 1].sensor >= n - 1
        BY <2>1, <4>1
      <4>3. row[n - 1].sensor < row[n].sensor
        BY <1>2, <3>2
      <4>4. row[n - 1].sensor \in Nat /\ row[n].sensor \in Nat
        BY <1>1, <4>1
      <4>5. QED
        BY <4>2, <4>3, <4>4
    <3>3. QED
      BY <3>1, <3>2
  <2>2. T = Nat
    <3>1. T \in SUBSET Nat
      OBVIOUS
    <3> HIDE DEF T
    <3>2. QED
      BY <2>1, <3>1, StrongInduction
  <2>3. QED
    BY <1>0, <2>2
<1>5. \A i \in 1 .. NumSensors : row[i].sensor <= i
  <2> DEFINE T == {n \in Nat : n \in 0 .. NumSensors - 1 => row[NumSensors - n].sensor <= NumSensors - n}
  <2>1. ASSUME NEW n \in Nat, \A k \in 0 .. n - 1 : k \in T PROVE n \in T
    <3> SUFFICES ASSUME n \in 0 .. NumSensors - 1 PROVE row[NumSensors - n].sensor <= NumSensors - n
      OBVIOUS
    <3>1. CASE n = 0
      <4>1. NumSensors - n = NumSensors /\ NumSensors \in 1 .. NumSensors
        BY <1>0, <3>1
      <4>2. QED
        BY <1>1, <4>1
    <3>2. CASE n # 0
      <4>1. n - 1 \in 0 .. n - 1 /\ n - 1 \in 0 .. NumSensors - 1
        BY <1>0, <3>2
      <4>2. row[NumSensors - (n - 1)].sensor <= NumSensors - (n - 1)
        BY <2>1, <4>1
      <4> DEFINE i == NumSensors - n
      <4>3. i \in 1 .. NumSensors /\ i # NumSensors /\ NumSensors - (n - 1) = i + 1
        BY <1>0, <3>2
      <4> HIDE DEF i
      <4>4. row[i].sensor < row[i + 1].sensor /\ i + 1 \in 1 .. NumSensors
        BY <1>3, <4>3
      <4>5. row[i].sensor \in Nat /\ row[i + 1].sensor \in Nat
        BY <1>1, <4>3, <4>4
      <4>6. row[i + 1].sensor <= i + 1
        BY <4>2, <4>3
      <4>7. row[i].sensor <= i
        BY <4>3, <4>4, <4>5, <4>6
      <4>8. QED
        BY <4>7 DEF i
    <3>3. QED
      BY <3>1, <3>2
  <2>2. T = Nat
    <3>1. T \in SUBSET Nat
      OBVIOUS
    <3> HIDE DEF T
    <3>2. QED
      BY <2>1, <3>1, StrongInduction
  <2>3. \A n \in 0 .. NumSensors - 1 : row[NumSensors - n].sensor <= NumSensors - n
    <3>1. TAKE n \in 0 .. NumSensors - 1
    <3>2. n \in T
      <4> HIDE DEF T
      <4>1. QED
        BY <1>0, <2>2
    <3>3. QED
      BY <3>2
  <2>4. \A i \in 1 .. NumSensors : NumSensors - i \in 0 .. NumSensors - 1 /\ NumSensors - (NumSensors - i) = i
    BY <1>0
  <2>5. QED
    BY <2>3, <2>4
<1>6. QED
  BY <1>0, <1>1, <1>4, <1>5

\* The sensors whose entry in the table is the server's own.
Known == Sensors \ {FirstSensor}

\* The command to read is on its way to the box: in the transmit buffer, on the wire
\* or with a box that has not obeyed it yet.
InBuffer == \E i \in DOMAIN buffer : buffer[i] = TRAIN_READ_SENSORS
OnWire   == wire # NoByte /\ wire = TRAIN_READ_SENSORS
InBox    == box = "busy" /\ box_byte = TRAIN_READ_SENSORS
\* The command to read is in one of the three places.
OnItsWay == InBuffer \/ OnWire \/ InBox

\* There is one, and nothing behind it.
CommandsOK ==
  /\ \A i \in DOMAIN buffer : buffer[i] = TRAIN_READ_SENSORS => i = Len(buffer)
  /\ wire # NoByte => box = "ready"
  /\ OnWire => buffer = << >>
  /\ InBox => buffer = << >>

\* What the worker has asked for, and what it has, at every place of its loop.
LoopOK ==
  /\ worker \in {"drain", "ask", "getc", "report"} => request = NoRequest /\ ~pausing
  /\ worker = "reset" => request.command = TRAIN_RESET_SENSORS
  /\ worker = "read" => request = [command |-> TRAIN_READ_SENSORS, data1 |-> NUM_SENSOR_MODULES]
  /\ getc[Worker] # "no" => worker = "getc"
  /\ worker \notin {"getc", "report"} => bytes = << >>
  /\ worker = "report" => Len(bytes) = NumSensors

\* It has a message in the server's queue only while it reports.
MessagesOK ==
  /\ \A i \in DOMAIN inbox : inbox[i] = Worker => worker = "report"
  /\ \A i, j \in DOMAIN inbox : inbox[i] = Worker /\ inbox[j] = Worker => i = j

\* Nothing of an answer has come in or is to come.
Silent == line = << >> /\ rx_notifier # "sent" /\ bytes = << >>

\* What has come and is to come is from one answer, of the sensors in on, in order.
RowOK(on) ==
  /\ Increasing(bytes) /\ Increasing(line)
  /\ Tells(bytes, on) /\ Tells(line, on)
  /\ Before(bytes, line)
  /\ rx_notifier = "sent" =>
       /\ rx_byte.on = (rx_byte.sensor \in on)
       /\ AllBefore(bytes, rx_byte) /\ AllAfter(line, rx_byte)

\* Of the sensors that the table has as off, the box remembers those that were tripped
\* since it was last asked ...
Unread == \A s \in Known : sensor_table[s] = "off" => (s \in latched <=> s \in tripped)

\* ... and has answered with those tripped before that; of the sensors it has answered
\* to be off, it remembers those tripped since.
Fresh(on) ==
  /\ \A s \in Known : sensor_table[s] = "off" => (s \in on <=> s \in news)
  /\ \A s \in Known : s \notin on => (s \in latched <=> s \in tripped)

\* The worker has sent the command to read and waits for the answer, or for the reply.
Asked == (worker = "read" /\ pausing) \/ worker = "getc"

\* The answer that has come and is to come is of the sensors in some set.
Answered == \E on \in SUBSET Sensors : RowOK(on) /\ Fresh(on)

\* The command is on its way only while the worker waits for the answer; before the
\* box obeys there is nothing of an answer, and then only that one answer.
ReadingsOK ==
  /\ ~Asked => ~OnItsWay
  /\ ~Asked /\ worker # "report" => Unread
  /\ ~Asked /\ worker \notin {"drain", "report"} => Silent
  /\ Asked /\ OnItsWay => Unread /\ Silent
  /\ (Asked /\ ~OnItsWay) \/ worker = "report" => Answered

\* The invariant of the readings.
SInv == CommandsOK /\ LoopOK /\ MessagesOK /\ ReadingsOK

-----------------------------------------------------------------------------

\* Where the worker is, and what it has of what the box remembers.
loopVars == <<worker, pausing, request, getc, bytes>>
boxVars  == <<latched, tripped, news, sensor_table>>

\* The worker's messages, when queue and worker are as they were.
LEMMA MessagesUnchanged == MessagesOK /\ UNCHANGED <<inbox, worker>> => MessagesOK'
BY Zenon DEF MessagesOK

\* The worker is where it was; what it has may only have become more in Getc.
LEMMA LoopKept ==
  ASSUME LoopOK, UNCHANGED <<worker, pausing, request>>, worker = "getc" \/ UNCHANGED bytes,
         getc'[Worker] # "no" => getc[Worker] # "no"
  PROVE  LoopOK'
<1>0. worker' = worker /\ request' = request
  OBVIOUS
<1>1. pausing' <=> pausing
  <2>1. pausing' = pausing
    OBVIOUS
  <2>2. CASE pausing
    BY <2>1, <2>2
  <2>3. CASE ~pausing
    BY <2>1, <2>3
  <2>4. QED
    BY <2>2, <2>3
<1>2. CASE worker = "getc"
  BY <1>0, <1>1, <1>2 DEF LoopOK
<1>3. CASE bytes' = bytes
  BY <1>0, <1>1, <1>3 DEF LoopOK
<1>4. QED
  BY <1>2, <1>3

\* A worker that stays where it is has asked as before.
LEMMA AskedUnchanged == worker' = worker /\ pausing' = pausing => (Asked' <=> Asked)
<1> SUFFICES ASSUME worker' = worker, pausing' = pausing PROVE Asked' <=> Asked
  OBVIOUS
<1>1. CASE pausing
  BY <1>1 DEF Asked
<1>2. CASE ~pausing
  BY <1>2 DEF Asked
<1>3. QED
  BY <1>1, <1>2

\* The transmitter moves the commands, or loses one; nothing else changes.
LEMMA CommandsMove ==
  ASSUME SInv, CommandsOK', OnItsWay' => OnItsWay, MessagesOK',
         UNCHANGED <<loopVars, boxVars, line, rx_notifier, rx_byte>>
  PROVE  SInv'
<1>0. /\ UNCHANGED <<worker, pausing, request, getc, bytes>>
      /\ UNCHANGED <<latched, tripped, news, sensor_table>>
      /\ UNCHANGED <<line, rx_notifier, rx_byte>>
  BY DEF loopVars, boxVars
<1>1. LoopOK'
  BY <1>0, Zenon DEF SInv, LoopOK
<1>2. /\ Unread' <=> Unread
      /\ Silent' <=> Silent
      /\ Asked' <=> Asked
      /\ worker' = worker
  BY <1>0, Zenon DEF Unread, Silent, Asked
<1>3. \A on : (RowOK(on) <=> RowOK(on)') /\ (Fresh(on) <=> Fresh(on)')
  BY <1>0, Zenon DEF RowOK, Fresh
<1>4. Answered => Answered'
  BY <1>3, Zenon DEF Answered
<1>5. Unread /\ Silent => Answered
  <2>1. SUFFICES ASSUME Unread, Silent PROVE Answered
    OBVIOUS
  <2> DEFINE on == {s \in Sensors : sensor_table[s] # "off" \/ s \in news}
  <2>2. RowOK(on)
    BY <2>1 DEF Silent, RowOK, Increasing, Tells, Before, AllBefore, AllAfter
  <2>3. Fresh(on)
    BY <2>1 DEF Unread, Fresh, Known
  <2>4. QED
    BY <2>2, <2>3, Zenon DEF Answered
<1>6. ReadingsOK'
  BY <1>2, <1>4, <1>5, Zenon DEF SInv, ReadingsOK
<1>7. QED
  BY <1>1, <1>6, Zenon DEF SInv

\* Bytes of the answer come in, or are lost; what is left is still in order.
LEMMA RowMoves ==
  ASSUME SInv, LoopOK', MessagesOK', Silent => Silent',
         \A on : RowOK(on) => RowOK(on)',
         UNCHANGED <<txVars, boxVars, request, pausing>>,
         \/ worker' = worker
         \/ worker = "getc" /\ worker' = "report" /\ ~Silent
  PROVE  SInv'
<1>0. /\ UNCHANGED <<buffer, wire, box, box_byte, request, pausing>>
      /\ UNCHANGED <<latched, tripped, news, sensor_table>>
  BY DEF txVars, boxVars
<1>1. CommandsOK' /\ (OnItsWay <=> OnItsWay')
  BY <1>0, Zenon DEF SInv, CommandsOK, OnItsWay, InBuffer, OnWire, InBox
<1>2. Unread' <=> Unread
  BY <1>0, Zenon DEF Unread
<1>3. \A on : Fresh(on) <=> Fresh(on)'
  BY <1>0, Zenon DEF Fresh
<1>4. Answered => Answered'
  BY <1>3, Zenon DEF Answered
<1>5. CASE worker' = worker
  <2>1. Asked' <=> Asked
    BY <1>0, <1>5, AskedUnchanged
  <2>2. ReadingsOK'
    BY <1>1, <1>2, <1>4, <1>5, <2>1, Zenon DEF SInv, ReadingsOK
  <2>3. QED
    BY <1>1, <2>2, Zenon DEF SInv
<1>6. CASE worker = "getc" /\ worker' = "report" /\ ~Silent
  <2>1. Asked /\ ~Asked'
    BY <1>6 DEF Asked
  <2>2. ~OnItsWay /\ Answered
    BY <1>6, <2>1, Zenon DEF SInv, ReadingsOK
  <2>3. ReadingsOK'
    BY <1>1, <1>4, <1>6, <2>1, <2>2 DEF ReadingsOK
  <2>4. QED
    BY <1>1, <2>3, Zenon DEF SInv
<1>7. QED
  BY <1>5, <1>6

-----------------------------------------------------------------------------
(* The commands on their way.                                              *)

\* A command goes from the buffer on the wire, or is lost.
LEMMA TxMessageS ==
  ASSUME IInv, CommandsOK, TxMessage
  PROVE  CommandsOK' /\ (OnItsWay' => OnItsWay)
<1>1. /\ buffer # << >> /\ buffer' = Tail(buffer) /\ buffer \in Seq({0, TRAIN_READ_SENSORS, TRAIN_RESET_SENSORS})
      /\ box' = box /\ box_byte' = box_byte
      /\ wire' = wire \/ (wire' = Head(buffer) /\ wire = NoByte /\ box = "ready")
  BY DEF IInv, TxOK, NotifierOK, TxMessage
<1> DEFINE C == {0, TRAIN_READ_SENSORS, TRAIN_RESET_SENSORS}
<1>2. PICK b \in Seq(C), rest \in Seq(C) : b = buffer /\ rest = Tail(b) /\ b # << >>
  BY <1>1
<1>3. /\ rest \in Seq(C) /\ Head(b) = b[1] /\ 1 \in DOMAIN b /\ Len(b) \in Nat
      /\ Len(rest) = Len(b) - 1
      /\ Len(b) = 1 => rest = << >>
      /\ \A i \in DOMAIN rest : i + 1 \in DOMAIN b /\ rest[i] = b[i + 1] /\ i \in Nat
  BY <1>2
<1>4. \A i \in DOMAIN b : b[i] = TRAIN_READ_SENSORS => i = Len(b)
  BY <1>2 DEF CommandsOK
<1>5. buffer' = rest
  BY <1>1, <1>2
<1>6. \A i \in DOMAIN rest : rest[i] = TRAIN_READ_SENSORS => i = Len(rest)
  BY <1>3, <1>4
<1>7. (\E i \in DOMAIN rest : rest[i] = TRAIN_READ_SENSORS) => InBuffer
  BY <1>2, <1>3 DEF InBuffer
<1>8. b[1] = TRAIN_READ_SENSORS => rest = << >> /\ InBuffer
  BY <1>2, <1>3, <1>4 DEF InBuffer
<1>9. OnWire' => (OnWire \/ (b[1] = TRAIN_READ_SENSORS))
  BY <1>1, <1>2, <1>3 DEF OnWire
<1>10. ~OnWire
  BY <1>1 DEF CommandsOK
<1>11. InBox' => FALSE
  BY <1>1 DEF CommandsOK, InBox
<1>12. wire' # NoByte => box' = "ready"
  BY <1>1 DEF CommandsOK
<1>13. InBuffer' => InBuffer
  BY <1>5, <1>7 DEF InBuffer
<1>14. CommandsOK'
  <2>1. OnWire' => buffer' = << >>
    BY <1>5, <1>8, <1>9, <1>10
  <2>2. \A i \in DOMAIN buffer' : buffer'[i] = TRAIN_READ_SENSORS => i = Len(buffer')
    BY <1>5, <1>6
  <2>3. QED
    BY <1>11, <1>12, <2>1, <2>2 DEF CommandsOK
<1>15. QED
  BY <1>8, <1>9, <1>10, <1>11, <1>13, <1>14 DEF OnItsWay

\* It reaches the box, which is busy then.
LEMMA TransmittedS ==
  ASSUME CommandsOK, Transmitted
  PROVE  CommandsOK' /\ (OnItsWay' => OnItsWay)
<1>1. /\ wire # NoByte /\ wire' = NoByte /\ box' = "busy" /\ box_byte' = wire
      /\ buffer' = buffer /\ box = "ready"
  BY DEF Transmitted, CommandsOK
<1>2. InBox' <=> OnWire
  BY <1>1 DEF InBox, OnWire
<1>3. ~OnWire'
  BY <1>1 DEF OnWire
<1>4. InBuffer' <=> InBuffer
  BY <1>1 DEF InBuffer
<1>5. CommandsOK'
  BY <1>1, <1>2, <1>3 DEF CommandsOK
<1>6. QED
  BY <1>2, <1>3, <1>4, <1>5 DEF OnItsWay

\* A box that does not become busy has no more to do than before.
LEMMA BoxS ==
  ASSUME CommandsOK, UNCHANGED <<buffer, wire, box_byte>>,
         box' = box \/ (box = "done" /\ box' = "ready") \/ (box = "busy" /\ box' = "done")
  PROVE  CommandsOK' /\ (OnItsWay' => OnItsWay)
<1>1. buffer' = buffer /\ wire' = wire /\ box_byte' = box_byte
  OBVIOUS
<1>2. /\ InBox' => InBox
      /\ OnWire' <=> OnWire
      /\ InBuffer' <=> InBuffer
  BY <1>1 DEF InBox, OnWire, InBuffer
<1>3. wire' # NoByte => box' = "ready"
  BY <1>1 DEF CommandsOK
<1>4. CommandsOK'
  BY <1>1, <1>2, <1>3 DEF CommandsOK
<1>5. QED
  BY <1>2, <1>4 DEF OnItsWay

\* UART1 takes a byte from the wire to the box, and the box gets ready.
LEMMA WireS ==
  ASSUME SInv, Wire
  PROVE  SInv'
<1>1. CommandsOK
  BY DEF SInv
<1>2. CommandsOK' /\ (OnItsWay' => OnItsWay)
  <2>1. CASE Transmitted
    BY <1>1, <2>1, TransmittedS
  <2>2. CASE ClearToSend
    <3>1. UNCHANGED <<buffer, wire, box_byte>> /\ box = "done" /\ box' = "ready"
      BY <2>2 DEF ClearToSend
    <3>2. QED
      BY <1>1, <3>1, BoxS
  <2>3. QED
    BY <2>1, <2>2 DEF Wire
<1>3. UNCHANGED <<loopVars, boxVars, line, rx_notifier, rx_byte>> /\ UNCHANGED <<inbox, worker>>
  BY DEF Wire, Transmitted, ClearToSend, rxVars, trackVars, workerVars, serverVars, loopVars, boxVars
<1>4. MessagesOK'
  BY <1>3, MessagesUnchanged DEF SInv
<1>5. QED
  BY <1>2, <1>3, <1>4, CommandsMove

\* The transmit notifier's messages and interrupts.
LEMMA TransmitS ==
  ASSUME IInv, SInv, Transmit
  PROVE  SInv'
<1>1. CommandsOK
  BY DEF SInv
<1>2. (CommandsOK' /\ (OnItsWay' => OnItsWay)) /\ UNCHANGED rxVars
  <2>1. CASE TxMessage
    <3>1. UNCHANGED rxVars
      BY <2>1 DEF TxMessage
    <3>2. QED
      BY <1>1, <2>1, <3>1, TxMessageS
  <2>2. ASSUME NEW late \in BOOLEAN, HandleTransmit(late)
        PROVE  (CommandsOK' /\ (OnItsWay' => OnItsWay)) /\ UNCHANGED rxVars
    <3>1. /\ UNCHANGED <<buffer, wire, box_byte>> /\ UNCHANGED rxVars
          /\ late => box = "done"
          /\ box' = IF late THEN "ready" ELSE box
      BY <2>2, Zenon DEF HandleTransmit
    <3>2. QED
      BY <1>1, <3>1, BoxS
  <2>3. QED
    BY <2>1, <2>2 DEF Transmit
<1>3. UNCHANGED <<loopVars, boxVars, line, rx_notifier, rx_byte>> /\ UNCHANGED <<inbox, worker>>
  BY <1>2 DEF Transmit, rxVars, trackVars, workerVars, serverVars, loopVars, boxVars
<1>4. MessagesOK'
  BY <1>3, MessagesUnchanged DEF SInv
<1>5. QED
  BY <1>2, <1>3, <1>4, CommandsMove

\* The box obeys: the command to read was on its way, and has not been answered; now
\* the whole answer is on the line.
LEMMA ObeyS ==
  ASSUME IInv, SInv, Obey
  PROVE  SInv'
<1>1. /\ box = "busy" /\ box' = "done" /\ box_byte' = NoByte
      /\ UNCHANGED <<buffer, wire>>
      /\ UNCHANGED <<worker, pausing, request, getc, bytes, inbox, rx_notifier, rx_byte, sensor_table>>
  BY DEF Obey, workerVars, serverVars
<1>2. CommandsOK' /\ (OnItsWay' => OnItsWay) /\ ~InBox'
  <2>1. buffer' = buffer /\ wire' = wire
    BY <1>1
  <2>2. ~InBox'
    BY <1>1 DEF InBox
  <2>3. (OnWire' <=> OnWire) /\ (InBuffer' <=> InBuffer)
    BY <2>1 DEF OnWire, InBuffer
  <2>4. wire = NoByte
    BY <1>1 DEF SInv, CommandsOK
  <2>5. CommandsOK'
    BY <2>1, <2>2, <2>3, <2>4 DEF SInv, CommandsOK
  <2>6. QED
    BY <2>2, <2>3, <2>5 DEF OnItsWay
<1>3. CASE box_byte # TRAIN_READ_SENSORS
  <2>1. UNCHANGED <<line, latched, news, tripped>>
    BY <1>3 DEF Obey
  <2>2. UNCHANGED <<loopVars, boxVars, line, rx_notifier, rx_byte>>
    BY <1>1, <2>1 DEF loopVars, boxVars
  <2>3. MessagesOK'
    BY <1>1, MessagesUnchanged DEF SInv
  <2>4. QED
    BY <1>2, <2>2, <2>3, CommandsMove
<1>4. CASE box_byte = TRAIN_READ_SENSORS
  <2>1. /\ line' = line \o Answer(latched) /\ latched' \subseteq latched
        /\ news' = tripped /\ tripped' = {}
    BY <1>4 DEF Obey
  <2>2. InBox /\ OnItsWay
    BY <1>1, <1>4 DEF InBox, OnItsWay
  <2>3. Asked /\ Unread /\ Silent
    BY <2>2, Zenon DEF SInv, ReadingsOK
  <2>4. ~OnItsWay'
    <3>1. buffer' = << >> /\ wire' = NoByte
      BY <1>1, <2>2 DEF SInv, CommandsOK
    <3>2. QED
      BY <1>2, <3>1 DEF OnItsWay, InBuffer, OnWire
  <2>5. Asked' /\ worker' = worker
    BY <1>1, <2>3, AskedUnchanged
  <2>6. LoopOK' /\ MessagesOK'
    BY <1>1, Zenon DEF SInv, LoopOK, MessagesOK
  <2>7. line' = Answer(latched)
    <3>1. Answer(latched) \in Seq(Byte) /\ line = << >>
      BY <2>3, AnswerOK DEF Silent
    <3>2. QED
      BY <2>1, <3>1
  <2>8. PICK on : on = latched
    OBVIOUS
  <2>9. RowOK(on)'
    <3>1. bytes' = << >> /\ rx_notifier' # "sent"
      BY <1>1, <2>3 DEF Silent
    <3>2. Increasing(line') /\ Tells(line', on)
      BY <2>7, <2>8, AnswerInOrder
    <3>3. QED
      BY <3>1, <3>2 DEF RowOK, Increasing, Tells, Before
  <2>10. Fresh(on)'
    <3>1. sensor_table' = sensor_table
      BY <1>1
    <3>2. QED
      BY <2>1, <2>3, <2>8, <3>1 DEF Fresh, Unread
  <2>11. Answered'
    <3>1. on \in SUBSET Sensors
      BY <2>8 DEF IInv, WorkerOK
    <3>2. QED
      BY <2>9, <2>10, <3>1, Zenon DEF Answered
  <2>12. ReadingsOK'
    BY <2>4, <2>5, <2>11, Zenon DEF ReadingsOK
  <2>13. QED
    BY <1>2, <2>6, <2>12, Zenon DEF SInv
<1>5. QED
  BY <1>3, <1>4

\* A train runs onto a sensor: the box remembers it, and the history too.
LEMMA TripS ==
  ASSUME SInv, NEW s \in Sensors, Trip(s)
  PROVE  SInv'
<1>1. /\ latched' = latched \cup {s} /\ tripped' = tripped \cup ({s} \ {FirstSensor})
      /\ UNCHANGED <<worker, pausing, request, getc, bytes, inbox>>
      /\ UNCHANGED <<line, rx_notifier, rx_byte, sensor_table, news>>
      /\ UNCHANGED <<buffer, wire, box, box_byte>>
  BY DEF Trip, uartVars, txVars, rxVars, workerVars, serverVars
<1>2. CommandsOK' /\ (OnItsWay' <=> OnItsWay) /\ LoopOK' /\ MessagesOK'
  BY <1>1, Zenon DEF SInv, CommandsOK, OnItsWay, InBuffer, OnWire, InBox, LoopOK, MessagesOK
<1>3. \A x \in Known : (x \in latched <=> x \in tripped) => (x \in latched' <=> x \in tripped')
  BY <1>1 DEF Known
<1>4. Unread => Unread'
  BY <1>1, <1>3 DEF Unread
<1>5. Silent' <=> Silent
  BY <1>1 DEF Silent
<1>6. \A on : (RowOK(on) => RowOK(on)') /\ (Fresh(on) => Fresh(on)')
  <2>1. \A on : RowOK(on) => RowOK(on)'
    BY <1>1, Zenon DEF RowOK
  <2>2. \A on : Fresh(on) => Fresh(on)'
    BY <1>1, <1>3 DEF Fresh
  <2>3. QED
    BY <2>1, <2>2
<1>7. Answered => Answered'
  BY <1>6, Zenon DEF Answered
<1>8. (Asked' <=> Asked) /\ worker' = worker
  BY <1>1, AskedUnchanged
<1>9. ReadingsOK'
  BY <1>2, <1>4, <1>5, <1>7, <1>8, Zenon DEF SInv, ReadingsOK
<1>10. QED
  BY <1>2, <1>9, Zenon DEF SInv

-----------------------------------------------------------------------------
(* The bytes that come in.                                                 *)

\* Getc is asked for.
LEMMA GetcReceivedS ==
  ASSUME IInv, SInv, GetcReceived
  PROVE  SInv'
<1>1. PICK t \in Getters : GetcMessage(t)
  BY DEF GetcReceived
<1>2. /\ UNCHANGED <<txVars, boxVars, request, pausing>> /\ UNCHANGED <<inbox, worker, bytes, line, rx_byte>>
      /\ request' = request /\ pausing' = pausing
      /\ rx_notifier' = rx_notifier \/ rx_notifier' = "awaiting"
      /\ getc[t] = "sent" /\ getc' = [getc EXCEPT ![t] = "waiting"]
  BY <1>1 DEF GetcReceived, GetcMessage, trackVars, workerVars, serverVars, boxVars
<1>3. getc'[Worker] # "no" => getc[Worker] # "no"
  BY <1>2, SizesOK DEF IInv, RxOK
<1>4. LoopOK'
  BY <1>2, <1>3, LoopKept DEF SInv
<1>5. MessagesOK'
  BY <1>2, MessagesUnchanged DEF SInv
<1>6. Silent => Silent'
  BY <1>2 DEF Silent
<1>7. \A on : RowOK(on) => RowOK(on)'
  BY <1>2 DEF RowOK
<1>8. QED
  BY <1>2, <1>4, <1>5, <1>6, <1>7, RowMoves

\* A byte comes in, or is lost.
LEMMA ByteArrivesS ==
  ASSUME IInv, SInv, ByteArrives
  PROVE  SInv'
<1>1. /\ UNCHANGED <<txVars, boxVars, request, pausing>> /\ UNCHANGED <<inbox, worker, bytes, getc>>
      /\ request' = request /\ pausing' = pausing
      /\ line # << >> /\ line' = Tail(line)
      /\ \/ rx_notifier' = "sent" /\ rx_byte' = Head(line) /\ rx_notifier = "awaiting"
         \/ rx_notifier' = rx_notifier /\ rx_byte' = rx_byte
  BY DEF ByteArrives, HandleReceive, trackVars, serverVars, boxVars
<1>2. LoopOK'
  BY <1>1, LoopKept DEF SInv
<1>3. MessagesOK'
  BY <1>1, MessagesUnchanged DEF SInv
<1>4. ~Silent
  BY <1>1 DEF Silent
<1>5. ASSUME NEW on, RowOK(on) PROVE RowOK(on)'
  <2>1. line \in Seq(Byte) /\ line # << >> /\ Increasing(line) /\ Tells(line, on) /\ Before(bytes, line)
    BY <1>1, <1>5 DEF IInv, RxOK, RowOK
  <2>2. /\ Increasing(line') /\ Tells(line', on)
        /\ Head(line).on = (Head(line).sensor \in on)
        /\ AllAfter(line', Head(line))
        /\ \A byte : AllAfter(line, byte) => AllAfter(line', byte)
        /\ Before(bytes, line') /\ AllBefore(bytes, Head(line))
    BY <1>1, <2>1, RowShortened
  <2>3. Increasing(bytes) /\ Tells(bytes, on) /\ bytes' = bytes
    BY <1>1, <1>5 DEF RowOK
  <2>4. rx_notifier' = "sent" =>
          /\ rx_byte'.on = (rx_byte'.sensor \in on)
          /\ AllBefore(bytes, rx_byte') /\ AllAfter(line', rx_byte')
    <3>1. CASE rx_notifier' = "sent" /\ rx_byte' = Head(line)
      BY <2>2, <3>1
    <3>2. CASE rx_notifier' = rx_notifier /\ rx_byte' = rx_byte
      BY <1>5, <2>2, <3>2 DEF RowOK
    <3>3. QED
      BY <1>1, <3>1, <3>2
  <2>5. QED
    BY <2>2, <2>3, <2>4 DEF RowOK
<1>6. QED
  BY <1>1, <1>2, <1>3, <1>4, <1>5, RowMoves

\* It is handed to those in Getc, or kept.
LEMMA ByteReceivedS ==
  ASSUME IInv, SInv, ByteReceived
  PROVE  SInv'
<1> DEFINE full  == Worker \in Getting /\ Len(bytes) + 1 = NumSensors
           again == (IF full THEN {} ELSE {Worker})
                       \cup (IF worker = "drain" THEN {Helper} ELSE {})
<1>1. /\ rx_notifier = "sent" /\ rx_notifier' = "held" /\ line' = line
      /\ getc' = [t \in Getters |->
                    IF t \notin Getting THEN getc[t] ELSE IF t \in again THEN "sent" ELSE "no"]
      /\ bytes' = IF Worker \in Getting THEN Append(bytes, rx_byte) ELSE bytes
      /\ worker' = IF full THEN "report" ELSE worker
      /\ inbox' = IF full THEN Append(inbox, Worker) ELSE inbox
      /\ UNCHANGED <<txVars, boxVars, request, pausing>>
      /\ request' = request /\ pausing' = pausing
  BY DEF ByteReceived, RxMessage, trackVars, serverVars, boxVars
<1>2. /\ Worker \in Getting => worker = "getc"
      /\ getc[Worker] # "no" => worker = "getc"
      /\ Worker \in Getting => getc[Worker] # "no"
      /\ Worker \in Getters
  BY SizesOK DEF SInv, LoopOK, Getting
<1>3. bytes \in Seq(Byte) /\ rx_byte \in Byte /\ Len(bytes) \in Nat
  BY <1>1 DEF IInv, RxOK
<1>4. /\ getc'[Worker] # "no" => getc[Worker] # "no"
      /\ full => getc'[Worker] = "no"
  <2>1. getc'[Worker] = IF Worker \notin Getting THEN getc[Worker]
                        ELSE IF Worker \in again THEN "sent" ELSE "no"
    BY <1>1, <1>2
  <2>2. full => Worker \notin again
    BY SizesOK
  <2>3. QED
    BY <1>2, <2>1, <2>2
<1>5. full => Len(bytes') = NumSensors
  BY <1>1, <1>3
<1> HIDE DEF full, again
<1>6. full => Worker \in Getting
  BY DEF full
<1>7. LoopOK'
  <2>1. CASE full
    <3>1. worker' = "report" /\ worker = "getc" /\ getc'[Worker] = "no" /\ Len(bytes') = NumSensors
      BY <1>1, <1>2, <1>4, <1>5, <1>6, <2>1
    <3>2. request' = NoRequest /\ ~pausing'
      BY <1>1, <3>1 DEF SInv, LoopOK
    <3>3. QED
      BY <3>1, <3>2 DEF LoopOK
  <2>2. CASE ~full
    <3>1. worker' = worker /\ (getc'[Worker] # "no" => worker = "getc")
      BY <1>1, <1>2, <1>4, <2>2
    <3>2. worker # "getc" => bytes' = bytes
      BY <1>1, <1>2
    <3>3. QED
      BY <1>1, <1>4, <3>1, <3>2, LoopKept DEF SInv
  <2>3. QED
    BY <2>1, <2>2
<1>8. MessagesOK'
  <2>1. CASE full
    <3>1. worker' = "report" /\ worker = "getc" /\ inbox' = Append(inbox, Worker)
      BY <1>1, <1>2, <1>6, <2>1
    <3>2. \A i \in DOMAIN inbox : inbox[i] # Worker
      BY <3>1 DEF SInv, MessagesOK
    <3>3. inbox \in Seq(Couriers \cup {Worker})
      BY DEF IInv, CouriersOK
    <3>4. \A i \in DOMAIN inbox' : inbox'[i] = Worker => i = Len(inbox) + 1
      BY <3>1, <3>2, <3>3
    <3>5. QED
      BY <3>1, <3>4 DEF MessagesOK
  <2>2. CASE ~full
    BY <1>1, <2>2, MessagesUnchanged DEF SInv
  <2>3. QED
    BY <2>1, <2>2
<1>9. ~Silent
  BY <1>1 DEF Silent
<1>10. ASSUME NEW on, RowOK(on) PROVE RowOK(on)'
  <2>1. /\ Increasing(bytes) /\ Tells(bytes, on) /\ Before(bytes, line) /\ AllBefore(bytes, rx_byte)
        /\ AllAfter(line, rx_byte) /\ rx_byte.on = (rx_byte.sensor \in on)
        /\ Increasing(line) /\ Tells(line, on)
    BY <1>1, <1>10 DEF RowOK
  <2>2. Increasing(bytes') /\ Tells(bytes', on) /\ Before(bytes', line)
    <3>1. /\ Increasing(Append(bytes, rx_byte)) /\ Tells(Append(bytes, rx_byte), on)
          /\ Before(Append(bytes, rx_byte), line)
      BY <1>3, <2>1, RowLengthened
    <3>2. QED
      BY <1>1, <2>1, <3>1
  <2>3. QED
    BY <1>1, <2>1, <2>2 DEF RowOK
<1>11. worker' = worker \/ (worker = "getc" /\ worker' = "report" /\ ~Silent)
  BY <1>1, <1>2, <1>6, <1>9
<1>12. QED
  BY <1>1, <1>7, <1>8, <1>9, <1>10, <1>11, RowMoves

-----------------------------------------------------------------------------
(* The worker's loop.                                                      *)

\* The line is silent: the worker begins to ask.
LEMMA DrainedS ==
  ASSUME SInv, Drained
  PROVE  SInv'
<1>1. /\ worker = "drain" /\ worker' = "ask" /\ line = << >> /\ rx_notifier # "sent"
      /\ UNCHANGED <<bytes, pausing, request, inbox>>
      /\ UNCHANGED <<line, rx_notifier, rx_byte, getc>>
      /\ UNCHANGED <<buffer, wire, box, box_byte>>
      /\ UNCHANGED <<latched, tripped, news, sensor_table>>
  BY DEF Drained, uartVars, txVars, rxVars, trackVars, serverVars
<1>2. CommandsOK' /\ (OnItsWay' <=> OnItsWay)
  BY <1>1, Zenon DEF SInv, CommandsOK, OnItsWay, InBuffer, OnWire, InBox
<1>3. request = NoRequest /\ ~pausing /\ bytes = << >> /\ getc[Worker] = "no"
  BY <1>1 DEF SInv, LoopOK
<1>4. LoopOK'
  BY <1>1, <1>3 DEF LoopOK
<1>5. MessagesOK'
  BY <1>1 DEF SInv, MessagesOK
<1>6. ~Asked /\ ~OnItsWay /\ Unread
  BY <1>1, <1>3 DEF SInv, ReadingsOK, Asked
<1>7. Unread' /\ Silent' /\ ~Asked'
  BY <1>1, <1>3, <1>6 DEF Unread, Silent, Asked
<1>8. ReadingsOK'
  BY <1>1, <1>2, <1>6, <1>7, Zenon DEF ReadingsOK
<1>9. QED
  BY <1>2, <1>4, <1>5, <1>8 DEF SInv

\* It asks the box to forget.
LEMMA ResetSensorsS ==
  ASSUME SInv, ResetSensors
  PROVE  SInv'
<1>1. /\ worker = "ask" /\ worker' = "reset" /\ request'.command = TRAIN_RESET_SENSORS
      /\ UNCHANGED <<bytes, pausing, inbox>>
      /\ UNCHANGED <<line, rx_notifier, rx_byte, getc>>
      /\ UNCHANGED <<buffer, wire, box, box_byte>>
      /\ UNCHANGED <<latched, tripped, news, sensor_table>>
  BY DEF ResetSensors, uartVars, txVars, rxVars, trackVars, serverVars
<1>2. CommandsOK' /\ (OnItsWay' <=> OnItsWay)
  BY <1>1, Zenon DEF SInv, CommandsOK, OnItsWay, InBuffer, OnWire, InBox
<1>3. ~pausing /\ bytes = << >> /\ getc[Worker] = "no"
  BY <1>1 DEF SInv, LoopOK
<1>4. LoopOK'
  BY <1>1, <1>3 DEF LoopOK
<1>5. MessagesOK'
  BY <1>1 DEF SInv, MessagesOK
<1>6. ~Asked /\ ~OnItsWay /\ Unread /\ Silent
  BY <1>1, <1>3 DEF SInv, ReadingsOK, Asked
<1>7. Unread' /\ Silent' /\ ~Asked'
  BY <1>1, <1>3, <1>6 DEF Unread, Silent, Asked
<1>8. ReadingsOK'
  BY <1>1, <1>2, <1>6, <1>7, Zenon DEF ReadingsOK
<1>9. QED
  BY <1>2, <1>4, <1>5, <1>8 DEF SInv

\* A command is put behind others, none of which is to read.
LEMMA PutS ==
  ASSUME IInv, CommandsOK, ~OnItsWay, NEW byte \in {TRAIN_READ_SENSORS, TRAIN_RESET_SENSORS},
         buffer' = Append(buffer, byte), UNCHANGED <<wire, box, box_byte>>
  PROVE  CommandsOK' /\ (byte # TRAIN_READ_SENSORS => ~OnItsWay')
<1>1. /\ wire' = wire /\ box' = box /\ box_byte' = box_byte
      /\ \A i \in DOMAIN buffer' : \/ i \in DOMAIN buffer /\ buffer'[i] = buffer[i]
                                   \/ i = Len(buffer') /\ buffer'[i] = byte
  BY DEF IInv, TxOK, NotifierOK
<1>2. ~OnWire' /\ ~InBox'
  BY <1>1 DEF OnItsWay, OnWire, InBox
<1>3. \A i \in DOMAIN buffer : buffer[i] # TRAIN_READ_SENSORS
  BY DEF OnItsWay, InBuffer
<1>4. CommandsOK'
  <2>1. \A i \in DOMAIN buffer' : buffer'[i] = TRAIN_READ_SENSORS => i = Len(buffer')
    BY <1>1, <1>3
  <2>2. wire' # NoByte => box' = "ready"
    BY <1>1 DEF CommandsOK
  <2>3. QED
    BY <1>2, <2>1, <2>2 DEF CommandsOK
<1>5. byte # TRAIN_READ_SENSORS => ~InBuffer'
  BY <1>1, <1>3 DEF InBuffer
<1>6. QED
  BY <1>2, <1>4, <1>5 DEF OnItsWay

\* The train command server puts the command into the transmit buffer.
LEMMA TrainCommandS ==
  ASSUME IInv, SInv, TrainCommand
  PROVE  SInv'
<1>1. /\ ~pausing /\ request # NoRequest /\ pausing' = TRUE
      /\ UNCHANGED <<worker, request, bytes, inbox>>
      /\ UNCHANGED <<line, rx_notifier, rx_byte, getc>>
      /\ UNCHANGED <<latched, tripped, news, sensor_table>>
  BY DEF TrainCommand, rxVars, trackVars, workerVars, serverVars
<1>2. \/ UNCHANGED <<buffer, wire, box, box_byte>> /\ ~Accepted(request)
      \/ buffer' = Append(buffer, request.command) /\ UNCHANGED <<wire, box, box_byte>>
  BY DEF TrainCommand, PutcMessage, txVars
<1>3. worker \in {"reset", "read"}
  BY <1>1 DEF IInv, WorkerOK, SInv, LoopOK
<1>4. ~Asked /\ ~OnItsWay /\ Unread /\ Silent /\ CommandsOK
  BY <1>1, <1>3 DEF SInv, ReadingsOK, Asked
<1>5. Unread' /\ Silent'
  BY <1>1, <1>4 DEF Unread, Silent
<1>6. LoopOK'
  BY <1>1, <1>3 DEF SInv, LoopOK
<1>7. MessagesOK'
  BY <1>1, MessagesUnchanged DEF SInv
<1>8. CASE worker = "reset"
  <2>1. request.command = TRAIN_RESET_SENSORS
    BY <1>8 DEF SInv, LoopOK
  <2>2. CommandsOK' /\ ~OnItsWay'
    <3>1. CASE UNCHANGED <<buffer, wire, box, box_byte>>
      BY <1>4, <3>1, Zenon DEF CommandsOK, OnItsWay, InBuffer, OnWire, InBox
    <3>2. CASE buffer' = Append(buffer, request.command) /\ UNCHANGED <<wire, box, box_byte>>
      BY <1>4, <2>1, <3>2, PutS DEF TRAIN_RESET_SENSORS, TRAIN_READ_SENSORS
    <3>3. QED
      BY <1>2, <3>1, <3>2
  <2>3. ~Asked' /\ worker' = "reset"
    BY <1>1, <1>8 DEF Asked
  <2>4. ReadingsOK'
    BY <1>5, <2>2, <2>3, Zenon DEF ReadingsOK
  <2>5. QED
    BY <1>6, <1>7, <2>2, <2>4 DEF SInv
<1>9. CASE worker = "read"
  <2>1. request = [command |-> TRAIN_READ_SENSORS, data1 |-> NUM_SENSOR_MODULES]
    BY <1>9 DEF SInv, LoopOK
  <2>2. request.command = TRAIN_READ_SENSORS /\ Accepted(request)
    BY <2>1 DEF Accepted, NUM_SENSOR_MODULES
  <2>3. CommandsOK'
    BY <1>2, <1>4, <2>2, PutS
  <2>4. Asked' /\ worker' = "read" /\ OnItsWay'
    <3>1. worker' = "read" /\ Asked'
      BY <1>1, <1>9 DEF Asked
    <3>2. buffer' = Append(buffer, TRAIN_READ_SENSORS)
      BY <1>2, <2>2
    <3>3. Len(buffer) + 1 \in DOMAIN buffer' /\ buffer'[Len(buffer) + 1] = TRAIN_READ_SENSORS
      BY <3>2 DEF IInv, TxOK, NotifierOK
    <3>4. InBuffer'
      BY <3>3 DEF InBuffer
    <3>5. QED
      BY <3>1, <3>4 DEF OnItsWay
  <2>5. ReadingsOK'
    BY <1>5, <2>4, Zenon DEF ReadingsOK
  <2>6. QED
    BY <1>6, <1>7, <2>3, <2>5 DEF SInv
<1>10. QED
  BY <1>3, <1>8, <1>9

\* It replies; before the worker is in Getc, its command may have been obeyed.
LEMMA PauseOverS ==
  ASSUME IInv, SInv, PauseOver
  PROVE  SInv'
<1>1. /\ pausing /\ pausing' = FALSE
      /\ UNCHANGED <<line, rx_notifier, rx_byte, inbox>>
      /\ UNCHANGED <<buffer, wire, box, box_byte>>
      /\ UNCHANGED <<latched, tripped, news, sensor_table>>
  BY DEF PauseOver, txVars, trackVars, serverVars
<1>2. CommandsOK' /\ (OnItsWay' <=> OnItsWay)
  BY <1>1, Zenon DEF SInv, CommandsOK, OnItsWay, InBuffer, OnWire, InBox
<1>3. worker \in {"reset", "read"}
  BY <1>1 DEF IInv, WorkerOK, SInv, LoopOK
<1>4. bytes = << >> /\ getc[Worker] = "no"
  BY <1>3 DEF SInv, LoopOK
<1>5. \A i \in DOMAIN inbox : inbox[i] # Worker
  BY <1>3 DEF SInv, MessagesOK
<1>6. MessagesOK'
  BY <1>1, <1>5 DEF MessagesOK
<1>7. bytes' = << >>
  BY <1>4 DEF PauseOver
<1>8. Silent' <=> Silent
  BY <1>1, <1>4, <1>7 DEF Silent
<1>9. Unread' <=> Unread
  BY <1>1 DEF Unread
<1>10. CASE worker = "reset"
  <2>1. /\ worker' = "read" /\ getc' = getc
        /\ request' = [command |-> TRAIN_READ_SENSORS, data1 |-> NUM_SENSOR_MODULES]
    BY <1>10 DEF PauseOver
  <2>2. LoopOK'
    BY <1>1, <1>4, <1>7, <2>1 DEF LoopOK
  <2>3. ~Asked /\ ~OnItsWay /\ Unread /\ Silent
    BY <1>10 DEF SInv, ReadingsOK, Asked
  <2>4. ~Asked' /\ worker' # "report"
    BY <1>1, <2>1 DEF Asked
  <2>5. ReadingsOK'
    BY <1>2, <1>8, <1>9, <2>3, <2>4, Zenon DEF ReadingsOK
  <2>6. QED
    BY <1>2, <1>6, <2>2, <2>5 DEF SInv
<1>11. CASE worker = "read"
  <2>1. worker' = "getc" /\ request' = NoRequest
    BY <1>11 DEF PauseOver
  <2>2. LoopOK'
    BY <1>1, <2>1 DEF LoopOK
  <2>3. Asked /\ Asked'
    BY <1>1, <1>11, <2>1 DEF Asked
  <2>4. \A on : (RowOK(on) => RowOK(on)') /\ (Fresh(on) => Fresh(on)')
    BY <1>1, <1>4, <1>7, Zenon DEF RowOK, Fresh
  <2>5. Answered => Answered'
    BY <2>4, Zenon DEF Answered
  <2>6. ReadingsOK'
    BY <1>2, <1>8, <1>9, <2>1, <2>3, <2>5, Zenon DEF SInv, ReadingsOK
  <2>7. QED
    BY <1>2, <1>6, <2>2, <2>6 DEF SInv
<1>12. QED
  BY <1>3, <1>10, <1>11

-----------------------------------------------------------------------------
(* The server.                                                             *)

\* What the worker reports is the whole answer, and nothing is left of it.
LEMMA Reported ==
  ASSUME IInv, SInv, Received(Worker)
  PROVE  /\ worker = "report" /\ ~OnItsWay /\ line = << >> /\ rx_notifier # "sent"
         /\ \E on \in SUBSET Sensors : Fresh(on) /\ \A s \in Sensors : bytes[s].on = (s \in on)
<1>1. 1 \in DOMAIN inbox /\ inbox[1] = Worker
  BY Taken DEF IInv
<1>2. worker = "report"
  BY <1>1 DEF SInv, MessagesOK
<1>3. ~Asked /\ ~OnItsWay /\ Answered /\ Len(bytes) = NumSensors
  BY <1>2 DEF SInv, ReadingsOK, LoopOK, Asked
<1>4. PICK on \in SUBSET Sensors : RowOK(on) /\ Fresh(on)
  BY <1>3, Zenon DEF Answered
<1>5. bytes \in Seq(Byte) /\ line \in Seq(Byte) /\ (rx_notifier = "sent" => rx_byte \in Byte)
  BY DEF IInv, RxOK
<1>6. Increasing(bytes) /\ Tells(bytes, on) /\ Before(bytes, line) /\ (rx_notifier = "sent" => AllBefore(bytes, rx_byte))
  BY <1>4 DEF RowOK
<1>7. DOMAIN bytes = Sensors /\ \A i \in Sensors : bytes[i].sensor = i
  BY <1>3, <1>5, <1>6, WholeAnswer
<1>8. NumSensors \in Sensors /\ bytes[NumSensors].sensor = NumSensors
  BY <1>7, SizesOK DEF Sensors
<1>9. \A b \in Byte : ~(NumSensors < b.sensor)
  <2>1. \A b \in Byte : b.sensor \in 1 .. NumSensors
    BY DEF Byte, Sensors
  <2>2. QED
    BY <2>1, SizesOK
<1>10. line = << >>
  <2>1. SUFFICES ASSUME line # << >> PROVE FALSE
    OBVIOUS
  <2>2. 1 \in DOMAIN line /\ line[1] \in Byte
    BY <1>5, <2>1
  <2>3. NumSensors < line[1].sensor
    BY <1>6, <1>7, <1>8, <2>2 DEF Before
  <2>4. QED
    BY <1>9, <2>2, <2>3
<1>11. rx_notifier # "sent"
  BY <1>5, <1>6, <1>7, <1>8, <1>9 DEF AllBefore
<1>12. \A s \in Sensors : bytes[s].on = (s \in on)
  BY <1>6, <1>7 DEF Tells
<1>13. QED
  BY <1>2, <1>3, <1>4, <1>10, <1>11, <1>12

\* The table takes over the row, and the worker begins anew.
LEMMA WorkerMessageS ==
  ASSUME IInv, SInv, WorkerMessage
  PROVE  SInv'
<1>1. /\ Received(Worker) /\ worker' = "ask" /\ bytes' = << >>
      /\ sensor_table' = [s \in Sensors |-> IF s = FirstSensor THEN "unknown"
                                            ELSE IF bytes[s].on THEN "on" ELSE "off"]
      /\ UNCHANGED <<line, rx_notifier, rx_byte, getc>>
      /\ UNCHANGED <<buffer, wire, box, box_byte>>
      /\ UNCHANGED <<latched, tripped, news, request, pausing>>
  BY DEF WorkerMessage, uartVars, txVars, rxVars, trackVars
<1>2. worker = "report" /\ ~OnItsWay /\ line = << >> /\ rx_notifier # "sent"
  BY <1>1, Reported
<1>3. PICK on \in SUBSET Sensors : Fresh(on) /\ \A s \in Sensors : bytes[s].on = (s \in on)
  BY <1>1, Reported
<1>4. CommandsOK' /\ (OnItsWay' <=> OnItsWay)
  BY <1>1, Zenon DEF SInv, CommandsOK, OnItsWay, InBuffer, OnWire, InBox
<1>5. request = NoRequest /\ ~pausing /\ getc[Worker] = "no"
  BY <1>2 DEF SInv, LoopOK
<1>6. LoopOK'
  BY <1>1, <1>5 DEF LoopOK
<1>7. MessagesOK'
  <2>1. \A i \in DOMAIN inbox' : inbox'[i] # Worker
    <3>1. TAKE i \in DOMAIN inbox'
    <3>2. /\ i + 1 \in DOMAIN inbox /\ inbox'[i] = inbox[i + 1] /\ i \in Nat \ {0}
          /\ 1 \in DOMAIN inbox /\ inbox[1] = Worker
      BY <1>1, Taken DEF IInv
    <3>3. i + 1 # 1
      BY <3>2
    <3>4. QED
      BY <3>2, <3>3 DEF SInv, MessagesOK
  <2>2. QED
    BY <2>1 DEF MessagesOK
<1>8. Unread'
  <2>1. \A s \in Known : sensor_table'[s] = "off" => s \notin on
    BY <1>1, <1>3 DEF Known
  <2>2. QED
    BY <1>1, <1>3, <2>1 DEF Fresh, Unread
<1>9. Silent' /\ ~Asked'
  BY <1>1, <1>2, <1>5 DEF Silent, Asked
<1>10. ReadingsOK'
  BY <1>1, <1>2, <1>4, <1>8, <1>9, Zenon DEF ReadingsOK
<1>11. QED
  BY <1>4, <1>6, <1>7, <1>10 DEF SInv

\* A courier's message is none of the worker's.
LEMMA CouriersS ==
  ASSUME IInv, SInv, NEW c \in Couriers, CourierMessage(c) \/ CourierReturns(c)
  PROVE  SInv'
<1>1. /\ UNCHANGED <<loopVars, boxVars, line, rx_notifier, rx_byte>>
      /\ UNCHANGED <<buffer, wire, box, box_byte>> /\ worker' = worker
      /\ Received(c) \/ inbox' = Append(inbox, c)
  BY DEF CourierMessage, CourierReturns, uartVars, txVars, rxVars, trackVars, workerVars,
         loopVars, boxVars
<1>2. CommandsOK' /\ (OnItsWay' => OnItsWay)
  BY <1>1, Zenon DEF SInv, CommandsOK, OnItsWay, InBuffer, OnWire, InBox
<1>3. MessagesOK'
  <2>1. CASE Received(c)
    <3>1. \A i \in DOMAIN inbox' : i + 1 \in DOMAIN inbox /\ inbox'[i] = inbox[i + 1] /\ i \in Nat \ {0}
      BY <2>1, Taken DEF IInv
    <3>2. ASSUME NEW i \in DOMAIN inbox', NEW j \in DOMAIN inbox',
                 inbox'[i] = Worker, inbox'[j] = Worker
          PROVE  i = j
      <4>1. i + 1 = j + 1
        BY <3>1, <3>2 DEF SInv, MessagesOK
      <4>2. QED
        BY <3>1, <4>1
    <3>3. \A i \in DOMAIN inbox' : inbox'[i] = Worker => worker' = "report"
      BY <1>1, <3>1 DEF SInv, MessagesOK
    <3>4. QED
      BY <3>2, <3>3 DEF MessagesOK
  <2>2. CASE inbox' = Append(inbox, c)
    <3>1. inbox \in Seq(Couriers \cup {Worker}) /\ c # Worker
      BY SizesOK DEF IInv, CouriersOK
    <3>2. \A i \in DOMAIN inbox' : inbox'[i] = Worker => i \in DOMAIN inbox /\ inbox[i] = Worker
      BY <2>2, <3>1
    <3>3. QED
      BY <1>1, <3>2 DEF SInv, MessagesOK
  <2>3. QED
    BY <1>1, <2>1, <2>2
<1>4. QED
  BY <1>1, <1>2, <1>3, CommandsMove

-----------------------------------------------------------------------------

\* The line may hold the end of an old answer, and the worker is in its drain.
LEMMA InitS == Init => SInv
<1> SUFFICES ASSUME Init PROVE SInv
  OBVIOUS
<1>1. /\ buffer = << >> /\ wire = NoByte /\ box = "ready" /\ worker = "drain" /\ bytes = << >>
      /\ request = NoRequest /\ pausing = FALSE /\ inbox = << >>
      /\ sensor_table = [s \in Sensors |-> "unknown"]
      /\ getc = [t \in Getters |-> IF t = Helper THEN "waiting" ELSE "no"]
  BY DEF Init, UartInit
<1>2. getc[Worker] = "no"
  BY <1>1, SizesOK
<1>3. CommandsOK /\ ~OnItsWay
  BY <1>1 DEF CommandsOK, OnItsWay, InBuffer, OnWire, InBox
<1>4. LoopOK /\ MessagesOK
  BY <1>1, <1>2 DEF LoopOK, MessagesOK
<1>5. Unread /\ ~Asked
  BY <1>1 DEF Unread, Known, Asked
<1>6. ReadingsOK
  BY <1>1, <1>3, <1>5 DEF ReadingsOK
<1>7. QED
  BY <1>3, <1>4, <1>6 DEF SInv

\* Every step keeps it.
LEMMA StepS == IInv /\ SInv /\ [Next]_vars => SInv'
<1> SUFFICES ASSUME IInv, SInv, [Next]_vars PROVE SInv'
  OBVIOUS
<1>1. CASE UNCHANGED vars
  <2>1. /\ UNCHANGED <<loopVars, boxVars, line, rx_notifier, rx_byte>>
        /\ UNCHANGED <<buffer, wire, box, box_byte>> /\ UNCHANGED <<inbox, worker>>
    BY <1>1 DEF vars, uartVars, txVars, rxVars, trackVars, workerVars, serverVars, loopVars, boxVars
  <2>2. CommandsOK' /\ (OnItsWay' => OnItsWay)
    BY <2>1, Zenon DEF SInv, CommandsOK, OnItsWay, InBuffer, OnWire, InBox
  <2>3. MessagesOK'
    BY <2>1, MessagesUnchanged DEF SInv
  <2>4. QED
    BY <2>1, <2>2, <2>3, CommandsMove
<1>2. CASE \E s \in Sensors : Trip(s)
  BY <1>2, TripS
<1>3. CASE Obey \/ Wire \/ Transmit
  BY <1>3, ObeyS, WireS, TransmitS
<1>4. CASE GetcReceived \/ ByteArrives \/ ByteReceived
  BY <1>4, GetcReceivedS, ByteArrivesS, ByteReceivedS
<1>5. CASE Asking \/ Commanding
  BY <1>5, DrainedS, ResetSensorsS, TrainCommandS, PauseOverS DEF Asking, Commanding
<1>6. CASE Server \/ \E c \in Couriers : CourierReturns(c)
  BY <1>6, WorkerMessageS, CouriersS DEF Server
<1>7. QED
  BY <1>1, <1>2, <1>3, <1>4, <1>5, <1>6 DEF Next

\* Only the worker's message takes the worker off the queue.
LEMMA WorkerTaken ==
  ASSUME IInv, [Next]_vars, inbox # << >>, Head(inbox) = Worker, inbox' = Tail(inbox)
  PROVE  WorkerMessage
<1>1. inbox \in Seq(Couriers \cup {Worker})
  BY DEF IInv, CouriersOK
<1>2. Len(inbox') # Len(inbox) /\ Len(inbox') # Len(inbox) + 1
  BY <1>1
<1>3. \A x : Len(Append(inbox, x)) = Len(inbox) + 1
  BY <1>1
<1>4. \A x : inbox' # Append(inbox, x)
  BY <1>2, <1>3
<1>5. inbox' # inbox
  BY <1>2
<1>6. ~ByteReceived
  BY <1>4, <1>5, Zenon DEF ByteReceived
<1>7. \A c \in Couriers : ~CourierReturns(c)
  BY <1>4, Zenon DEF CourierReturns
<1>8. \A c \in Couriers : ~CourierMessage(c)
  BY SizesOK DEF CourierMessage, Received
<1>9. ~UNCHANGED vars
  BY <1>5 DEF vars
<1>10. \A s \in Sensors : ~Trip(s)
  BY <1>5 DEF Trip
<1>11. ~(Obey \/ Wire \/ Transmit \/ GetcReceived)
  BY <1>5, Zenon DEF Obey, Wire, Transmit, GetcReceived
<1>12. ~(ByteArrives \/ Asking \/ Commanding)
  BY <1>5, Zenon DEF ByteArrives, Asking, Drained, ResetSensors, Commanding, TrainCommand, PauseOver
<1>13. QED
  BY <1>6, <1>7, <1>8, <1>9, <1>10, <1>11, <1>12, Zenon DEF Next, Server

\* What has been tripped are sensors.
HistoryOK == news \subseteq Sensors /\ tripped \subseteq Sensors

\* Trains trip sensors, and nothing else is added to the history.
LEMMA HistoryStep == HistoryOK /\ [Next]_vars => HistoryOK'
<1> SUFFICES ASSUME HistoryOK, [Next]_vars PROVE HistoryOK'
  OBVIOUS
<1>1. CASE UNCHANGED <<news, tripped>>
  BY <1>1 DEF HistoryOK
<1>2. CASE \E s \in Sensors : Trip(s)
  BY <1>2 DEF HistoryOK, Trip
<1>3. CASE Obey
  BY <1>3 DEF HistoryOK, Obey
<1>4. CASE Wire \/ Transmit \/ GetcReceived
  BY <1>1, <1>4, Zenon DEF Wire, Transmit, GetcReceived, trackVars
<1>5. CASE ByteArrives \/ ByteReceived
  BY <1>1, <1>5, Zenon DEF ByteArrives, ByteReceived, trackVars
<1>6. CASE Asking \/ Commanding
  BY <1>1, <1>6, Zenon DEF Asking, Drained, ResetSensors, Commanding, TrainCommand, PauseOver, trackVars
<1>7. CASE Server \/ \E c \in Couriers : CourierReturns(c)
  BY <1>1, <1>7, Zenon DEF Server, WorkerMessage, CourierMessage, CourierReturns, trackVars
<1>8. CASE UNCHANGED vars
  BY <1>1, <1>8, Zenon DEF vars, trackVars
<1>9. QED
  BY <1>2, <1>3, <1>4, <1>5, <1>6, <1>7, <1>8 DEF Next

\* The sensors tripped that the server knows to have been off.
FreshOnes == {s \in news \ {FirstSensor} : sensor_table[s] = "off"}

\* What a courier that listens is told when the worker's message is handled.
ToldFresh ==
  \A c \in Couriers : courier[c] = "listening" =>
    IF courier'[c] = "away" THEN report'[c] \ {FirstSensor} = FreshOnes
                            ELSE FreshOnes = {}

\* The row that the worker has is the whole answer; what turned on in it is what was
\* tripped.
LEMMA ReportIsTrips ==
  ASSUME IInv, SInv, HistoryOK, WorkerMessage
  PROVE  ToldFresh
<1>1. PICK row \in SUBSET Sensors : Fresh(row) /\ \A s \in Sensors : bytes[s].on = (s \in row)
  BY Reported DEF WorkerMessage
<1>2. PICK first \in SUBSET {s \in {FirstSensor} : bytes[s].on} :
        LET on == first \cup {s \in Sensors \ {FirstSensor} : TurnedOn(s)}
        IN  IF on = {}
            THEN UNCHANGED <<event_list, courier, report>>
            ELSE TellListeners(on)
  BY DEF WorkerMessage
<1> DEFINE turned == {s \in Sensors \ {FirstSensor} : TurnedOn(s)}
<1>3. turned = FreshOnes
  <2>1. \A s \in Sensors : TurnedOn(s) <=> sensor_table[s] = "off" /\ s \in row
    BY <1>1 DEF TurnedOn
  <2>2. \A s \in Sensors \ {FirstSensor} :
          sensor_table[s] = "off" => (s \in row <=> s \in news)
    BY <1>1 DEF Fresh, Known
  <2>3. news \subseteq Sensors
    BY DEF HistoryOK
  <2>4. QED
    BY <2>1, <2>2, <2>3 DEF FreshOnes
<1>4. courier \in [Couriers -> {"asking", "listening", "away"}]
  BY DEF IInv, CouriersOK
<1>5. PICK on : on = first \cup turned
  OBVIOUS
<1> HIDE DEF turned
<1>6. on \ {FirstSensor} = FreshOnes
  <2>1. FirstSensor \notin turned /\ first \subseteq {FirstSensor}
    BY DEF turned
  <2>2. QED
    BY <1>3, <1>5, <2>1
<1>7. CASE on = {}
  <2>1. courier' = courier
    BY <1>2, <1>5, <1>7 DEF turned
  <2>2. FreshOnes = {}
    BY <1>6, <1>7
  <2>3. QED
    BY <2>1, <2>2 DEF ToldFresh
<1>8. CASE on # {}
  <2>1. Tell(on)
    BY <1>2, <1>5, <1>8 DEF turned, TellListeners
  <2>2. \A c \in Couriers : courier[c] = "listening" => courier'[c] = "away" /\ report'[c] = on
    BY <2>1, <1>4 DEF Tell
  <2>3. QED
    BY <1>6, <2>2 DEF ToldFresh
<1>9. QED
  BY <1>7, <1>8

\* The command to read has nothing behind it, and what the worker has, with what is
\* still on the line, is an ordered part of one answer, in every state.
THEOREM InductiveReadings == Spec => [](IInv /\ SInv /\ HistoryOK)
<1>1. Init => IInv /\ SInv /\ HistoryOK
  BY InitOK, InitS DEF Init, HistoryOK
<1>2. IInv /\ SInv /\ HistoryOK /\ [Next]_vars => (IInv /\ SInv /\ HistoryOK)'
  BY StepOK, StepS, HistoryStep
<1>3. QED
  BY <1>1, <1>2, PTL DEF Spec

\* The couriers that listen are told of exactly the sensors that a train tripped
\* between the last two answers of the box, and that the server knows to have been
\* off before; bytes that are lost only keep the worker from reporting.
THEOREM ReportsTrue == Spec => ReportsAreTrips
<1>1. ASSUME IInv, SInv, HistoryOK, [Next]_vars
      PROVE  [ inbox # << >> /\ Head(inbox) = Worker /\ inbox' = Tail(inbox) =>
                 LET fresh == {s \in news \ {FirstSensor} : sensor_table[s] = "off"}
                 IN  \A c \in Couriers : courier[c] = "listening" =>
                       IF courier'[c] = "away" THEN report'[c] \ {FirstSensor} = fresh
                                               ELSE fresh = {} ]_vars
  BY <1>1, WorkerTaken, ReportIsTrips DEF ToldFresh, FreshOnes
<1>2. QED
  BY <1>1, InductiveReadings, PTL DEF Spec, ReportsAreTrips
=============================================================================
