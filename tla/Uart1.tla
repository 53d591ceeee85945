-------------------------------- MODULE Uart1 --------------------------------
(***************************************************************************)
(* UART1, which the train controller box is connected to: the interrupt    *)
(* handler's part for it with its two flags, the two notifiers, the UART   *)
(* server's part for COM1, and the wires (interrupts.c, tasks/uart_server.c*)
(* event_notifier.c, uart.c).  The server as a whole, with waiting clients *)
(* and full buffers, is module UartServer; here bytes have a content, and  *)
(* interrupts come only when the hardware has a reason for them.           *)
(*                                                                         *)
(* The box takes one byte at a time: CTS falls when it has received a byte *)
(* and rises when it is ready for the next.  Nothing but the handler's     *)
(* flags keeps the server from writing a byte too early.                   *)
(***************************************************************************)
EXTENDS Naturals, Sequences

CONSTANTS
  Getters,      \* the tasks that call Getc(COM1, ..)
  Capacity,     \* bytes the transmit buffer can hold: 1023
  NoByte        \* no byte

ASSUME CapacityAssumption == Capacity \in Nat \ {0}

VARIABLES
  buffer,       \* uart_tx_cb[COM1]
  tx_notifier,  \* "held" | "awaiting" | "sent": as in UartServer
  tien,         \* TIEN_MASK of UART1_CTLR, the transmit interrupt's enable
  msien,        \* MSIEN_MASK of UART1_CTLR, the modem interrupt's enable
  mis,          \* CTS has changed since the modem interrupt was cleared
  uart1_tx_flag,
  uart1_cts_flag,
  wire,         \* the byte that UART1 transmits
  box,          \* "ready" | "busy" (CTS low) | "done" (CTS about to rise)
  box_byte,     \* the byte a busy box works on
  line,         \* bytes the box has sent that have not arrived
  rx_notifier,
  rx_byte,      \* the byte in the receive notifier's message
  getc,         \* of the Getters: "no" | "sent" | "waiting"
  overrun,      \* history: a byte was written while the box was not ready
  raced         \* history: CTS rose between lines 220 and 222 of interrupts.c

txVars == <<buffer, tx_notifier, tien, msien, mis, uart1_tx_flag,
            uart1_cts_flag, wire, box, box_byte, overrun, raced>>
rxVars == <<line, rx_notifier, rx_byte, getc>>

\* With the tasks in getters waiting in Getc.
UartInit(getters) ==
  /\ buffer = << >>
  /\ tx_notifier = "held"
  /\ tien = FALSE /\ msien = FALSE
  /\ mis \in BOOLEAN
  /\ uart1_tx_flag = FALSE
  /\ uart1_cts_flag = TRUE
  /\ wire = NoByte
  /\ box = "ready" /\ box_byte = NoByte
  /\ rx_notifier = IF getters = {} THEN "held" ELSE "awaiting"
  /\ rx_byte = NoByte
  /\ getc = [t \in Getters |-> IF t \in getters THEN "waiting" ELSE "no"]
  /\ overrun = FALSE /\ raced = FALSE

-----------------------------------------------------------------------------
(* Transmitting.                                                           *)

\* A reply to the transmit notifier, which goes to AwaitEvent: that enables the
\* transmit and the modem interrupt.
AwaitTransmit ==
  /\ tx_notifier' = "awaiting"
  /\ tien' = TRUE /\ msien' = TRUE

\* The server receives a Putc and has room for the byte; a client waits for that
\* if need be.
PutcMessage(byte) ==
  /\ Len(buffer) < Capacity
  /\ buffer' = Append(buffer, byte)
  /\ IF tx_notifier = "held"
     THEN AwaitTransmit ELSE UNCHANGED <<tx_notifier, tien, msien>>
  /\ UNCHANGED <<mis, uart1_tx_flag, uart1_cts_flag, wire, box, box_byte,
                 overrun, raced>>

\* The server receives the transmit notifier's message and writes a byte.  A box
\* that is not ready does not get it.
TxMessage ==
  /\ tx_notifier = "sent"
  /\ LET early == wire # NoByte \/ box # "ready"
     IN  /\ wire' = IF early THEN wire ELSE Head(buffer)
         /\ overrun' = (overrun \/ early)
  /\ buffer' = Tail(buffer)
  /\ IF buffer' # << >>
     THEN AwaitTransmit ELSE tx_notifier' = "held" /\ UNCHANGED <<tien, msien>>
  /\ UNCHANGED <<mis, uart1_tx_flag, uart1_cts_flag, box, box_byte, raced>>
  /\ UNCHANGED rxVars

\* The byte has been transmitted: CTS falls.
Transmitted ==
  /\ wire # NoByte
  /\ wire' = NoByte
  /\ box' = "busy" /\ box_byte' = wire
  /\ mis' = TRUE
  /\ UNCHANGED <<buffer, tx_notifier, tien, msien, uart1_tx_flag,
                 uart1_cts_flag, overrun, raced>>
  /\ UNCHANGED rxVars

\* The box is ready again: CTS rises.
ClearToSend ==
  /\ box = "done"
  /\ box' = "ready"
  /\ mis' = TRUE
  /\ UNCHANGED <<buffer, tx_notifier, tien, msien, uart1_tx_flag,
                 uart1_cts_flag, wire, box_byte, overrun, raced>>
  /\ UNCHANGED rxVars

\* Defect for BytesWhenReady: any change of CTS counts.
CtsFlagAnyEdge(modem, late) == uart1_cts_flag \/ modem

\* Lines 219-224: the modem interrupt is served, and CTS is high, at least by
\* the time it is read.
CtsFlag(modem, late) == uart1_cts_flag \/ (modem /\ (box = "ready" \/ late))

\* The interrupt handler: the transmit interrupt is masked and remembered, a CTS
\* that is high is remembered, and both together wake the notifier.  late: CTS
\* rises after the modem interrupt has been cleared and before CTS is read.
HandleTransmit(late) ==
  LET modem  == msien /\ mis
      tx     == uart1_tx_flag \/ tien
      cts    == CtsFlag(modem, late)
      notify == tx /\ cts
  IN  /\ tien \/ modem
      /\ late => modem /\ box = "done"
      /\ tien' = FALSE
      /\ mis' = ((mis /\ ~modem) \/ late)
      /\ box' = IF late THEN "ready" ELSE box
      /\ raced' = (raced \/ late)
      /\ uart1_tx_flag'  = (tx /\ ~notify)
      /\ uart1_cts_flag' = (cts /\ ~notify)
      /\ tx_notifier' = IF notify /\ tx_notifier = "awaiting" THEN "sent" ELSE tx_notifier
      /\ UNCHANGED <<buffer, msien, wire, box_byte, overrun>>
      /\ UNCHANGED rxVars

-----------------------------------------------------------------------------
(* Receiving.                                                              *)

\* The receive interrupt: the handler reads the byte whoever waits for it.
HandleReceive ==
  /\ line # << >>
  /\ line' = Tail(line)
  /\ IF rx_notifier = "awaiting"
     THEN rx_notifier' = "sent" /\ rx_byte' = Head(line)
     ELSE UNCHANGED <<rx_notifier, rx_byte>>
  /\ UNCHANGED getc
  /\ UNCHANGED txVars

\* The server receives a Getc: the first to wait releases the notifier.
GetcMessage(t) ==
  /\ getc[t] = "sent"
  /\ getc' = [getc EXCEPT ![t] = "waiting"]
  /\ rx_notifier' = IF \A u \in Getters : getc[u] # "waiting"
                    THEN "awaiting" ELSE rx_notifier
  /\ UNCHANGED <<line, rx_byte>>
  /\ UNCHANGED txVars

\* Defect for ReadingsGoOn: only one of the tasks that wait gets the byte.
GettingOne ==
  LET waiting == {t \in Getters : getc[t] = "waiting"}
  IN  IF waiting = {} THEN {} ELSE {CHOOSE t \in waiting : TRUE}

\* The tasks that wait in Getc.
Getting == {t \in Getters : getc[t] = "waiting"}

\* The server receives the receive notifier's message: the byte goes to
\* everybody who waits, and the tasks in again call Getc once more.
RxMessage(again) ==
  /\ rx_notifier = "sent"
  /\ rx_notifier' = "held" /\ rx_byte' = NoByte
  /\ getc' = [t \in Getters |->
                IF t \notin Getting THEN getc[t] ELSE IF t \in again THEN "sent" ELSE "no"]
  /\ UNCHANGED line
  /\ UNCHANGED txVars

-----------------------------------------------------------------------------
(* Properties.                                                             *)

\* Types of the variables.
UartTypeOK ==
  /\ Len(buffer) <= Capacity
  /\ tx_notifier \in {"held", "awaiting", "sent"}
  /\ {tien, msien, mis, uart1_tx_flag, uart1_cts_flag, overrun, raced} \subseteq BOOLEAN
  /\ box \in {"ready", "busy", "done"}
  /\ rx_notifier \in {"held", "awaiting", "sent"}
  /\ getc \in [Getters -> {"no", "sent", "waiting"}]

\* A byte is written only when the box has taken the last and is ready for the
\* next (interrupts.c:69, "use extra interrupts for flow control"), unless CTS
\* once rose in the few instructions between the clearing of the modem interrupt
\* and the reading of CTS: then a flag is left over that lets a byte through.
BytesWhenReady == overrun => raced
=============================================================================
