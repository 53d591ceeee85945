----------------------------- MODULE UartServer -----------------------------
(***************************************************************************)
(* The UART server, its four event notifiers and its clients               *)
(* (tasks/uart_server.c, tasks/event_notifier.c, cbuf.c, list.c).          *)
(*                                                                         *)
(* The server handles one message at a time, and whatever runs meanwhile   *)
(* can only queue behind it: one action per message.  A notifier is "held" *)
(* (its message received, no reply yet), "awaiting" (replied to, in        *)
(* AwaitEvent or on its way there) or "sent" (its message is in the        *)
(* server's queue).  Bytes are abstracted to their number: what counts is  *)
(* who is blocked, who is woken and which buffer has room.                 *)
(***************************************************************************)
EXTENDS Naturals, Sequences, FiniteSets, LinkedLists

CONSTANTS
  Clients,    \* the tasks that call Getc and Putc
  Capacity,   \* bytes a transmit buffer can hold: 1023, MAX_NUM_TASKS is 40
  NumNodes    \* MAX_PUTC_QUEUE_SIZE, one node per task of the system

COM1 == 0
COM2 == 1
Channels == {COM1, COM2}
GETC == 0
PUTC == 1
Nodes == 1 .. NumNodes

NoClient  == "none"
NoRequest == [operation |-> 2, com |-> COM1]   \* of a client that runs

ASSUME CapacityAssumption == Capacity \in Nat \ {0} /\ Capacity >= Cardinality(Clients)
ASSUME NodesAssumption    == NumNodes \in Nat \ {0} /\ NumNodes >= Cardinality(Clients)

Notifiers == {"rx", "tx"} \X Channels
RxNotifier(c) == <<"rx", c>>
TxNotifier(c) == <<"tx", c>>
Client(cl)    == <<"client", cl>>

VARIABLES
  inbox,       \* the server's send queue
  client,      \* "running" | "sent" | "waiting" (received, no reply yet)
  request,     \* the client's last uart_msg: operation and channel
  notifier,    \* what each notifier is doing
  msg_com,     \* msg.com: a notifier's message does not overwrite it
  tx_notifier_awaiting,
  uart_tx_cb,  \* number of bytes in each transmit buffer
  getc_wait_list,
  putc_lists,  \* per channel: the links, the free and the wait list
  node_tid,    \* putc_node.tid
  failed       \* the AssertF that stopped the machine, or "none"

vars == <<inbox, client, request, notifier, msg_com, tx_notifier_awaiting,
          uart_tx_cb, getc_wait_list, putc_lists, node_tid, failed>>

-----------------------------------------------------------------------------
(* After start-up: the four notifiers have reported and are held.          *)

\* Lines 64-75: node 1 is the front AND the back of a free list whose links
\* run through all the nodes.
InitialLists ==
  [next |-> [n \in Nodes |-> IF n = NumNodes THEN Null ELSE n + 1],
   free |-> [front |-> 1, back |-> 1],
   wait |-> EmptyList]

Init ==
  /\ inbox    = << >>
  /\ client   = [cl \in Clients |-> "running"]
  /\ request  = [cl \in Clients |-> NoRequest]
  /\ notifier = [n \in Notifiers |-> "held"]
  /\ msg_com \in Channels
  /\ tx_notifier_awaiting = [c \in Channels |-> FALSE]
  /\ uart_tx_cb     = [c \in Channels |-> 0]
  /\ getc_wait_list = [c \in Channels |-> << >>]
  /\ putc_lists     = [c \in Channels |-> InitialLists]
  /\ node_tid       = [c \in Channels |-> [n \in Nodes |-> NoClient]]
  /\ failed = "none"

-----------------------------------------------------------------------------
(* Clients and notifiers.                                                  *)

\* Getc and Putc: Send to the server.
Call(cl, operation, c) ==
  /\ client[cl] = "running"
  /\ client'  = [client EXCEPT ![cl] = "sent"]
  /\ request' = [request EXCEPT ![cl] = [operation |-> operation, com |-> c]]
  /\ inbox'   = Append(inbox, Client(cl))
  /\ UNCHANGED <<notifier, msg_com, tx_notifier_awaiting, uart_tx_cb,
                 getc_wait_list, putc_lists, node_tid, failed>>

\* The notifier's loop: AwaitEvent returns, Send.  The interrupt handler masks
\* the transmit interrupt, AwaitEvent enables it again.  A byte received while
\* the receive notifier is elsewhere only counts as missed.
Notify(n) ==
  /\ notifier[n] = "awaiting"
  /\ notifier' = [notifier EXCEPT ![n] = "sent"]
  /\ inbox'    = Append(inbox, n)
  /\ UNCHANGED <<client, request, msg_com, tx_notifier_awaiting, uart_tx_cb,
                 getc_wait_list, putc_lists, node_tid, failed>>

-----------------------------------------------------------------------------
(* The server.                                                             *)

Received(sender) ==
  /\ inbox # << >>
  /\ Head(inbox) = sender
  /\ inbox' = Tail(inbox)

\* sys_reply to a notifier: an error unless it is held.
ReplyTo(status, n) ==
  [status EXCEPT ![n] = IF @ = "held" THEN "awaiting" ELSE @]

\* sys_reply to clients that wait.
Return(cls) ==
  /\ client'  = [cl \in Clients |-> IF cl \in cls THEN "running" ELSE client[cl]]
  /\ request' = [cl \in Clients |-> IF cl \in cls THEN NoRequest ELSE request[cl]]

\* Defect for ClientsAccounted: only the first task that waits gets the byte.
RxMessageOne(c) ==
  /\ Received(RxNotifier(c))
  /\ notifier' = [notifier EXCEPT ![RxNotifier(c)] = "held"]
  /\ Return(IF getc_wait_list[c] = << >> THEN {} ELSE {Head(getc_wait_list[c])})
  /\ getc_wait_list' = [getc_wait_list EXCEPT ![c] = << >>]
  /\ UNCHANGED <<msg_com, tx_notifier_awaiting, uart_tx_cb, putc_lists,
                 node_tid, failed>>

\* A byte for everyone who waits for one; the notifier is not replied to.
RxMessage(c) ==
  /\ Received(RxNotifier(c))
  /\ notifier' = [notifier EXCEPT ![RxNotifier(c)] = "held"]
  /\ Return({getc_wait_list[c][i] : i \in DOMAIN getc_wait_list[c]})
  /\ getc_wait_list' = [getc_wait_list EXCEPT ![c] = << >>]
  /\ UNCHANGED <<msg_com, tx_notifier_awaiting, uart_tx_cb,
                 putc_lists, node_tid, failed>>

\* Defect for PutcAnswered: the flag is set but the notifier gets no reply.
RearmTransmitSilent(c) ==
  /\ tx_notifier_awaiting' =
       [tx_notifier_awaiting EXCEPT ![c] = uart_tx_cb'[c] > 0]
  /\ notifier' = [notifier EXCEPT ![TxNotifier(c)] = "held"]

\* The end of the transmit branch: hold the notifier unless bytes are left.
RearmTransmit(c) ==
  LET held == [notifier EXCEPT ![TxNotifier(c)] = "held"]
  IN  /\ tx_notifier_awaiting' =
           [tx_notifier_awaiting EXCEPT ![c] = uart_tx_cb'[c] > 0]
      /\ notifier' = IF uart_tx_cb'[c] > 0 THEN ReplyTo(held, TxNotifier(c))
                                           ELSE held

\* One byte goes to the UART; nobody waits in Putc.
TxMessage(c) ==
  /\ Received(TxNotifier(c))
  /\ uart_tx_cb[c] > 0 => putc_lists[c].wait.front = Null
  /\ uart_tx_cb' = [uart_tx_cb EXCEPT ![c] = IF @ > 0 THEN @ - 1 ELSE 0]
  /\ RearmTransmit(c)
  /\ UNCHANGED <<client, request, msg_com, getc_wait_list, putc_lists,
                 node_tid, failed>>

\* One byte goes to the UART and the first task that waits in Putc gets its
\* place: in the buffer of msg.com, whichever channel that is (line 172).
TxMessageRefill(c) ==
  /\ Received(TxNotifier(c))
  /\ uart_tx_cb[c] > 0
  /\ putc_lists[c].wait.front # Null
  /\ LET node == putc_lists[c].wait.front
         read == [uart_tx_cb EXCEPT ![c] = @ - 1]
     IN  /\ read[msg_com] < Capacity
         /\ uart_tx_cb' = [read EXCEPT ![msg_com] = @ + 1]
         /\ putc_lists' = [putc_lists EXCEPT ![c] =
                             list_push_back(list_pop_front(@, "wait"), "free", node)]
         /\ Return({node_tid[c][node]})
         /\ node_tid' = [node_tid EXCEPT ![c][node] = NoClient]  \* stale in the code
  /\ RearmTransmit(c)
  /\ UNCHANGED <<msg_com, getc_wait_list, failed>>

\* AssertF "Could not write to buffer from wait list".
TxMessageFails(c) ==
  /\ Received(TxNotifier(c))
  /\ uart_tx_cb[c] > 0
  /\ putc_lists[c].wait.front # Null
  /\ msg_com # c /\ uart_tx_cb[msg_com] = Capacity
  /\ failed' = "no room for a waiting byte"
  /\ UNCHANGED <<client, request, notifier, msg_com, tx_notifier_awaiting,
                 uart_tx_cb, getc_wait_list, putc_lists, node_tid>>

\* Defect for NotifierProtocol: the length is compared before the push.
GetcMessageLate(cl) ==
  /\ Received(Client(cl))
  /\ request[cl].operation = GETC
  /\ LET c == request[cl].com
     IN  /\ msg_com' = c
         /\ getc_wait_list' = [getc_wait_list EXCEPT ![c] = Append(@, cl)]
         /\ notifier' = IF Len(getc_wait_list[c]) = 1
                        THEN ReplyTo(notifier, RxNotifier(c)) ELSE notifier
  /\ client' = [client EXCEPT ![cl] = "waiting"]
  /\ UNCHANGED <<request, tx_notifier_awaiting, uart_tx_cb, putc_lists,
                 node_tid, failed>>

\* The first task to wait for a byte releases the receive notifier.
GetcMessage(cl) ==
  /\ Received(Client(cl))
  /\ request[cl].operation = GETC
  /\ LET c == request[cl].com
     IN  /\ msg_com' = c
         /\ getc_wait_list' = [getc_wait_list EXCEPT ![c] = Append(@, cl)]
         /\ notifier' = IF getc_wait_list[c] = << >>
                        THEN ReplyTo(notifier, RxNotifier(c)) ELSE notifier
  /\ client' = [client EXCEPT ![cl] = "waiting"]
  /\ UNCHANGED <<request, tx_notifier_awaiting, uart_tx_cb, putc_lists,
                 node_tid, failed>>

\* There is room: buffer the byte, start the transmitter if it sleeps, reply.
PutcMessage(cl) ==
  /\ Received(Client(cl))
  /\ request[cl].operation = PUTC
  /\ LET c == request[cl].com
     IN  /\ uart_tx_cb[c] < Capacity
         /\ msg_com' = c
         /\ uart_tx_cb' = [uart_tx_cb EXCEPT ![c] = @ + 1]
         /\ tx_notifier_awaiting' = [tx_notifier_awaiting EXCEPT ![c] = TRUE]
         /\ notifier' = IF tx_notifier_awaiting[c] THEN notifier
                        ELSE ReplyTo(notifier, TxNotifier(c))
  /\ Return({cl})
  /\ UNCHANGED <<getc_wait_list, putc_lists, node_tid, failed>>

\* No room: the client waits in a node of the free list.
PutcMessageWaits(cl) ==
  /\ Received(Client(cl))
  /\ request[cl].operation = PUTC
  /\ LET c    == request[cl].com
         node == putc_lists[c].free.front
     IN  /\ uart_tx_cb[c] = Capacity
         /\ node # Null
         /\ msg_com' = c
         /\ putc_lists' = [putc_lists EXCEPT ![c] =
                             list_push_back(list_pop_front(@, "free"), "wait", node)]
         /\ node_tid' = [node_tid EXCEPT ![c][node] = cl]
  /\ client' = [client EXCEPT ![cl] = "waiting"]
  /\ UNCHANGED <<request, notifier, tx_notifier_awaiting, uart_tx_cb,
                 getc_wait_list, failed>>

\* AssertF "PUTC wait list full".
PutcMessageFails(cl) ==
  /\ Received(Client(cl))
  /\ request[cl].operation = PUTC
  /\ uart_tx_cb[request[cl].com] = Capacity
  /\ putc_lists[request[cl].com].free.front = Null
  /\ failed' = "no free node"
  /\ UNCHANGED <<client, request, notifier, msg_com, tx_notifier_awaiting,
                 uart_tx_cb, getc_wait_list, putc_lists, node_tid>>

Server ==
  \/ \E c \in Channels : RxMessage(c) \/ TxMessage(c) \/ TxMessageRefill(c)
                           \/ TxMessageFails(c)
  \/ \E cl \in Clients : GetcMessage(cl) \/ PutcMessage(cl)
                           \/ PutcMessageWaits(cl) \/ PutcMessageFails(cl)

\* A failed AssertF prints and waits for the operator: everything stops.
Stopped == failed # "none" /\ UNCHANGED vars

Next ==
  \/ failed = "none" /\ Server
  \/ failed = "none" /\ \E cl \in Clients, operation \in {GETC, PUTC}, c \in Channels :
                          Call(cl, operation, c)
  \/ failed = "none" /\ \E n \in Notifiers : Notify(n)
  \/ Stopped

Spec == Init /\ [][Next]_vars

\* The kernel schedules the server and the notifiers, the highest priorities,
\* and the transmitters keep emptying.  Bytes need not ever arrive.
Fairness ==
  /\ WF_vars(failed = "none" /\ Server)
  /\ \A c \in Channels : WF_vars(failed = "none" /\ Notify(TxNotifier(c)))

FairSpec == Spec /\ Fairness

-----------------------------------------------------------------------------
(* Properties.                                                             *)

WaitNodes(c) == NodesOf(putc_lists[c], "wait")
FreeNodes(c) == NodesOf(putc_lists[c], "free")

\* Types of the variables; no buffer holds more than it has room for.
TypeOK ==
  /\ inbox  \in Seq(Notifiers \cup {Client(cl) : cl \in Clients})
  /\ client \in [Clients -> {"running", "sent", "waiting"}]
  /\ request \in [Clients -> [operation : {GETC, PUTC}, com : Channels] \cup {NoRequest}]
  /\ notifier \in [Notifiers -> {"held", "awaiting", "sent"}]
  /\ msg_com \in Channels
  /\ tx_notifier_awaiting \in [Channels -> BOOLEAN]
  /\ uart_tx_cb \in [Channels -> 0 .. Capacity]
  /\ getc_wait_list \in [Channels -> Seq(Clients)]
  /\ node_tid \in [Channels -> [Nodes -> Clients \cup {NoClient}]]
  /\ failed \in {"none", "no free node", "no room for a waiting byte"}

\* The server replies to a notifier only when the notifier waits for it: the
\* receive notifier is held exactly while nobody waits in Getc, the transmit
\* notifier exactly while tx_notifier_awaiting says so (uart_server.c:125).  A
\* reply at any other time is an error and the notifier would sleep for ever.
NotifierProtocol ==
  \A c \in Channels :
    /\ notifier[RxNotifier(c)] = "held" <=> getc_wait_list[c] = << >>
    /\ notifier[TxNotifier(c)] = "held" <=> ~tx_notifier_awaiting[c]

\* A client the server has not answered is on exactly one wait list, the one its
\* request calls for, and in one place of it; no node is both free and in use, and
\* no buffer holds more than it has room for.
ClientsAccounted ==
  /\ TypeOK
  /\ \A cl \in Clients, c \in Channels :
       LET getters == {i \in DOMAIN getc_wait_list[c] : getc_wait_list[c][i] = cl}
           putters == {n \in WaitNodes(c) : node_tid[c][n] = cl}
           called(operation) ==
             client[cl] = "waiting" /\ request[cl] = [operation |-> operation, com |-> c]
       IN  /\ IF called(GETC) THEN \E i \in getters : getters = {i} ELSE getters = {}
           /\ IF called(PUTC) THEN \E n \in putters : putters = {n} ELSE putters = {}
  /\ \A c \in Channels : WaitNodes(c) \cap FreeNodes(c) = {}

\* What uart_server.c:210 says of a byte that is put in a buffer: "since we have
\* something in the buffer to write, we need to wake up the notifier if it's
\* sleeping".  Line 172 puts a byte in a buffer whose notifier may sleep.
BytesWakeNotifier ==
  \A c \in Channels : uart_tx_cb[c] > 0 => tx_notifier_awaiting[c]

\* Every Putc returns, however full the buffers are: the transmit interrupts
\* that empty a buffer also release the tasks that wait for room in it.  This
\* needs BytesWakeNotifier: a full buffer whose notifier sleeps stays full.
PutcAnswered ==
  []BytesWakeNotifier =>
    \A cl \in Clients :
      (client[cl] # "running" /\ request[cl].operation = PUTC)
        ~> (client[cl] = "running" \/ failed # "none")

\* The assertion of uart_server.c:219: with as many nodes as the system has
\* tasks, a task that must wait in Putc always finds a free one.
PutcNodeAvailable == failed # "no free node"
=============================================================================
