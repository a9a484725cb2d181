------------------------------ MODULE NrfGateway ------------------------------
(***************************************************************************)
(* The threads of an nRF9160 unit that move packets (gateway.c), together  *)
(* with its connection (LteLink): the UART interrupt queues packets for    *)
(* LTE with the unit's address in them, the LTE receive thread holds the   *)
(* raw socket and the status line, the LTE transmit thread empties both    *)
(* queues.                                                                 *)
(*                                                                         *)
(* A packet towards LTE is its source address; packets towards the UART    *)
(* are counted.  The transmit thread tests the flags and the socket and    *)
(* sends in one step, and the receive thread closes the socket and tests   *)
(* the flags in one step: nothing blocks in between.                       *)
(***************************************************************************)
EXTENDS LteLink

CONSTANTS
  QueueSize,      \* packets in a message queue, 8 in the code
  MaxErrors       \* bound on socket errors

ASSUME GatewayAssumption == QueueSize \in Nat \ {0} /\ MaxErrors \in Nat

VARIABLES
  status_low,     \* the status line says that the unit can be used
  irq,            \* the UART's receive interrupt is enabled
  rx,             \* where gw_lte_rx_thread is
  raw_socket,     \* the raw socket is open
  tx,             \* the queue gw_lte_tx_thread is emptying
  uart_pkt_msgq,  \* number of packets towards the UART
  lte_msgq,       \* packets towards LTE
  out,            \* the last packet that left, with the unit's state then
  errors          \* number of socket errors so far

gwvars == <<status_low, irq, rx, raw_socket, tx, uart_pkt_msgq, lte_msgq, out, errors>>
vars == <<linkvars, gwvars>>

NothingSent == [src |-> NoAddress, ip |-> NoAddress, behind |-> FALSE, unseen |-> FALSE]

\* gw_start, and the first lines of the threads.
Init == /\ LinkInit
        /\ status_low = FALSE /\ irq = TRUE
        /\ rx = "closed" /\ raw_socket = FALSE
        /\ tx = "uart" /\ uart_pkt_msgq = 0 /\ lte_msgq = <<>>
        /\ out = NothingSent
        /\ errors = 0

-------------------------------------------------------------------------------
(* UART interrupt *)

\* gw_uart_serial_cb at the end of a frame.  A packet is dropped when the gate
\* is closed or the queue is full; then nothing changes.
UartPacket == /\ irq /\ Open
              /\ Len(lte_msgq) < QueueSize
              /\ lte_msgq' = Append(lte_msgq, my_addr)
              /\ UNCHANGED <<linkvars, status_low, irq, rx, raw_socket, tx,
                             uart_pkt_msgq, out, errors>>

-------------------------------------------------------------------------------
(* LTE receive thread *)

SocketError == errors < MaxErrors /\ errors' = errors + 1

\* Faulty: the line is left as it is.
Closed_LineKept == /\ rx = "closed"
                   /\ raw_socket' = FALSE
                   /\ IF Open THEN status_low' = TRUE /\ rx' = "open"
                              ELSE UNCHANGED <<status_low, rx>>
                   /\ UNCHANGED <<linkvars, irq, tx, uart_pkt_msgq, lte_msgq, out, errors>>

\* The outer loop: close the socket, and set the line by the gate.
Closed == /\ rx = "closed"
          /\ raw_socket' = FALSE
          /\ status_low' = Open
          /\ rx' = IF Open THEN "open" ELSE "closed"
          /\ UNCHANGED <<linkvars, irq, tx, uart_pkt_msgq, lte_msgq, out, errors>>

OpenSocket == /\ rx = "open"
              /\ \/ raw_socket' = TRUE /\ rx' = "poll" /\ UNCHANGED errors
                 \/ SocketError /\ rx' = "closed" /\ UNCHANGED raw_socket
              /\ UNCHANGED <<linkvars, status_low, irq, tx, uart_pkt_msgq, lte_msgq, out>>

\* Leaving the inner loop disables the interrupt.
Leave == rx' = "closed" /\ irq' = FALSE

PollClosed == /\ rx = "poll" /\ ~Open
              /\ Leave
              /\ UNCHANGED <<linkvars, status_low, raw_socket, tx, uart_pkt_msgq,
                             lte_msgq, out, errors>>

PollError == /\ rx = "poll" /\ Open
             /\ SocketError
             /\ Leave
             /\ UNCHANGED <<linkvars, status_low, raw_socket, tx, uart_pkt_msgq,
                            lte_msgq, out>>

\* A packet is received; it is dropped when the queue is full.
Receive == /\ rx = "poll" /\ Open
           /\ uart_pkt_msgq < QueueSize
           /\ uart_pkt_msgq' = uart_pkt_msgq + 1
           /\ UNCHANGED <<linkvars, status_low, irq, rx, raw_socket, tx, lte_msgq,
                          out, errors>>

-------------------------------------------------------------------------------
(* LTE transmit thread *)

\* Faulty: the answer of k_msgq_get is not looked at.
SendUart_Blind == /\ tx = "uart"
                  /\ uart_pkt_msgq' = uart_pkt_msgq - 1
                  /\ tx' = IF uart_pkt_msgq > 0 THEN tx ELSE "lte"
                  /\ UNCHANGED <<linkvars, status_low, irq, rx, raw_socket,
                                 lte_msgq, out, errors>>

SendUart == /\ tx = "uart"
            /\ IF uart_pkt_msgq > 0
               THEN uart_pkt_msgq' = uart_pkt_msgq - 1 /\ UNCHANGED tx
               ELSE tx' = "lte" /\ UNCHANGED uart_pkt_msgq
            /\ UNCHANGED <<linkvars, status_low, irq, rx, raw_socket, lte_msgq, out, errors>>

\* Faulty: what is queued is sent whether or not the unit was detached.
MaySend_Detached == act /\ raw_socket

MaySend == act /\ ~detach /\ raw_socket

SendLte == /\ tx = "lte" /\ lte_msgq # <<>>
           /\ lte_msgq' = Tail(lte_msgq)
           /\ out' = IF MaySend
                     THEN [src |-> Head(lte_msgq), ip |-> modem.ip,
                           behind |-> DetachNoted, unseen |-> faults.unseen]
                     ELSE out
           /\ UNCHANGED <<linkvars, status_low, irq, rx, raw_socket, tx,
                          uart_pkt_msgq, errors>>

LteEmpty == /\ tx = "lte" /\ lte_msgq = <<>>
            /\ tx' = "uart"
            /\ UNCHANGED <<linkvars, status_low, irq, rx, raw_socket,
                           uart_pkt_msgq, lte_msgq, out, errors>>

RxThread == Closed \/ OpenSocket \/ PollClosed \/ PollError \/ Receive
TxThread == SendUart \/ SendLte \/ LteEmpty

\* Everything starts anew.
Restart == /\ Reboot
           /\ status_low' = FALSE /\ irq' = TRUE
           /\ rx' = "closed" /\ raw_socket' = FALSE
           /\ tx' = "uart" /\ uart_pkt_msgq' = 0 /\ lte_msgq' = <<>>
           /\ out' = NothingSent
           /\ UNCHANGED errors

Next == \/ LinkStep /\ UNCHANGED gwvars
        \/ Restart
        \/ UartPacket \/ RxThread \/ TxThread

Spec == Init /\ [][Next]_vars

\* The threads run on; nothing obliges packets to come.
Fairness == /\ WF_vars(MainLoop /\ UNCHANGED gwvars)
            /\ WF_vars(Restart)
            /\ WF_vars(Answer /\ UNCHANGED gwvars)
            /\ WF_vars(Attach /\ UNCHANGED gwvars)
            /\ WF_vars(Notify /\ UNCHANGED gwvars)
            /\ WF_vars(Closed \/ OpenSocket \/ PollClosed)
            /\ WF_vars(TxThread)

FairSpec == Spec /\ Fairness

-------------------------------------------------------------------------------
(* Properties *)

TypeOK == /\ LinkTypeOK
          /\ status_low \in BOOLEAN /\ irq \in BOOLEAN /\ raw_socket \in BOOLEAN
          /\ rx \in {"closed", "open", "poll"}
          /\ tx \in {"uart", "lte"}
          /\ uart_pkt_msgq \in 0 .. QueueSize
          /\ lte_msgq \in Seq(Addresses) /\ Len(lte_msgq) <= QueueSize
          /\ out \in [src : Addresses \cup {NoAddress},
                      ip : Addresses \cup {NoAddress}, behind : BOOLEAN,
                      unseen : BOOLEAN]
          /\ errors \in 0 .. MaxErrors

\* A packet that leaves has the address the unit has then, however long it was
\* queued and whatever connections came and went meanwhile, unless the news of
\* the loss is still under way (out.behind) or was one the unit does not listen
\* for, since the address was read (out.unseen; gateway.c:225, 91, 106,
\* nrf91_lte.c:92-101).
SourceIsMine == out.src = out.ip \/ out.behind \/ out.unseen

\* As long as the socket makes no errors, a unit that says it can be used
\* hears its UART (gateway.c:286, 357).
Hears == status_low /\ Open /\ errors = 0 => irq

\* When the gate closes the line follows: the ESP32 does not go on using the
\* unit (gateway.c:297-302, 314-318).
LineGoesHigh == (status_low /\ ~Open) ~> (~status_low \/ Open)

\* The unit connects in the end, says so and stays connected with the address
\* it writes into packets, whatever attempts time out, commands are refused,
\* answers come late and sockets fail on the way, unless the modem reports ME
\* DETACH for a drop or after the 10 s it is waited for (lasting), or the unit
\* loses the address it has read without seeing it (nrf91_lte.c:290-302,
\* 314-326, gateway.c:291-303).
ComesUp == \/ <>[](Open /\ status_low /\ my_addr = modem.ip)
           \/ <>faults.lasting
           \/ <>[]faults.unseen

\* README.md:9: the line is LOW when the LTE connection is valid.  A unit that
\* stays connected has it LOW in the end.
StatusFollows == (<>[](modem.ip # NoAddress)) => <>[]status_low
===============================================================================
