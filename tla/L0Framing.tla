------------------------------ MODULE L0Framing ------------------------------
(***************************************************************************)
(* The byte framing of the UARTs between the ESP32 and the LTE units:      *)
(* STX, the bytes of one packet with a DLE before each that looks like a   *)
(* control byte, ETX.  Both directions use the same sender (uart_send_L0   *)
(* in gw_uart.cpp, gw_lte_tx_thread in gateway.c).  The receivers differ   *)
(* in one point: operate_gw_uart_rx of the ESP32 checks its index against  *)
(* the buffer, gw_uart_serial_cb of the nRF9160 does not.  There is no     *)
(* flow control: a receiver that is late loses bytes.                      *)
(*                                                                         *)
(* The line holds one byte.  A receiver only depends on the order of the   *)
(* bytes, so a longer line has no other behaviours.  A packet is a version *)
(* byte, its length, and a rest: the second byte stands for the two bytes  *)
(* of the IP header that give the length, and every packet is of a         *)
(* protocol and a size the receivers pass on.  What the nRF9160 does with  *)
(* a packet while its LTE link is down, or with its queue full, is not     *)
(* part of this module.                                                    *)
(***************************************************************************)
EXTENDS Naturals, Sequences, FiniteSets

CONSTANTS
  Packets,        \* packets that may be sent
  MaxFrame,       \* MAX_RX_DATA_L1_LENGTH, 1295 in the code
  MaxPackets,     \* bound on the number of packets sent
  MaxLost,        \* bound on the number of bytes lost
  None            \* no byte on the line

STX == 2
ETX == 3
DLE == 16

Byte == 0 .. 255

ASSUME FramingAssumption ==
  /\ Packets \subseteq Seq(Byte)
  /\ \A p \in Packets : Len(p) > 1 /\ Len(p) < MaxFrame /\ p[2] = Len(p)
  /\ MaxFrame \in Nat \ {0} /\ MaxPackets \in Nat /\ MaxLost \in Nat
  /\ None \notin Byte

VARIABLES
  limited,        \* the receiver is the ESP32's, or else the nRF9160's
  tx,             \* the sender: pc and number of bytes written of the packet
  sent,           \* the packets sent, the one under way included
  wire,           \* the byte on the line
  rx,             \* the receiver: in frame, in escape, buffer, discarding
  got,            \* the packets the receiver passed on
  lost,           \* number of bytes lost on the line
  damaged         \* numbers of the packets that lost a byte, on the line or
                  \* to SerialDiscard

vars == <<limited, tx, sent, wire, rx, got, lost, damaged>>

Init == /\ limited \in BOOLEAN
        /\ tx = [pc |-> "idle", i |-> 0]
        /\ sent = <<>>
        /\ wire = None
        /\ rx = [in_frame |-> FALSE, in_escape |-> FALSE, buf |-> <<>>,
                 discarding |-> FALSE]
        /\ got = <<>>
        /\ lost = 0
        /\ damaged = {}

-------------------------------------------------------------------------------
(* Sender *)

\* Faulty: the escape byte itself is not escaped.
Special_NoDle == {STX, ETX}

\* Faulty: the end byte is not escaped.
Special_NoEtx == {STX, DLE}

Special == {STX, ETX, DLE}

Packet == sent[Len(sent)]

\* Faulty: the index goes on where the last packet ended.
WriteStx_KeepIndex(p) ==
  /\ tx.pc = "idle" /\ wire = None
  /\ Len(sent) < MaxPackets
  /\ sent' = Append(sent, p)
  /\ wire' = STX
  /\ tx' = [tx EXCEPT !.pc = "frame"]
  /\ UNCHANGED <<rx, got, lost, damaged>>

WriteStx(p) ==
  /\ tx.pc = "idle" /\ wire = None
  /\ Len(sent) < MaxPackets
  /\ sent' = Append(sent, p)
  /\ wire' = STX
  /\ tx' = [pc |-> "frame", i |-> 0]
  /\ UNCHANGED <<rx, got, lost, damaged>>

\* The next byte, or the DLE before it.
WriteByte ==
  /\ tx.pc = "frame" /\ wire = None /\ tx.i < Len(Packet)
  /\ LET c == Packet[tx.i + 1]
     IN  IF c \in Special
         THEN wire' = DLE /\ tx' = [tx EXCEPT !.pc = "escaped"]
         ELSE wire' = c /\ tx' = [tx EXCEPT !.i = @ + 1]
  /\ UNCHANGED <<sent, rx, got, lost, damaged>>

WriteEscaped ==
  /\ tx.pc = "escaped" /\ wire = None
  /\ wire' = Packet[tx.i + 1]
  /\ tx' = [pc |-> "frame", i |-> tx.i + 1]
  /\ UNCHANGED <<sent, rx, got, lost, damaged>>

WriteEtx ==
  /\ tx.pc = "frame" /\ wire = None /\ tx.i = Len(Packet)
  /\ wire' = ETX
  /\ tx' = [tx EXCEPT !.pc = "idle"]
  /\ UNCHANGED <<sent, rx, got, lost, damaged>>

Send == \/ \E p \in Packets : WriteStx(p)
        \/ WriteByte
        \/ WriteEscaped
        \/ WriteEtx

-------------------------------------------------------------------------------
(* Receiver *)

\* The length in the header is the number of bytes received.
Complete(buf) == Len(buf) > 1 /\ buf[2] = Len(buf)

\* A byte is read off the line; the sender's variables stay.
Read(c) == /\ wire = c
           /\ ~rx.discarding
           /\ wire' = None
           /\ UNCHANGED <<tx, sent, lost, damaged>>

Outside(buf) == [in_frame |-> FALSE, in_escape |-> FALSE, buf |-> buf,
                 discarding |-> FALSE]

\* Between frames everything but STX is skipped.
Skip(c) == /\ Read(c)
           /\ ~rx.in_frame /\ c # STX
           /\ UNCHANGED <<rx, got>>

\* Faulty: the index is not reset.
Begin_KeepIndex(c) == /\ Read(c)
                      /\ ~rx.in_frame /\ c = STX
                      /\ rx' = [rx EXCEPT !.in_frame = TRUE]
                      /\ UNCHANGED got

Begin(c) == /\ Read(c)
            /\ ~rx.in_frame /\ c = STX
            /\ rx' = [rx EXCEPT !.in_frame = TRUE, !.buf = <<>>]
            /\ UNCHANGED got

BeginEscape(c) == /\ Read(c)
                  /\ rx.in_frame /\ ~rx.in_escape /\ c = DLE
                  /\ rx' = [rx EXCEPT !.in_escape = TRUE]
                  /\ UNCHANGED got

\* STX inside a frame, or an escaped byte that needs no escape: the frame is
\* given up, and the receiver waits for the next STX.
FrameError(c) == /\ Read(c)
                 /\ rx.in_frame
                 /\ \/ rx.in_escape /\ c \notin Special
                    \/ ~rx.in_escape /\ c = STX
                 /\ rx' = Outside(rx.buf)
                 /\ UNCHANGED got

IsData(c) == /\ rx.in_frame
             /\ IF rx.in_escape THEN c \in Special ELSE c \notin Special

\* Faulty: the buffer is found full one byte late.
Fills_Late(buf) == limited /\ Len(buf) > MaxFrame

Fills(buf) == limited /\ Len(buf) >= MaxFrame

Store(c) == /\ Read(c)
            /\ IsData(c)
            /\ ~Fills(Append(rx.buf, c))
            /\ rx' = [rx EXCEPT !.in_escape = FALSE, !.buf = Append(rx.buf, c)]
            /\ UNCHANGED got

\* The byte fills the buffer: the ESP32 gives the frame up and throws away
\* what is waiting on the line.
Overrun(c) == /\ Read(c)
              /\ IsData(c)
              /\ Fills(Append(rx.buf, c))
              /\ rx' = [Outside(Append(rx.buf, c)) EXCEPT !.discarding = TRUE]
              /\ UNCHANGED got

SerialDiscard ==
  /\ rx.discarding
  /\ IF wire = None
     THEN rx' = [rx EXCEPT !.discarding = FALSE] /\ UNCHANGED <<wire, damaged>>
     ELSE /\ wire' = None
          /\ damaged' = damaged \cup {Len(sent)}
          /\ UNCHANGED rx
  /\ UNCHANGED <<tx, sent, got, lost>>

\* The end of the frame: a packet of the right length is passed on.  The
\* nRF9160 keeps the bytes of one that is not.
End(c) == /\ Read(c)
          /\ rx.in_frame /\ ~rx.in_escape /\ c = ETX
          /\ rx' = Outside(IF limited \/ Complete(rx.buf) THEN <<>> ELSE rx.buf)
          /\ IF Complete(rx.buf) THEN got' = Append(got, rx.buf)
                                 ELSE UNCHANGED got

ReceiveByte(c) == \/ Skip(c)
                  \/ Begin(c)
                  \/ BeginEscape(c)
                  \/ FrameError(c)
                  \/ Store(c)
                  \/ Overrun(c)
                  \/ End(c)

Receive == (\E c \in Byte : ReceiveByte(c)) \/ SerialDiscard

-------------------------------------------------------------------------------
(* The line *)

\* A byte is overrun in the receiver's FIFO.
Lose == /\ wire # None
        /\ lost < MaxLost
        /\ lost' = lost + 1
        /\ damaged' = damaged \cup {Len(sent)}
        /\ wire' = None
        /\ UNCHANGED <<tx, sent, rx, got>>

Next == (Send \/ Receive \/ Lose) /\ UNCHANGED limited

Spec == Init /\ [][Next]_vars

\* The sender's loop and the receiver's task or interrupt run on; nothing
\* obliges packets to be sent.
FairSpec == /\ Spec
            /\ WF_vars((WriteByte \/ WriteEscaped \/ WriteEtx) /\ UNCHANGED limited)
            /\ WF_vars(Receive /\ UNCHANGED limited)

-------------------------------------------------------------------------------
(* Properties *)

TypeOK ==
  /\ limited \in BOOLEAN
  /\ tx \in [pc : {"idle", "frame", "escaped"}, i : Nat]
  /\ sent \in Seq(Packets) /\ Len(sent) <= MaxPackets
  /\ tx.pc # "idle" => sent # <<>> /\ tx.i <= Len(Packet)
  /\ tx.pc = "escaped" => tx.i < Len(Packet)
  /\ wire \in Byte \cup {None}
  /\ sent = <<>> => wire = None
  /\ rx \in [in_frame : BOOLEAN, in_escape : BOOLEAN, buf : Seq(Byte),
             discarding : BOOLEAN]
  /\ got \in Seq(Seq(Byte))
  /\ lost \in 0 .. MaxLost
  /\ damaged \subseteq 1 .. Len(sent)

\* Nothing is under way.
AtRest == tx.pc = "idle" /\ wire = None /\ ~rx.discarding

\* As long as no byte is lost every packet arrives, whatever bytes it is made
\* of: stuffing and unstuffing are inverse to each other also at the edges of
\* a frame (gw_uart.cpp:33-54, gateway.c:136-196).
Lossless == AtRest /\ lost = 0 => got = sent

\* The packets that lost no byte, and neither did the packet before them.
Clean == {n \in 1 .. Len(sent) : {n - 1, n} \cap damaged = {}}

\* The number of packets that are off the line.
Finished == IF tx.pc = "idle" /\ wire = None THEN Len(sent) ELSE Len(sent) - 1

\* What is passed on comes in the order of sending, and a packet that is whole
\* and follows a whole one is passed on at most once, as it was sent and not
\* before its end.  Anything else comes from a packet with a loss or from the one
\* behind it: there half a frame may be taken for a packet, because the receivers
\* know a packet by its length (gw_uart.cpp:526-530, gateway.c:218-222).
OnlyLossesForge ==
  \E f \in [1 .. Len(got) -> 1 .. Len(sent)] :
    /\ \A i, j \in 1 .. Len(got) : i < j => f[i] <= f[j]
    /\ \A i, j \in 1 .. Len(got) : i < j /\ f[i] = f[j] => f[j] \notin Clean
    /\ \A j \in 1 .. Len(got) : f[j] \in Clean => /\ f[j] <= Finished
                                                  /\ got[j] = sent[f[j]]

\* The receiver finds back into step within one packet: every packet arrives
\* that lost no byte itself and does not follow one that did, and in the order
\* they were sent in, wherever the earlier losses were, whatever control bytes
\* were in what was left and whatever else was passed on for it
\* (gw_uart.cpp:418-481, gateway.c:136-196).
Resync ==
  AtRest => \E f \in [Clean -> 1 .. Len(got)] :
              /\ \A m, n \in Clean : m < n => f[m] < f[n]
              /\ \A n \in Clean : got[f[n]] = sent[n]

\* The receiver with a limit never stores a byte behind its buffer of
\* MaxFrame bytes, also when frames run into each other (gw_uart.cpp:485-494).
InBuffer == limited => Len(rx.buf) <= MaxFrame

\* If no byte is lost, a packet that is begun is passed on: no byte of it
\* makes the receiver wait for ever (gw_uart.cpp:400-416, gateway.c:127).
Arrives == \A n \in 1 .. MaxPackets :
             (Len(sent) = n /\ lost = 0) ~> (Len(got) >= n \/ lost > 0)
===============================================================================
