------------------------------- MODULE EthRing -------------------------------
(***************************************************************************)
(* The ring of Ethernet frames between eth_rx_handler (gw_eth.cpp), which  *)
(* the driver's receive task calls with every frame, and task_gw_uart_tx   *)
(* (gw_uart.cpp), which translates a frame in its slot and sends it to an  *)
(* LTE unit.  The two run on different cores and share eth_rxb and the two *)
(* indices without a lock: the handler alone writes eth_rxb_wi, the task   *)
(* alone writes eth_rxb_ri.  Copying a frame into its slot takes two       *)
(* steps, and the slot is torn in between.                                 *)
(*                                                                         *)
(* What the task does to the port map is the subject of NatGateway; here a *)
(* frame is either sent or dropped.                                        *)
(***************************************************************************)
EXTENDS Naturals, Sequences

CONSTANTS
  Size,         \* eth_rxb_cnt, 16 in the code
  Frames,       \* the frames that may arrive
  Mtu,          \* mtu, 1280 in the code
  None          \* no frame

\* What the handler looks at in a frame: its length with the Ethernet header,
\* the frame type, time to live, whether it is addressed to the gateway's
\* MAC, the IP version, whether the header checksum is right, the protocol
\* and whether the destination is the gateway's own IP address.
Frame == [length : Nat, type : Nat, ttl : Nat, mine : BOOLEAN,
          version : Nat, sum_ok : BOOLEAN, protocol : Nat, to_me : BOOLEAN]

ASSUME RingAssumption == /\ Size \in Nat /\ Size > 1
                         /\ Mtu \in Nat
                         /\ Frames \subseteq Frame
                         /\ None \notin Frames

VARIABLES
  eth_rxb,      \* slot -> what it holds
  eth_rxb_wi,   \* slot of the newest complete frame
  eth_rxb_ri,   \* slot of the frame finished last
  rx,           \* the handler: pc, frame, slot it fills
  tx,           \* the task: pc, frame it read, slot it works on
  verdict,      \* what the handler did with its last frame
  sent,         \* what the task handed to the UART last
  finished      \* the frame the task finished last

vars == <<eth_rxb, eth_rxb_wi, eth_rxb_ri, rx, tx, verdict, sent, finished>>

Slots == 0 .. Size - 1
\* Faulty: the index does not wrap.
NextSlot_NoWrap(i) == i + 1

NextSlot(i) == (i + 1) % Size

\* A slot holds a frame as received, a frame with translated ports, a frame
\* half overwritten by the next one, or nothing yet.
Content == [frame : Frames \cup {None},
            form : {"empty", "raw", "translated", "torn"}]

Raw(f)        == [frame |-> f, form |-> "raw"]
Translated(f) == [frame |-> f, form |-> "translated"]
Torn          == [frame |-> None, form |-> "torn"]
Nothing       == [frame |-> None, form |-> "empty"]

Init == /\ eth_rxb = [i \in Slots |-> Nothing]
        /\ eth_rxb_wi = Size - 1
        /\ eth_rxb_ri = Size - 1
        /\ rx = [pc |-> "idle", frame |-> None, nxt |-> 0]
        /\ tx = [pc |-> "off", frame |-> None, nxt |-> 0]
        /\ verdict = "none"
        /\ sent = Nothing
        /\ finished = None

-------------------------------------------------------------------------------
(* eth_rx_handler *)

Icmp == 1
Tcp  == 6
Udp  == 17

MinFrame == 14 + 21

\* The tests a frame passes on its way to the ring.  ARP frames and echo
\* requests to the gateway are answered by other modules of the firmware.
LengthOk(f) == f.length >= MinFrame /\ Mtu >= f.length

ToForward(f) == /\ f.type = 2048
                /\ f.ttl >= 64 /\ f.mine /\ f.version = 4
                /\ f.sum_ok
                /\ \/ f.protocol = Icmp /\ ~f.to_me
                   \/ f.protocol \in {Tcp, Udp}

\* Faulty: the next index is compared before it wraps.
is_eth_rxb_we_NoWrap == eth_rxb_wi + 1 # eth_rxb_ri

is_eth_rxb_we == NextSlot(eth_rxb_wi) # eth_rxb_ri

\* Frames that are not for the ring leave it alone.
RxPass(f) ==
  /\ rx.pc = "idle"
  /\ ~(LengthOk(f) /\ ToForward(f))
  /\ rx' = [rx EXCEPT !.frame = f]
  /\ verdict' = "passed"
  /\ UNCHANGED <<eth_rxb, eth_rxb_wi, eth_rxb_ri, tx, sent, finished>>

\* A full ring loses the frame.
RxFull(f) ==
  /\ rx.pc = "idle"
  /\ LengthOk(f) /\ ToForward(f)
  /\ ~is_eth_rxb_we
  /\ rx' = [rx EXCEPT !.frame = f]
  /\ verdict' = "lost"
  /\ UNCHANGED <<eth_rxb, eth_rxb_wi, eth_rxb_ri, tx, sent, finished>>

\* Faulty: the index is advanced before the frame is copied.
RxAdmit_EarlyIndex(f) ==
  /\ rx.pc = "idle"
  /\ LengthOk(f) /\ ToForward(f)
  /\ is_eth_rxb_we
  /\ rx' = [pc |-> "copy", frame |-> f, nxt |-> NextSlot(eth_rxb_wi)]
  /\ eth_rxb' = [eth_rxb EXCEPT ![NextSlot(eth_rxb_wi)] = Torn]
  /\ verdict' = "admitted"
  /\ eth_rxb_wi' = NextSlot(eth_rxb_wi)
  /\ UNCHANGED <<eth_rxb_ri, tx, sent, finished>>

\* nxt is computed and memcpy begins to overwrite the slot.
RxAdmit(f) ==
  /\ rx.pc = "idle"
  /\ LengthOk(f) /\ ToForward(f)
  /\ is_eth_rxb_we
  /\ rx' = [pc |-> "copy", frame |-> f, nxt |-> NextSlot(eth_rxb_wi)]
  /\ eth_rxb' = [eth_rxb EXCEPT ![NextSlot(eth_rxb_wi)] = Torn]
  /\ verdict' = "admitted"
  /\ UNCHANGED <<eth_rxb_wi, eth_rxb_ri, tx, sent, finished>>

\* memcpy ends.
RxCopied ==
  /\ rx.pc = "copy"
  /\ eth_rxb' = [eth_rxb EXCEPT ![rx.nxt] = Raw(rx.frame)]
  /\ rx' = [rx EXCEPT !.pc = "publish"]
  /\ UNCHANGED <<eth_rxb_wi, eth_rxb_ri, tx, verdict, sent, finished>>

\* eth_rxb_wi = nxt
RxPublish ==
  /\ rx.pc = "publish"
  /\ eth_rxb_wi' = rx.nxt
  /\ rx' = [rx EXCEPT !.pc = "idle"]
  /\ UNCHANGED <<eth_rxb, eth_rxb_ri, tx, verdict, sent, finished>>

Handler == \/ \E f \in Frames : RxPass(f) \/ RxFull(f) \/ RxAdmit(f)
           \/ RxCopied
           \/ RxPublish

-------------------------------------------------------------------------------
(* task_gw_uart_tx *)

\* setup() installs the handler first; the task exists a second later.
TxStart == /\ tx.pc = "off"
           /\ tx' = [tx EXCEPT !.pc = "poll"]
           /\ UNCHANGED <<eth_rxb, eth_rxb_wi, eth_rxb_ri, rx, verdict, sent,
                          finished>>

is_eth_rxb_re == eth_rxb_ri # eth_rxb_wi

\* The task finds a frame and reads its header fields.
TxFetch ==
  /\ tx.pc = "poll"
  /\ is_eth_rxb_re
  /\ tx' = [pc |-> "route", nxt |-> NextSlot(eth_rxb_ri),
            frame |-> eth_rxb[NextSlot(eth_rxb_ri)].frame]
  /\ UNCHANGED <<eth_rxb, eth_rxb_wi, eth_rxb_ri, rx, verdict, sent, finished>>

\* No unit is ready, or an ICMP packet is not an echo: nothing is sent.
TxDrop ==
  /\ tx.pc = "route"
  /\ tx' = [tx EXCEPT !.pc = "advance"]
  /\ UNCHANGED <<eth_rxb, eth_rxb_wi, eth_rxb_ri, rx, verdict, sent, finished>>

\* The port of the row is written over the port in the slot.
TxTranslate ==
  /\ tx.pc = "route"
  /\ eth_rxb' = [eth_rxb EXCEPT ![tx.nxt].form = "translated"]
  /\ tx' = [tx EXCEPT !.pc = "send"]
  /\ UNCHANGED <<eth_rxb_wi, eth_rxb_ri, rx, verdict, sent, finished>>

\* tx_func reads the slot again, byte by byte.
TxSend ==
  /\ tx.pc = "send"
  /\ sent' = eth_rxb[tx.nxt]
  /\ tx' = [tx EXCEPT !.pc = "advance"]
  /\ UNCHANGED <<eth_rxb, eth_rxb_wi, eth_rxb_ri, rx, verdict, finished>>

\* Faulty: a path through the loop that misses NEXT_BUFFER.
TxAdvance_Missed ==
  /\ tx.pc = "advance"
  /\ finished' = tx.frame
  /\ tx' = [tx EXCEPT !.pc = "poll"]
  /\ UNCHANGED <<eth_rxb, eth_rxb_wi, eth_rxb_ri, rx, verdict, sent>>

\* eth_rxb_ri = nxt
TxAdvance ==
  /\ tx.pc = "advance"
  /\ eth_rxb_ri' = tx.nxt
  /\ finished' = tx.frame
  /\ tx' = [tx EXCEPT !.pc = "poll"]
  /\ UNCHANGED <<eth_rxb, eth_rxb_wi, rx, verdict, sent>>

Task == TxStart \/ TxFetch \/ TxDrop \/ TxTranslate \/ TxSend \/ TxAdvance

-------------------------------------------------------------------------------
Next == Handler \/ Task

Spec == Init /\ [][Next]_vars

\* The task loops for ever at its own priority on its core, and writing to a
\* UART ends; nothing obliges frames to arrive.
FairSpec == Spec /\ WF_vars(Task)

-------------------------------------------------------------------------------
(* Properties *)

RxState == [pc : {"idle", "copy", "publish"},
            frame : Frames \cup {None}, nxt : Slots]
TxState == [pc : {"off", "poll", "route", "send", "advance"},
            frame : Frames \cup {None}, nxt : Slots]

TypeOK == /\ eth_rxb \in [Slots -> Content]
          /\ eth_rxb_wi \in Slots /\ eth_rxb_ri \in Slots
          /\ rx \in RxState /\ tx \in TxState
          /\ verdict \in {"none", "passed", "lost", "admitted"}
          /\ sent \in Content
          /\ finished \in Frames \cup {None}

\* The handler never writes into the slot the task works on, although the
\* task frees slots while the handler fills them: the slot left empty between
\* the indices keeps the two apart (gw_eth.cpp:18, gw_uart.cpp:157,370).
SlotsApart == /\ tx.pc \in {"route", "send", "advance"}
              /\ rx.pc \in {"copy", "publish"}
              => rx.nxt # tx.nxt

\* What the task sends is the frame whose header it has read, translated
\* exactly once and whole, although it reads the slot anew for every byte
\* while frames keep arriving (gw_uart.cpp:158-162 and 366).
SentIntact == [][sent' # sent => sent' = Translated(tx.frame)]_vars

\* Frames between the indices, oldest first.
Waiting == (eth_rxb_wi + Size - eth_rxb_ri) % Size

Queue == INSTANCE PacketQueue
           WITH Items <- Frames, Capacity <- Size - 1,
                queue <- [k \in 1 .. Waiting |->
                            eth_rxb[(eth_rxb_ri + k) % Size].frame],
                taken <- finished

\* The ring is a bounded queue: frames leave it in the order they came in,
\* each once and unchanged, and a frame is let in only when there is room.
IsQueue == Queue!Spec

\* Whatever arrives meanwhile, a frame at the head of the ring is finished.
HeadLeaves == \A i \in Slots :
                (eth_rxb_ri = i /\ is_eth_rxb_re) ~> (eth_rxb_ri # i)

\* A frame with an IP packet of up to Mtu bytes that asks to be forwarded is
\* never passed over: hosts are told to use that MTU (README.md:18).
MtuFits == verdict = "passed" =>
             ~(/\ ToForward(rx.frame)
               /\ rx.frame.length \in MinFrame .. Mtu + 14)
===============================================================================
