--------------------------- MODULE L0FramingProofs ---------------------------
(***************************************************************************)
(* The framing for any set of packets shorter than the receiver's buffer:  *)
(* without losses every packet is delivered, whatever its bytes, and after *)
(* any losses the receiver is in step again one packet later.              *)
(***************************************************************************)
EXTENDS L0Framing, SequenceTheorems, TLAPS

\* The receiver holds the first n bytes of the packet under way.
HasRead(n) == /\ Len(rx.buf) = n
              /\ \A j \in 1 .. n : rx.buf[j] = Packet[j]

\* While the packet under way has lost nothing, a receiver in a frame, be it the
\* right one or not, takes an escape where the sender makes one, and it is out
\* of the frame after the ETX.  A first STX finds it in any state.
Aligned ==
  /\ tx.pc = "idle" => /\ ~rx.in_escape
                       /\ wire = None => ~rx.in_frame /\ ~rx.discarding
                       /\ wire # None => wire = ETX /\ sent # <<>>
  /\ tx.pc = "frame" =>
       \/ wire = None /\ ~rx.in_escape
       \/ tx.i = 0 /\ wire = STX
       \/ /\ tx.i > 0 /\ wire = Packet[tx.i]
          /\ rx.in_frame => (rx.in_escape <=> wire \in Special)
  /\ tx.pc = "escaped" =>
       /\ Packet[tx.i + 1] \in Special
       /\ \/ wire = DLE /\ ~rx.in_escape
          \/ wire = None /\ (rx.in_frame => rx.in_escape)

AlignedInv == /\ ~rx.in_frame => ~rx.in_escape
              /\ Len(sent) \notin damaged => Aligned

\* The number of bytes of the packet that were read.
Received == IF tx.pc = "frame" /\ wire # None THEN tx.i - 1 ELSE tx.i

\* If the packet before it lost nothing either, the receiver holds what was
\* sent of it.
InStep ==
  Len(sent) \in Clean =>
    /\ ~rx.discarding
    /\ tx.pc = "idle" => tx.i = Len(Packet)
    /\ Finished < Len(sent) =>
         IF Received < 0 THEN ~rx.in_frame ELSE rx.in_frame /\ HasRead(Received)

\* The clean packets among the first Finished were passed on.
CleanDone == {n \in Clean : n <= Finished}

Delivers(f) == /\ f \in [CleanDone -> 1 .. Len(got)]
               /\ \A m, n \in CleanDone : m < n => f[m] < f[n]
               /\ \A n \in CleanDone : got[f[n]] = sent[n]

Delivered == \E f : Delivers(f)

\* Without losses they are all clean, and nothing else was passed on.
NoLoss ==
  lost = 0 => /\ damaged = {}
              /\ Len(got) = IF sent = <<>> THEN 0 ELSE Finished
              /\ \A n \in 1 .. Len(got) : got[n] = sent[n]

-------------------------------------------------------------------------------
(* Types *)

LEMMA PacketFacts ==
  ASSUME NEW p \in Packets
  PROVE  /\ p \in Seq(Byte) /\ Len(p) \in Nat
         /\ Len(p) > 1 /\ Len(p) < MaxFrame /\ p[2] = Len(p)
         /\ \A j \in 1 .. Len(p) : p[j] \in Byte
  BY FramingAssumption

LEMMA PacketType ==
  ASSUME TypeOK, sent # <<>>
  PROVE  /\ Packet \in Packets
         /\ Len(sent) \in Nat \ {0}
  BY DEF TypeOK, Packet

LEMMA OutsideType ==
  ASSUME NEW b \in Seq(Byte)
  PROVE  LET RxType == [in_frame : BOOLEAN, in_escape : BOOLEAN,
                        buf : Seq(Byte), discarding : BOOLEAN]
         IN  /\ Outside(b) \in RxType
             /\ [Outside(b) EXCEPT !.discarding = TRUE] \in RxType
  BY DEF Outside

LEMMA TypeStep == TypeOK /\ [Next]_vars => TypeOK'
<1> SUFFICES ASSUME TypeOK, [Next]_vars PROVE TypeOK'
  OBVIOUS
<1> DEFINE RxType == [in_frame : BOOLEAN, in_escape : BOOLEAN,
                       buf : Seq(Byte), discarding : BOOLEAN]
<1>l. limited' \in BOOLEAN
  BY DEF TypeOK, Next, vars
<1>a. /\ tx \in [pc : {"idle", "frame", "escaped"}, i : Nat]
      /\ tx.pc # "idle" => sent # <<>> /\ tx.i <= Len(Packet)
      /\ tx.pc = "escaped" => tx.i < Len(Packet)
  BY DEF TypeOK
<1>b. sent \in Seq(Packets) /\ Len(sent) <= MaxPackets /\ Len(sent) \in Nat
  BY DEF TypeOK
<1>d. rx \in RxType /\ got \in Seq(Seq(Byte))
  BY DEF TypeOK
<1>e. /\ wire \in Byte \cup {None}
      /\ sent = <<>> => wire = None
      /\ lost \in 0 .. MaxLost
      /\ damaged \subseteq 1 .. Len(sent)
      /\ MaxLost \in Nat
  BY FramingAssumption DEF TypeOK
<1>c. {STX, ETX, DLE} \subseteq Byte
  BY DEF STX, ETX, DLE, Byte
<1>1. ASSUME NEW p \in Packets, WriteStx(p) PROVE TypeOK'
  <2>1. /\ sent' \in Seq(Packets) /\ Len(sent') = Len(sent) + 1
        /\ Packet' = p /\ sent' # <<>>
    BY <1>1, <1>b DEF WriteStx, Packet
  <2>2. Len(p) \in Nat /\ MaxPackets \in Nat
    BY PacketFacts, FramingAssumption
  <2>3. /\ tx' = [pc |-> "frame", i |-> 0] /\ wire' = STX
        /\ UNCHANGED <<rx, got, lost, damaged>>
        /\ Len(sent) < MaxPackets
    BY <1>1 DEF WriteStx
  <2>4. damaged' \subseteq 1 .. Len(sent') /\ Len(sent') <= MaxPackets
    BY <2>1, <2>2, <2>3, <1>b, <1>e
  <2>5. /\ tx' \in [pc : {"idle", "frame", "escaped"}, i : Nat]
        /\ tx'.i <= Len(Packet') /\ tx'.pc # "escaped"
    BY <2>1, <2>2, <2>3
  <2>6. QED
    BY <1>l, <1>c, <1>d, <1>e, <2>1, <2>3, <2>4, <2>5 DEF TypeOK
<1>2. CASE WriteByte
  <2>1. sent # <<>> /\ Packet' = Packet /\ tx.i < Len(Packet)
    BY <1>2, <1>a DEF WriteByte, Packet
  <2>2. Packet \in Packets
    BY <2>1, PacketType
  <2>3. Packet[tx.i + 1] \in Byte /\ Len(Packet) \in Nat
    BY <1>a, <2>1, <2>2, PacketFacts
  <2>4. /\ tx' \in [pc : {"idle", "frame", "escaped"}, i : Nat]
        /\ tx'.i <= Len(Packet)
        /\ tx'.pc = "escaped" => tx'.i < Len(Packet)
    BY <1>2, <1>a, <2>1, <2>3 DEF WriteByte
  <2>5. wire' \in Byte \cup {None} /\ UNCHANGED <<sent, rx, got, lost, damaged>>
    BY <1>2, <1>c, <2>3 DEF WriteByte
  <2>6. QED
    BY <1>l, <1>b, <1>d, <1>e, <2>1, <2>4, <2>5 DEF TypeOK
<1>3. CASE WriteEscaped
  <2>1. sent # <<>> /\ Packet' = Packet /\ tx.i < Len(Packet)
    BY <1>3, <1>a DEF WriteEscaped, Packet
  <2>2. Packet \in Packets
    BY <2>1, PacketType
  <2>3. Packet[tx.i + 1] \in Byte /\ Len(Packet) \in Nat
    BY <1>a, <2>1, <2>2, PacketFacts
  <2>4. /\ tx' \in [pc : {"idle", "frame", "escaped"}, i : Nat]
        /\ tx'.i <= Len(Packet) /\ tx'.pc # "escaped"
    BY <1>3, <1>a, <2>1, <2>3 DEF WriteEscaped
  <2>5. wire' \in Byte \cup {None} /\ UNCHANGED <<sent, rx, got, lost, damaged>>
    BY <1>3, <2>3 DEF WriteEscaped
  <2>6. QED
    BY <1>l, <1>b, <1>d, <1>e, <2>1, <2>4, <2>5 DEF TypeOK
<1>4. CASE WriteEtx
  <2>1. /\ wire' = ETX /\ tx' = [tx EXCEPT !.pc = "idle"] /\ sent # <<>>
        /\ UNCHANGED <<sent, rx, got, lost, damaged>>
    BY <1>4, <1>a DEF WriteEtx
  <2>2. QED
    BY <1>l, <1>a, <1>b, <1>c, <1>d, <1>e, <2>1 DEF TypeOK
<1>5. ASSUME NEW c \in Byte, ReceiveByte(c) PROVE TypeOK'
  <2>1. wire' = None /\ UNCHANGED <<tx, sent, lost, damaged>>
    BY <1>5 DEF ReceiveByte, Skip, Begin, BeginEscape, FrameError, Store,
                Overrun, End, Read
  <2>2. Packet' = Packet
    BY <2>1 DEF Packet
  <2>3. Append(rx.buf, c) \in Seq(Byte) /\ <<>> \in Seq(Byte)
    BY <1>5, <1>d
  <2>4. rx' \in RxType /\ got' \in Seq(Seq(Byte))
    <3>1. CASE Skip(c)
      BY <3>1, <1>d DEF Skip
    <3>2. CASE Begin(c)
      BY <3>2, <1>d, <2>3 DEF Begin
    <3>3. CASE BeginEscape(c)
      BY <3>3, <1>d DEF BeginEscape
    <3>4. CASE FrameError(c)
      BY <3>4, <1>d DEF FrameError, Outside
    <3>5. CASE Store(c)
      BY <3>5, <1>d, <2>3 DEF Store
    <3>6. CASE Overrun(c)
      BY <3>6, <1>d, <2>3, OutsideType DEF Overrun
    <3>7. CASE End(c)
      <4>1. PICK b \in Seq(Byte) : rx' = Outside(b)
        BY <3>7, <1>d, <2>3 DEF End
      <4>2. got' \in Seq(Seq(Byte))
        <5>1. Append(got, rx.buf) \in Seq(Seq(Byte))
          BY <1>d
        <5>2. QED
          BY <3>7, <1>d, <5>1 DEF End, Complete
      <4>3. Outside(b) \in RxType
        BY OutsideType
      <4>4. QED
        BY <4>1, <4>2, <4>3
    <3>8. QED
      BY <1>5, <3>1, <3>2, <3>3, <3>4, <3>5, <3>6, <3>7 DEF ReceiveByte
  <2>5. QED
    BY <1>l, <1>a, <1>b, <1>e, <2>1, <2>2, <2>4 DEF TypeOK
<1>6. CASE SerialDiscard
  <2>1. /\ UNCHANGED <<tx, sent, got, lost>> /\ Packet' = Packet
        /\ rx' = rx \/ rx' = [rx EXCEPT !.discarding = FALSE]
        /\ wire' = wire \/ wire' = None
        /\ damaged' = damaged \/ (wire # None /\ damaged' = damaged \cup {Len(sent)})
    BY <1>6 DEF SerialDiscard, Packet
  <2>2. rx' \in RxType
    BY <1>d, <2>1
  <2>3. damaged' \subseteq 1 .. Len(sent)
    BY <1>b, <1>e, <2>1
  <2>4. QED
    BY <1>l, <1>a, <1>b, <1>d, <1>e, <2>1, <2>2, <2>3 DEF TypeOK
<1>7. CASE Lose
  <2>1. /\ UNCHANGED <<tx, sent, rx, got>> /\ Packet' = Packet
        /\ wire # None /\ wire' = None
        /\ lost < MaxLost /\ lost' = lost + 1
        /\ damaged' = damaged \cup {Len(sent)}
    BY <1>7 DEF Lose, Packet
  <2>2. damaged' \subseteq 1 .. Len(sent)
    <3>1. Len(sent) \in 1 .. Len(sent)
      BY <1>b, <1>e, <2>1
    <3>2. QED
      BY <1>e, <2>1, <3>1
  <2>3. lost' \in 0 .. MaxLost
    BY <1>e, <2>1
  <2>4. QED
    BY <1>l, <1>a, <1>b, <1>d, <1>e, <2>1, <2>2, <2>3 DEF TypeOK
<1>8. CASE UNCHANGED vars
  BY <1>l, <1>8 DEF vars, Packet, TypeOK
<1>9. QED
  BY <1>1, <1>2, <1>3, <1>4, <1>5, <1>6, <1>7, <1>8 DEF Next, Send, Receive, ReceiveByte

THEOREM Types == Spec => []TypeOK
<1>1. Init => TypeOK
  BY FramingAssumption DEF Init, TypeOK
<1>2. QED
  BY <1>1, TypeStep, PTL DEF Spec

-------------------------------------------------------------------------------
(* Sender and receiver in step *)

\* A packet that was read to its end is complete, and is the packet sent.
LEMMA HasReadAll ==
  ASSUME TypeOK, sent # <<>>, HasRead(Len(Packet))
  PROVE  rx.buf = Packet /\ Complete(rx.buf)
<1>1. /\ rx.buf \in Seq(Byte) /\ Packet \in Seq(Byte)
      /\ Len(Packet) > 1 /\ Packet[2] = Len(Packet) /\ Len(Packet) \in Nat
  BY PacketType, PacketFacts DEF TypeOK
<1>2. Len(rx.buf) = Len(Packet)
      /\ \A j \in 1 .. Len(rx.buf) : rx.buf[j] = Packet[j]
  BY DEF HasRead
<1>3. rx.buf = Packet
  BY <1>1, <1>2, SeqEqual
<1>4. QED
  BY <1>1, <1>3 DEF Complete

\* The types the steps below need, with the control bytes apart from None.
LEMMA TypeFacts ==
  ASSUME TypeOK
  PROVE  /\ tx \in [pc : {"idle", "frame", "escaped"}, i : Nat]
         /\ tx.pc # "idle" => sent # <<>> /\ tx.i <= Len(Packet)
         /\ tx.pc = "escaped" => tx.i < Len(Packet)
         /\ sent \in Seq(Packets) /\ Len(sent) \in Nat
         /\ sent = <<>> => wire = None
         /\ rx \in [in_frame : BOOLEAN, in_escape : BOOLEAN, buf : Seq(Byte),
                    discarding : BOOLEAN]
         /\ None \notin Byte /\ {STX, ETX, DLE} \subseteq Byte
         /\ damaged \subseteq 1 .. Len(sent)
         /\ sent # <<>> => /\ Packet \in Seq(Byte) /\ Len(Packet) \in Nat
                           /\ Len(sent) \in 1 .. Len(sent)
                           /\ \A j \in 1 .. Len(Packet) : Packet[j] \in Byte
<1>1. sent # <<>> => /\ Packet \in Seq(Byte) /\ Len(Packet) \in Nat
                     /\ Len(sent) \in 1 .. Len(sent)
                     /\ \A j \in 1 .. Len(Packet) : Packet[j] \in Byte
  <2> SUFFICES ASSUME sent # <<>>
               PROVE  /\ Packet \in Seq(Byte) /\ Len(Packet) \in Nat
                      /\ Len(sent) \in 1 .. Len(sent)
                      /\ \A j \in 1 .. Len(Packet) : Packet[j] \in Byte
    OBVIOUS
  <2>1. Packet \in Packets /\ Len(sent) \in Nat \ {0}
    BY PacketType
  <2> QED
    BY <2>1, PacketFacts
<1>2. {STX, ETX, DLE} \subseteq Byte
  BY DEF STX, ETX, DLE, Byte
<1> QED
  BY <1>1, <1>2, FramingAssumption DEF TypeOK

\* What a step of the line or of the receiver's driver loses is counted to the
\* packet under way.
LEMMA Losing ==
  ASSUME TypeOK, Lose \/ SerialDiscard
  PROVE  /\ UNCHANGED <<tx, sent, got>>
         /\ \/ /\ damaged' = damaged \cup {Len(sent)} /\ Len(sent) \in damaged'
               /\ wire # None /\ wire' = None /\ rx' = rx
            \/ /\ UNCHANGED <<damaged, wire, lost>> /\ rx.discarding
               /\ rx' = [rx EXCEPT !.discarding = FALSE]
  BY DEF Lose, SerialDiscard

LEMMA Reading ==
  ASSUME NEW c \in Byte, ReceiveByte(c)
  PROVE  /\ wire = c /\ wire' = None /\ ~rx.discarding
         /\ UNCHANGED <<tx, sent, lost, damaged>> /\ Packet' = Packet
  BY DEF ReceiveByte, Skip, Begin, BeginEscape, FrameError, Store, Overrun, End,
         Read, Packet

\* Every byte but a DLE that begins one ends an escape.
LEMMA EscapeEnds ==
  ASSUME TypeOK, ~rx.in_frame => ~rx.in_escape, NEW c \in Byte, ReceiveByte(c),
         ~BeginEscape(c)
  PROVE  ~rx'.in_escape
<1>1. rx \in [in_frame : BOOLEAN, in_escape : BOOLEAN, buf : Seq(Byte),
              discarding : BOOLEAN]
  BY TypeFacts
<1>2. CASE Skip(c) \/ Begin(c)
  BY <1>1, <1>2 DEF Skip, Begin
<1>3. CASE Store(c)
  BY <1>1, <1>3 DEF Store
<1>4. CASE FrameError(c) \/ Overrun(c) \/ End(c)
  BY <1>4 DEF FrameError, Overrun, End, Outside
<1> QED
  BY <1>2, <1>3, <1>4 DEF ReceiveByte

LEMMA AlignedStep == TypeOK /\ AlignedInv /\ [Next]_vars => AlignedInv'
<1> SUFFICES ASSUME TypeOK, AlignedInv, [Next]_vars PROVE AlignedInv'
  OBVIOUS
<1>a. /\ tx \in [pc : {"idle", "frame", "escaped"}, i : Nat]
      /\ tx.pc # "idle" => sent # <<>> /\ tx.i <= Len(Packet)
      /\ tx.pc = "escaped" => tx.i < Len(Packet)
      /\ sent \in Seq(Packets) /\ Len(sent) \in Nat
      /\ rx \in [in_frame : BOOLEAN, in_escape : BOOLEAN, buf : Seq(Byte),
                 discarding : BOOLEAN]
      /\ None \notin Byte /\ {STX, ETX, DLE} \subseteq Byte
      /\ sent # <<>> => \A j \in 1 .. Len(Packet) : Packet[j] \in Byte
  BY TypeFacts
<1>b. /\ ~rx.in_frame => ~rx.in_escape
      /\ Len(sent) \notin damaged => Aligned
  BY DEF AlignedInv
<1>1. ASSUME NEW p \in Packets, WriteStx(p) PROVE AlignedInv'
  BY <1>1, <1>b DEF WriteStx, AlignedInv, Aligned
<1>2. CASE WriteByte
  <2>1. /\ tx.pc = "frame" /\ wire = None /\ tx.i < Len(Packet)
        /\ UNCHANGED <<sent, rx, damaged>> /\ Packet' = Packet
    BY <1>2 DEF WriteByte, Packet
  <2>2. SUFFICES ASSUME Len(sent) \notin damaged PROVE Aligned'
    BY <1>b, <2>1 DEF AlignedInv
  <2>3. ~rx.in_escape
    <3>1. tx.i > 0 => Packet[tx.i] \in Byte
      BY <1>a, <2>1
    <3> QED
      BY <1>a, <1>b, <2>1, <2>2, <3>1 DEF Aligned
  <2>4. CASE Packet[tx.i + 1] \in Special
    <3>1. wire' = DLE /\ tx' = [tx EXCEPT !.pc = "escaped"]
      BY <1>2, <2>4 DEF WriteByte
    <3> QED
      BY <1>a, <2>1, <2>3, <2>4, <3>1 DEF Aligned
  <2>5. CASE Packet[tx.i + 1] \notin Special
    <3>1. wire' = Packet[tx.i + 1] /\ tx' = [tx EXCEPT !.i = @ + 1]
      BY <1>2, <2>5 DEF WriteByte
    <3>2. tx'.i = tx.i + 1 /\ tx'.i > 0 /\ tx'.pc = "frame"
      BY <1>a, <2>1, <3>1
    <3> QED
      BY <2>1, <2>3, <2>5, <3>1, <3>2 DEF Aligned
  <2> QED
    BY <2>4, <2>5
<1>3. CASE WriteEscaped
  <2>1. /\ tx.pc = "escaped" /\ wire = None /\ wire' = Packet[tx.i + 1]
        /\ tx' = [pc |-> "frame", i |-> tx.i + 1]
        /\ UNCHANGED <<sent, rx, damaged>> /\ Packet' = Packet
    BY <1>3 DEF WriteEscaped, Packet
  <2>2. SUFFICES ASSUME Len(sent) \notin damaged PROVE Aligned'
    BY <1>b, <2>1 DEF AlignedInv
  <2>3. Packet[tx.i + 1] \in Special /\ (rx.in_frame => rx.in_escape)
    BY <1>a, <1>b, <2>1, <2>2 DEF Aligned
  <2>4. tx'.i = tx.i + 1 /\ tx'.i > 0 /\ tx'.pc = "frame"
    BY <1>a, <2>1
  <2> QED
    BY <2>1, <2>3, <2>4 DEF Aligned
<1>4. CASE WriteEtx
  <2>1. /\ tx.pc = "frame" /\ wire = None /\ tx.i = Len(Packet) /\ wire' = ETX
        /\ tx' = [tx EXCEPT !.pc = "idle"]
        /\ UNCHANGED <<sent, rx, damaged>>
    BY <1>4 DEF WriteEtx
  <2>2. SUFFICES ASSUME Len(sent) \notin damaged PROVE Aligned'
    BY <1>b, <2>1 DEF AlignedInv
  <2>3. ~rx.in_escape
    <3>1. tx.i > 0 => Packet[tx.i] \in Byte
      BY <1>a, <2>1
    <3> QED
      BY <1>a, <1>b, <2>1, <2>2, <3>1 DEF Aligned
  <2>4. tx'.pc = "idle" /\ wire' # None
    BY <1>a, <2>1
  <2> QED
    BY <1>a, <2>1, <2>3, <2>4 DEF Aligned
<1>5. ASSUME NEW c \in Byte, ReceiveByte(c) PROVE AlignedInv'
  <2>1. wire = c /\ wire' = None /\ ~rx.discarding /\ Packet' = Packet
        /\ UNCHANGED <<tx, sent, damaged>>
    BY <1>5, Reading
  <2>2. wire # None
    BY <1>a, <2>1
  <2>3. ~rx'.in_frame => ~rx'.in_escape
    <3>1. BeginEscape(c) => rx'.in_frame
      BY <1>a DEF BeginEscape
    <3> QED
      BY <1>5, <1>b, <3>1, EscapeEnds
  <2>4. SUFFICES ASSUME Len(sent) \notin damaged PROVE Aligned'
    BY <2>1, <2>3 DEF AlignedInv
  <2>5. Aligned
    BY <1>b, <2>4
  <2>6. CASE tx.pc = "idle"
    <3>1. c = ETX /\ ~rx.in_escape
      BY <2>1, <2>2, <2>5, <2>6 DEF Aligned
    <3>2. Skip(c) \/ End(c)
      BY <1>5, <3>1 DEF ReceiveByte, Begin, BeginEscape, FrameError, Store,
                        Overrun, IsData, Special, STX, ETX, DLE
    <3>3. ~rx'.in_frame /\ ~rx'.in_escape /\ ~rx'.discarding
      BY <1>b, <2>1, <3>2 DEF Skip, End, Outside
    <3> QED
      BY <2>1, <2>6, <3>3 DEF Aligned
  <2>7. CASE tx.pc = "frame"
    <3>1. ~BeginEscape(c)
      BY <2>1, <2>2, <2>5, <2>7 DEF Aligned, BeginEscape, Special, STX, DLE
    <3>2. ~rx'.in_escape
      BY <1>5, <1>b, <3>1, EscapeEnds
    <3> QED
      BY <2>1, <2>7, <3>2 DEF Aligned
  <2>8. CASE tx.pc = "escaped"
    <3>1. c = DLE /\ ~rx.in_escape /\ Packet[tx.i + 1] \in Special
      BY <2>1, <2>2, <2>5, <2>8 DEF Aligned
    <3>2. Skip(c) \/ BeginEscape(c)
      BY <1>5, <3>1 DEF ReceiveByte, Begin, FrameError, Store, Overrun, End,
                        IsData, Special, STX, ETX, DLE
    <3>3. rx'.in_frame => rx'.in_escape
      BY <1>a, <3>2 DEF Skip, BeginEscape
    <3> QED
      BY <2>1, <2>8, <3>1, <3>3 DEF Aligned
  <2> QED
    BY <1>a, <2>6, <2>7, <2>8
<1>6. CASE Lose \/ SerialDiscard
  <2>1. UNCHANGED <<tx, sent>> /\ Packet' = Packet
    BY <1>6, Losing DEF Packet
  <2>2. CASE Len(sent) \in damaged' /\ rx' = rx
    BY <1>b, <2>1, <2>2 DEF AlignedInv
  <2>3. CASE UNCHANGED <<damaged, wire>> /\ rx' = [rx EXCEPT !.discarding = FALSE]
    <3>1. /\ rx'.in_frame = rx.in_frame /\ rx'.in_escape = rx.in_escape
          /\ ~rx'.discarding
      BY <1>a, <2>3
    <3> QED
      BY <1>b, <2>1, <2>3, <3>1 DEF AlignedInv, Aligned
  <2> QED
    BY <1>6, <2>2, <2>3, Losing
<1>7. CASE UNCHANGED vars
  BY <1>7, <1>b DEF vars, AlignedInv, Aligned, Packet
<1> QED
  BY <1>1, <1>2, <1>3, <1>4, <1>5, <1>6, <1>7 DEF Next, Send, Receive

\* A packet whose frame and the frame before lost nothing is read step by step.
LEMMA CleanRead ==
  ASSUME TypeOK, AlignedInv, InStep, Len(sent) \in Clean,
         NEW c \in Byte, ReceiveByte(c)
  PROVE  \/ tx.pc = "idle" /\ End(c) /\ rx.buf = Packet /\ Complete(rx.buf)
         \/ tx.pc = "frame" /\ tx.i = 0 /\ Begin(c)
         \/ /\ tx.pc = "frame" /\ tx.i > 0 /\ c = Packet[tx.i] /\ Store(c)
            /\ rx.in_frame /\ HasRead(tx.i - 1)
         \/ tx.pc = "escaped" /\ BeginEscape(c) /\ rx.in_frame /\ HasRead(tx.i)
<1>a. /\ tx \in [pc : {"idle", "frame", "escaped"}, i : Nat]
      /\ tx.pc # "idle" => sent # <<>> /\ tx.i <= Len(Packet)
      /\ tx.pc = "escaped" => tx.i < Len(Packet)
      /\ Len(sent) \in Nat /\ sent # <<>>
      /\ rx \in [in_frame : BOOLEAN, in_escape : BOOLEAN, buf : Seq(Byte),
                 discarding : BOOLEAN]
      /\ None \notin Byte
  BY TypeFacts DEF Clean
<1>b. wire = c /\ wire # None /\ ~rx.discarding
  BY <1>a, Reading
<1>c. Aligned
  BY DEF AlignedInv, Clean
<1>d. IF Received < 0 THEN ~rx.in_frame ELSE rx.in_frame /\ HasRead(Received)
  <2>1. Finished < Len(sent)
    BY <1>a, <1>b DEF Finished
  <2> QED
    BY <2>1 DEF InStep
<1>1. CASE tx.pc = "idle"
  <2>1. tx.i = Len(Packet) /\ Received = Len(Packet) /\ Len(Packet) \in Nat
    BY <1>a, <1>1 DEF InStep, Received
  <2>2. rx.in_frame /\ HasRead(Len(Packet))
    BY <1>d, <2>1
  <2>3. c = ETX /\ ~rx.in_escape
    BY <1>1, <1>b, <1>c DEF Aligned
  <2>4. End(c)
    BY <2>2, <2>3 DEF ReceiveByte, Skip, Begin, BeginEscape, FrameError,
                      Store, Overrun, IsData, Special, STX, ETX, DLE
  <2> QED
    BY <1>1, <1>a, <2>2, <2>4, HasReadAll
<1>2. CASE tx.pc = "frame" /\ tx.i = 0
  <2>1. Received < 0 /\ ~rx.in_frame /\ c = STX
    BY <1>2, <1>b, <1>c, <1>d DEF Received, Aligned
  <2>2. Begin(c)
    BY <2>1 DEF ReceiveByte, Skip, BeginEscape, FrameError, Store, Overrun, End,
                IsData
  <2> QED
    BY <1>2, <2>2
<1>3. CASE tx.pc = "frame" /\ tx.i # 0
  <2>1. Received = tx.i - 1 /\ tx.i > 0 /\ ~(Received < 0)
    BY <1>3, <1>a, <1>b DEF Received
  <2>2. rx.in_frame /\ HasRead(tx.i - 1)
    BY <1>d, <2>1
  <2>3. c = Packet[tx.i] /\ (rx.in_escape <=> c \in Special)
    BY <1>3, <1>b, <1>c, <2>2 DEF Aligned
  <2>4. Store(c) \/ Overrun(c)
    BY <2>2, <2>3 DEF ReceiveByte, Skip, Begin, BeginEscape, FrameError, End,
                      Special
  <2>5. ~Overrun(c)
    <3>1. Len(Packet) < MaxFrame /\ Len(Packet) \in Nat
      BY <1>a, PacketType, PacketFacts
    <3>2. Len(Append(rx.buf, c)) = tx.i
      BY <1>a, <2>1, <2>2 DEF HasRead
    <3> QED
      BY <1>3, <1>a, <3>1, <3>2, FramingAssumption DEF Overrun, Fills
  <2> QED
    BY <1>3, <2>1, <2>2, <2>3, <2>4, <2>5
<1>4. CASE tx.pc = "escaped"
  <2>1. Received = tx.i /\ ~(Received < 0)
    BY <1>4, <1>a DEF Received
  <2>2. rx.in_frame /\ HasRead(tx.i)
    BY <1>d, <2>1
  <2>3. c = DLE /\ ~rx.in_escape
    BY <1>4, <1>b, <1>c DEF Aligned
  <2>4. BeginEscape(c)
    BY <2>2, <2>3 DEF ReceiveByte, Skip, Begin, FrameError, Store, Overrun, End,
                      IsData, Special, STX, ETX, DLE
  <2> QED
    BY <1>4, <2>2, <2>4
<1> QED
  BY <1>a, <1>1, <1>2, <1>3, <1>4

LEMMA InStepStep == TypeOK /\ AlignedInv /\ InStep /\ [Next]_vars => InStep'
<1> SUFFICES ASSUME TypeOK, AlignedInv, InStep, [Next]_vars, Len(sent') \in Clean'
             PROVE  InStep'
  BY DEF InStep
<1>a. /\ tx \in [pc : {"idle", "frame", "escaped"}, i : Nat]
      /\ tx.pc # "idle" => sent # <<>> /\ tx.i <= Len(Packet)
      /\ sent \in Seq(Packets) /\ Len(sent) \in Nat
      /\ rx \in [in_frame : BOOLEAN, in_escape : BOOLEAN, buf : Seq(Byte),
                 discarding : BOOLEAN]
      /\ None \notin Byte /\ {STX, ETX, DLE} \subseteq Byte
      /\ sent # <<>> => \A j \in 1 .. Len(Packet) : Packet[j] \in Byte
  BY TypeFacts
<1>1. ASSUME NEW p \in Packets, WriteStx(p) PROVE InStep'
  <2>1. /\ tx' = [pc |-> "frame", i |-> 0] /\ wire' = STX
        /\ rx' = rx /\ sent' = Append(sent, p) /\ damaged' = damaged
        /\ wire = None /\ tx.pc = "idle"
    BY <1>1 DEF WriteStx
  <2>2. Len(sent') - 1 = Len(sent)
    BY <1>a, <2>1
  <2>3. Len(sent) \notin damaged
    BY <2>1, <2>2 DEF Clean
  <2>4. ~rx.in_frame /\ ~rx.discarding
    BY <2>1, <2>3 DEF AlignedInv, Aligned
  <2>5. wire' # None
    BY <1>a, <2>1
  <2>6. Received' < 0
    BY <2>1, <2>5 DEF Received
  <2> QED
    BY <2>1, <2>4, <2>6 DEF InStep
<1>2. CASE WriteByte \/ WriteEscaped \/ WriteEtx
  <2>1. /\ UNCHANGED <<sent, rx, damaged>> /\ Packet' = Packet
        /\ wire = None /\ tx.pc # "idle"
    BY <1>2 DEF WriteByte, WriteEscaped, WriteEtx, Packet
  <2>2. ~rx.discarding /\ rx.in_frame /\ HasRead(tx.i)
    <3>1. Finished < Len(sent) /\ Received = tx.i /\ ~(Received < 0)
      BY <1>a, <2>1 DEF Finished, Received
    <3>2. Len(sent) \in Clean
      BY <2>1 DEF Clean
    <3> QED
      BY <3>1, <3>2 DEF InStep
  <2>3. HasRead(tx.i)'  <=> (Len(rx'.buf) = tx'.i /\ \A j \in 1 .. tx'.i : rx'.buf[j] = Packet'[j])
    BY DEF HasRead
  <2>4. Received' = tx.i
    <3>1. CASE WriteByte /\ Packet[tx.i + 1] \in Special
      BY <1>a, <3>1 DEF WriteByte, Received
    <3>2. CASE WriteByte /\ Packet[tx.i + 1] \notin Special
      <4>1. /\ wire' = Packet[tx.i + 1] /\ tx' = [tx EXCEPT !.i = @ + 1]
            /\ tx.pc = "frame" /\ tx.i + 1 \in 1 .. Len(Packet)
        BY <1>a, <3>2 DEF WriteByte
      <4>2. wire' # None /\ tx'.pc = "frame" /\ tx'.i - 1 = tx.i
        BY <1>a, <4>1
      <4> QED
        BY <4>2 DEF Received
    <3>3. CASE WriteEscaped
      <4>1. /\ wire' = Packet[tx.i + 1] /\ tx' = [pc |-> "frame", i |-> tx.i + 1]
            /\ tx.i + 1 \in 1 .. Len(Packet)
        BY <1>a, <3>3, TypeFacts DEF WriteEscaped
      <4>2. wire' # None /\ tx'.pc = "frame" /\ tx'.i - 1 = tx.i
        BY <1>a, <4>1, <2>1
      <4> QED
        BY <4>2 DEF Received
    <3>4. CASE WriteEtx
      BY <1>a, <3>4 DEF WriteEtx, Received
    <3> QED
      BY <1>2, <3>1, <3>2, <3>3, <3>4
  <2>5. tx'.pc = "idle" => tx'.i = Len(Packet')
    BY <1>2, <1>a, <2>1 DEF WriteByte, WriteEscaped, WriteEtx
  <2>6. Len(rx'.buf) = tx.i /\ \A j \in 1 .. tx.i : rx'.buf[j] = Packet'[j]
    BY <2>1, <2>2 DEF HasRead
  <2>7. ~(Received' < 0) /\ HasRead(Received)'
    BY <1>a, <2>4, <2>6 DEF HasRead
  <2> QED
    BY <2>1, <2>2, <2>5, <2>7 DEF InStep
<1>3. ASSUME NEW c \in Byte, ReceiveByte(c) PROVE InStep'
  <2>1. /\ wire = c /\ wire' = None /\ ~rx.discarding
        /\ UNCHANGED <<tx, sent, damaged>> /\ Packet' = Packet
    BY <1>3, Reading
  <2>2. Len(sent) \in Clean
    BY <2>1 DEF Clean
  <2>3. Received' = tx.i
    BY <2>1 DEF Received
  <2>4. tx'.pc = "idle" => tx'.i = Len(Packet')
    BY <2>1, <2>2 DEF InStep
  <2>5. CASE tx.pc = "idle" /\ End(c)
    <3>1. ~rx'.discarding
      BY <2>5 DEF End, Outside
    <3>2. ~(Finished' < Len(sent'))
      BY <1>a, <2>1, <2>5 DEF Finished
    <3> QED
      BY <2>4, <3>1, <3>2 DEF InStep
  <2>6. ASSUME rx'.in_frame, ~rx'.discarding, HasRead(tx.i)' PROVE InStep'
    <3>1. ~(Received' < 0) /\ HasRead(Received)'
      BY <1>a, <2>1, <2>3, <2>6 DEF HasRead
    <3> QED
      BY <2>4, <2>6, <3>1 DEF InStep
  <2>7. CASE tx.pc = "frame" /\ tx.i = 0 /\ Begin(c)
    <3>1. rx' = [rx EXCEPT !.in_frame = TRUE, !.buf = <<>>]
      BY <2>7 DEF Begin
    <3>2. rx'.in_frame /\ ~rx'.discarding /\ rx'.buf = <<>>
      BY <1>a, <2>1, <3>1
    <3>3. HasRead(tx.i)'
      BY <2>1, <2>7, <3>2 DEF HasRead
    <3> QED
      BY <2>6, <3>2, <3>3
  <2>8. CASE /\ tx.pc = "frame" /\ tx.i > 0 /\ c = Packet[tx.i] /\ Store(c)
             /\ rx.in_frame /\ HasRead(tx.i - 1)
    <3>1. rx' = [rx EXCEPT !.in_escape = FALSE, !.buf = Append(rx.buf, c)]
      BY <2>8 DEF Store
    <3>2. rx'.in_frame /\ ~rx'.discarding /\ rx'.buf = Append(rx.buf, c)
      BY <1>a, <2>1, <2>8, <3>1
    <3>3. Len(rx'.buf) = tx.i /\ \A j \in 1 .. tx.i : rx'.buf[j] = Packet[j]
      <4>1. Len(rx.buf) = tx.i - 1 /\ \A j \in 1 .. tx.i - 1 : rx.buf[j] = Packet[j]
        BY <2>8 DEF HasRead
      <4>2. rx.buf \in Seq(Byte) /\ tx.i \in Nat
        BY <1>a
      <4>3. Len(rx'.buf) = tx.i /\ rx'.buf[tx.i] = c
        BY <3>2, <4>1, <4>2
      <4>4. \A j \in 1 .. tx.i - 1 : rx'.buf[j] = rx.buf[j]
        BY <3>2, <4>1, <4>2
      <4> QED
        BY <2>8, <4>1, <4>2, <4>3, <4>4
    <3>4. HasRead(tx.i)'
      BY <2>1, <3>3 DEF HasRead
    <3> QED
      BY <2>6, <3>2, <3>4
  <2>9. CASE tx.pc = "escaped" /\ BeginEscape(c) /\ rx.in_frame /\ HasRead(tx.i)
    <3>1. rx' = [rx EXCEPT !.in_escape = TRUE]
      BY <2>9 DEF BeginEscape
    <3>2. rx'.in_frame /\ ~rx'.discarding /\ rx'.buf = rx.buf
      BY <1>a, <2>1, <2>9, <3>1
    <3>3. HasRead(tx.i)'
      BY <2>1, <2>9, <3>2 DEF HasRead
    <3> QED
      BY <2>6, <3>2, <3>3
  <2> QED
    BY <1>3, <2>2, <2>5, <2>7, <2>8, <2>9, CleanRead
<1>4. CASE Lose \/ SerialDiscard
  <2>1. UNCHANGED sent
    BY <1>4, Losing
  <2>2. Len(sent) \notin damaged'
    BY <2>1 DEF Clean
  <2>3. damaged' = damaged /\ rx.discarding
    BY <1>4, <2>2, Losing
  <2>4. Len(sent) \in Clean
    BY <2>1, <2>3 DEF Clean
  <2> QED
    BY <2>3, <2>4 DEF InStep
<1>5. CASE UNCHANGED vars
  BY <1>5 DEF vars, InStep, Clean, Finished, Received, HasRead, Packet
<1> QED
  BY <1>1, <1>2, <1>3, <1>4, <1>5 DEF Next, Send, Receive

\* Escapes are read where they are made, and a clean packet is read whole.
THEOREM InStepInvariance == Spec => [](AlignedInv /\ InStep)
<1>1. Init => AlignedInv /\ InStep
  BY DEF Init, AlignedInv, Aligned, InStep, Clean
<1> QED
  BY <1>1, Types, AlignedStep, InStepStep, PTL DEF Spec

\* A step passes a packet on from a clean frame exactly when it reads its ETX,
\* and it is the packet that was sent.
LEMMA CleanEnd ==
  ASSUME TypeOK, AlignedInv, InStep, Len(sent) \in Clean,
         NEW c \in Byte, ReceiveByte(c)
  PROVE  /\ tx.pc = "idle" => got' = Append(got, Packet)
         /\ tx.pc # "idle" => got' = got
<1>1. CASE tx.pc = "idle"
  <2>1. End(c) /\ rx.buf = Packet /\ Complete(rx.buf)
    BY <1>1, CleanRead
  <2> QED
    BY <1>1, <2>1 DEF End
<1>2. CASE tx.pc # "idle"
  <2>1. Begin(c) \/ Store(c) \/ BeginEscape(c)
    BY <1>2, CleanRead
  <2> QED
    BY <1>2, <2>1 DEF Begin, Store, BeginEscape
<1> QED
  BY <1>1, <1>2

\* From a clean frame nothing but its packet is passed on
\* (gw_uart.cpp:526-546, gateway.c:218-256).
THEOREM CleanFramesAreExact ==
  Spec => [][Len(sent) \in Clean /\ got' # got => got' = Append(got, Packet)]_vars
<1> DEFINE Exact == Len(sent) \in Clean /\ got' # got => got' = Append(got, Packet)
<1>1. TypeOK /\ AlignedInv /\ InStep /\ [Next]_vars => [Exact]_vars
  <2> SUFFICES ASSUME TypeOK, AlignedInv, InStep, Next, Len(sent) \in Clean,
                      got' # got
               PROVE  got' = Append(got, Packet)
    OBVIOUS
  <2>1. ASSUME NEW c \in Byte, ReceiveByte(c) PROVE got' = Append(got, Packet)
    BY <2>1, CleanEnd
  <2>2. ~Send /\ ~SerialDiscard /\ ~Lose
    BY DEF Send, WriteStx, WriteByte, WriteEscaped, WriteEtx, SerialDiscard, Lose
  <2> QED
    BY <2>1, <2>2 DEF Next, Receive
<1> QED
  BY <1>1, Types, InStepInvariance, PTL DEF Spec

-------------------------------------------------------------------------------
(* What was passed on *)

\* What the receiver passes on comes behind what it passed on before.
LEMMA GotGrows ==
  ASSUME TypeOK, [Next]_vars
  PROVE  /\ got \in Seq(Seq(Byte)) /\ got' \in Seq(Seq(Byte))
         /\ Len(got) \in Nat /\ Len(got') \in Nat /\ Len(got') >= Len(got)
         /\ \A j \in 1 .. Len(got) : got'[j] = got[j]
<1>1. got \in Seq(Seq(Byte)) /\ rx.buf \in Seq(Byte)
  BY DEF TypeOK
<1>2. got' = got \/ got' = Append(got, rx.buf)
  <2>1. \A c \in Byte : ReceiveByte(c) => got' = got \/ got' = Append(got, rx.buf)
    BY DEF ReceiveByte, Skip, Begin, BeginEscape, FrameError, Store, Overrun, End
  <2>2. Send \/ SerialDiscard \/ Lose \/ UNCHANGED vars => got' = got
    BY DEF Send, WriteStx, WriteByte, WriteEscaped, WriteEtx, SerialDiscard, Lose, vars
  <2> QED
    BY <2>1, <2>2 DEF Next, Receive
<1>3. CASE got' = got
  BY <1>1, <1>3
<1>4. CASE got' = Append(got, rx.buf)
  <2>1. got' \in Seq(Seq(Byte)) /\ Len(got') = Len(got) + 1
    BY <1>1, <1>4
  <2>2. \A j \in 1 .. Len(got) : got'[j] = got[j]
    BY <1>1, <1>4
  <2> QED
    BY <1>1, <2>1, <2>2
<1> QED
  BY <1>2, <1>3, <1>4

\* A packet once delivered stays so.
LEMMA StillDelivered ==
  ASSUME TypeOK, [Next]_vars, Delivered, CleanDone' = CleanDone,
         \A n \in CleanDone : sent'[n] = sent[n]
  PROVE  Delivered'
<1>1. PICK f : Delivers(f)
  BY DEF Delivered
<1>2. /\ f \in [CleanDone -> 1 .. Len(got)]
      /\ \A m, n \in CleanDone : m < n => f[m] < f[n]
      /\ \A n \in CleanDone : got[f[n]] = sent[n]
  BY <1>1 DEF Delivers
<1>3. \A j \in 1 .. Len(got) : j \in 1 .. Len(got') /\ got'[j] = got[j]
  BY GotGrows
<1>4. \A n \in CleanDone : f[n] \in 1 .. Len(got') /\ got'[f[n]] = sent'[n]
  BY <1>2, <1>3
<1>5. f \in [CleanDone' -> 1 .. Len(got')]
  BY <1>2, <1>4
<1>6. Delivers(f)'
  BY <1>2, <1>4, <1>5 DEF Delivers
<1> QED
  BY <1>6 DEF Delivered

LEMMA DeliveredStep ==
  TypeOK /\ AlignedInv /\ InStep /\ Delivered /\ [Next]_vars => Delivered'
<1> SUFFICES ASSUME TypeOK, AlignedInv, InStep, Delivered, [Next]_vars
             PROVE  Delivered'
  OBVIOUS
<1>a. /\ tx \in [pc : {"idle", "frame", "escaped"}, i : Nat]
      /\ sent \in Seq(Packets) /\ Len(sent) \in Nat /\ None \notin Byte
      /\ damaged \subseteq 1 .. Len(sent)
      /\ tx.pc # "idle" => sent # <<>>
      /\ sent = <<>> => wire = None
  BY TypeFacts
<1>b. STX \in Byte /\ ETX \in Byte
  BY DEF STX, ETX, Byte
<1>1. ASSUME NEW p \in Packets, WriteStx(p) PROVE Delivered'
  <2>1. /\ sent' = Append(sent, p) /\ damaged' = damaged /\ wire = None
        /\ tx.pc = "idle" /\ tx'.pc = "frame"
    BY <1>1 DEF WriteStx
  <2>2. /\ Len(sent') = Len(sent) + 1
        /\ \A n \in 1 .. Len(sent) : sent'[n] = sent[n]
    BY <1>a, <2>1
  <2>3. Finished = Len(sent) /\ Finished' = Len(sent)
    BY <1>a, <2>1, <2>2 DEF Finished
  <2>4. CleanDone' = CleanDone
    BY <1>a, <2>1, <2>2, <2>3 DEF CleanDone, Clean
  <2>5. \A n \in CleanDone : sent'[n] = sent[n]
    BY <2>2 DEF CleanDone, Clean
  <2> QED
    BY <2>4, <2>5, StillDelivered
<1>2. CASE WriteByte \/ WriteEscaped \/ WriteEtx
  <2>1. UNCHANGED <<sent, damaged>> /\ tx.pc # "idle"
    BY <1>2 DEF WriteByte, WriteEscaped, WriteEtx
  <2>2. ~(tx'.pc = "idle" /\ wire' = None)
    BY <1>2, <1>a, <1>b DEF WriteByte, WriteEscaped, WriteEtx
  <2>3. Finished' = Finished
    BY <2>1, <2>2 DEF Finished
  <2>4. CleanDone' = CleanDone
    BY <2>1, <2>3 DEF CleanDone, Clean
  <2> QED
    BY <2>1, <2>4, StillDelivered
<1>3. ASSUME NEW c \in Byte, ReceiveByte(c) PROVE Delivered'
  <2>1. wire = c /\ wire' = None /\ UNCHANGED <<tx, sent, damaged>>
    BY <1>3, Reading
  <2>2. Clean' = Clean
    BY <2>1 DEF Clean
  <2>3. wire # None /\ Finished = Len(sent) - 1 /\ Len(sent) >= 1
    BY <1>a, <2>1 DEF Finished
  <2>4. CASE tx.pc # "idle" \/ Len(sent) \notin Clean
    <3>1. CleanDone' = CleanDone
      <4>1. Finished' = Finished \/ (Finished' = Len(sent) /\ Len(sent) \notin Clean)
        BY <2>1, <2>3, <2>4 DEF Finished
      <4>2. \A n \in Clean : n \in 1 .. Len(sent)
        BY DEF Clean
      <4> QED
        BY <1>a, <2>2, <2>3, <4>1, <4>2 DEF CleanDone
    <3> QED
      BY <2>1, <3>1, StillDelivered
  <2>5. CASE tx.pc = "idle" /\ Len(sent) \in Clean
    <3>1. got' = Append(got, Packet)
      BY <1>3, <2>5, CleanEnd
    <3> DEFINE N == Len(sent)
               G == Len(got)
    <3>2. N \in Nat /\ N >= 1 /\ G \in Nat /\ Len(got') = G + 1 /\ got'[G + 1] = sent[N]
      BY <1>a, <2>3, <3>1, GotGrows DEF Packet
    <3>3. \A j \in 1 .. G : got'[j] = got[j]
      BY GotGrows
    <3>4. /\ \A n \in CleanDone : n \in Nat /\ n < N
          /\ CleanDone' = CleanDone \cup {N}
      <4>1. Finished' = N
        BY <2>1, <2>5 DEF Finished
      <4>2. \A n \in Clean : n \in 1 .. N
        BY DEF Clean
      <4> QED
        BY <1>a, <2>2, <2>3, <2>5, <4>1, <4>2 DEF CleanDone
    <3>5. PICK f : Delivers(f)
      BY DEF Delivered
    <3>6. /\ f \in [CleanDone -> 1 .. G]
          /\ \A m, n \in CleanDone : m < n => f[m] < f[n]
          /\ \A n \in CleanDone : got[f[n]] = sent[n]
      BY <3>5 DEF Delivers
    <3>g. PICK g : g = [n \in CleanDone \cup {N} |-> IF n = N THEN G + 1 ELSE f[n]]
      OBVIOUS
    <3>7. \A n \in CleanDone : g[n] = f[n] /\ g[n] \in 1 .. G /\ g[n] < G + 1
      BY <3>2, <3>4, <3>6, <3>g
    <3>8. g[N] = G + 1 /\ G + 1 \in 1 .. Len(got')
      BY <3>2, <3>g
    <3>9. g \in [CleanDone' -> 1 .. Len(got')]
      BY <3>2, <3>4, <3>6, <3>7, <3>8, <3>g
    <3>10. \A m, n \in CleanDone' : m < n => g[m] < g[n]
      BY <3>2, <3>4, <3>6, <3>7, <3>8
    <3>11. \A n \in CleanDone' : got'[g[n]] = sent'[n]
      BY <2>1, <3>2, <3>3, <3>4, <3>6, <3>7, <3>8
    <3>12. Delivers(g)'
      BY <3>9, <3>10, <3>11 DEF Delivers
    <3> QED
      BY <3>12 DEF Delivered
  <2> QED
    BY <2>4, <2>5
<1>4. CASE Lose \/ SerialDiscard
  <2>1. UNCHANGED <<tx, sent>>
    BY <1>4, Losing
  <2>2. CASE UNCHANGED <<damaged, wire>>
    <3>1. CleanDone' = CleanDone
      BY <2>1, <2>2 DEF CleanDone, Clean, Finished
    <3> QED
      BY <2>1, <3>1, StillDelivered
  <2>3. CASE damaged' = damaged \cup {Len(sent)} /\ wire # None /\ wire' = None
    <3>1. Finished = Len(sent) - 1 /\ Finished' \in {Len(sent), Len(sent) - 1}
      BY <2>1, <2>3 DEF Finished
    <3>2. \A n \in 1 .. Len(sent) :
            n \in CleanDone' <=> n \in CleanDone
      <4> SUFFICES ASSUME NEW n \in 1 .. Len(sent)
                   PROVE  n \in CleanDone' <=> n \in CleanDone
        OBVIOUS
      <4>1. CASE n = Len(sent)
        BY <1>a, <2>1, <2>3, <3>1, <4>1 DEF CleanDone, Clean
      <4>2. CASE n < Len(sent)
        <5>1. n <= Finished /\ n <= Finished'
          BY <1>a, <3>1, <4>2
        <5>2. n # Len(sent) /\ n - 1 # Len(sent)
          BY <1>a, <4>2
        <5>3. {n - 1, n} \cap damaged' = {n - 1, n} \cap damaged
          BY <2>3, <5>2
        <5> QED
          BY <2>1, <5>1, <5>3 DEF CleanDone, Clean
      <4> QED
        BY <1>a, <4>1, <4>2
    <3>3. CleanDone' = CleanDone
      BY <2>1, <3>2 DEF CleanDone, Clean
    <3> QED
      BY <2>1, <3>3, StillDelivered
  <2> QED
    BY <1>4, <2>2, <2>3, Losing
<1>5. CASE UNCHANGED vars
  <2>1. CleanDone' = CleanDone /\ sent' = sent
    BY <1>5 DEF vars, CleanDone, Clean, Finished
  <2> QED
    BY <2>1, StillDelivered
<1> QED
  BY <1>1, <1>2, <1>3, <1>4, <1>5 DEF Next, Send, Receive

\* A receiver that got out of step is back in step one packet later: for every
\* set of packets, any number of losses and whatever the rest of a damaged
\* packet looks like, each packet that is whole and follows a whole one arrives,
\* in the order of sending (operate_gw_uart_rx, gw_uart.cpp:389-546;
\* gw_uart_serial_cb, gateway.c:118-265).
THEOREM BackInStep == Spec => []Resync
<1>1. Init => Delivered
  <2> SUFFICES ASSUME Init PROVE Delivered
    OBVIOUS
  <2>1. CleanDone = {}
    BY DEF Init, CleanDone, Clean
  <2> DEFINE f == [n \in {} |-> 0]
  <2>2. f \in [CleanDone -> 1 .. Len(got)]
    BY <2>1
  <2>3. Delivers(f)
    BY <2>1, <2>2 DEF Delivers
  <2> QED
    BY <2>3 DEF Delivered
<1>2. TypeOK /\ Delivered => Resync
  <2> SUFFICES ASSUME TypeOK, Delivered, AtRest
               PROVE  \E f \in [Clean -> 1 .. Len(got)] :
                        /\ \A m, n \in Clean : m < n => f[m] < f[n]
                        /\ \A n \in Clean : got[f[n]] = sent[n]
    BY DEF Resync
  <2>1. CleanDone = Clean
    <3>1. Finished = Len(sent) /\ Len(sent) \in Nat
      BY TypeFacts DEF AtRest, Finished
    <3> QED
      BY <3>1 DEF CleanDone, Clean
  <2>2. PICK f : Delivers(f)
    BY DEF Delivered
  <2> QED
    BY <2>1, <2>2 DEF Delivers
<1> QED
  BY <1>1, <1>2, Types, InStepInvariance, DeliveredStep, PTL DEF Spec

\* OnlyLossesForge with a name for what f says: where the packets that were passed
\* on come from.
Origins(f) ==
  /\ f \in [1 .. Len(got) -> 1 .. Len(sent)]
  /\ \A i, j \in 1 .. Len(got) : i < j => f[i] <= f[j]
  /\ \A i, j \in 1 .. Len(got) : i < j /\ f[i] = f[j] => f[j] \notin Clean
  /\ \A j \in 1 .. Len(got) : f[j] \in Clean => /\ f[j] <= Finished
                                                /\ got[j] = sent[f[j]]

LEMMA SameOrigins ==
  ASSUME TypeOK, OnlyLossesForge, got' = got,
         Len(sent') \in Nat, Len(sent') >= Len(sent),
         \A n \in 1 .. Len(sent) : sent'[n] = sent[n] /\ (n \in Clean' => n \in Clean),
         Finished' >= Finished
  PROVE  OnlyLossesForge'
<1>1. PICK f : Origins(f)
  BY DEF OnlyLossesForge, Origins
<1>2. /\ f \in [1 .. Len(got) -> 1 .. Len(sent)]
      /\ \A i, j \in 1 .. Len(got) : i < j => f[i] <= f[j]
      /\ \A i, j \in 1 .. Len(got) : i < j /\ f[i] = f[j] => f[j] \notin Clean
      /\ \A j \in 1 .. Len(got) : f[j] \in Clean => /\ f[j] <= Finished
                                                    /\ got[j] = sent[f[j]]
  BY <1>1 DEF Origins
<1>3. /\ Len(sent) \in Nat /\ Finished \in Int /\ Finished' \in Int
      /\ \A n \in 1 .. Len(sent) : n \in 1 .. Len(sent')
  BY TypeFacts DEF Finished
<1>4. \A j \in 1 .. Len(got) : f[j] \in 1 .. Len(sent) /\ f[j] \in 1 .. Len(sent')
  BY <1>2, <1>3
<1>5. f \in [1 .. Len(got') -> 1 .. Len(sent')]
  BY <1>2, <1>4
<1>6. \A j \in 1 .. Len(got') : f[j] \in Clean' => /\ f[j] <= Finished'
                                                   /\ got'[j] = sent'[f[j]]
  BY <1>2, <1>3, <1>4
<1>7. \A i, j \in 1 .. Len(got') : i < j /\ f[i] = f[j] => f[j] \notin Clean'
  BY <1>2, <1>4
<1>8. Origins(f)'
  BY <1>2, <1>5, <1>6, <1>7 DEF Origins
<1> QED
  BY <1>8 DEF OnlyLossesForge, Origins

LEMMA OnlyLossesForgeStep ==
  TypeOK /\ AlignedInv /\ InStep /\ OnlyLossesForge /\ [Next]_vars => OnlyLossesForge'
<1> SUFFICES ASSUME TypeOK, AlignedInv, InStep, OnlyLossesForge, [Next]_vars
             PROVE  OnlyLossesForge'
  OBVIOUS
<1>a. /\ tx \in [pc : {"idle", "frame", "escaped"}, i : Nat]
      /\ sent \in Seq(Packets) /\ Len(sent) \in Nat /\ None \notin Byte
      /\ damaged \subseteq 1 .. Len(sent)
      /\ tx.pc # "idle" => sent # <<>>
      /\ sent = <<>> => wire = None
  BY TypeFacts
<1>b. /\ Finished \in {Len(sent) - 1, Len(sent)}
      /\ Len(sent) >= 1 => Finished \in Nat
  BY <1>a DEF Finished
<1>1. ASSUME NEW p \in Packets, WriteStx(p) PROVE OnlyLossesForge'
  <2>1. /\ sent' = Append(sent, p) /\ damaged' = damaged /\ got' = got
        /\ tx.pc = "idle" /\ tx'.pc = "frame"
    BY <1>1 DEF WriteStx
  <2>2. /\ Len(sent') = Len(sent) + 1
        /\ \A n \in 1 .. Len(sent) : sent'[n] = sent[n]
    BY <1>a, <2>1
  <2>3. Finished' = Len(sent)
    BY <1>a, <2>1, <2>2 DEF Finished
  <2>4. \A n \in 1 .. Len(sent) : n \in Clean' => n \in Clean
    BY <2>1 DEF Clean
  <2> QED
    BY <1>a, <1>b, <2>1, <2>2, <2>3, <2>4, SameOrigins
<1>2. CASE \/ WriteByte \/ WriteEscaped \/ WriteEtx
           \/ Lose \/ SerialDiscard \/ UNCHANGED vars
  <2>1. got' = got /\ sent' = sent /\ damaged \subseteq damaged'
    BY <1>2 DEF WriteByte, WriteEscaped, WriteEtx, Lose, SerialDiscard, vars
  <2>2. Finished' >= Finished
    <3>1. CASE WriteByte \/ WriteEscaped \/ WriteEtx
      BY <1>a, <2>1, <3>1 DEF WriteByte, WriteEscaped, WriteEtx, Finished
    <3>2. CASE Lose \/ SerialDiscard \/ UNCHANGED vars
      BY <1>a, <2>1, <3>2 DEF Lose, SerialDiscard, vars, Finished
    <3> QED
      BY <1>2, <3>1, <3>2
  <2>3. \A n \in 1 .. Len(sent) : n \in Clean' => n \in Clean
    BY <2>1 DEF Clean
  <2> QED
    BY <1>a, <2>1, <2>2, <2>3, SameOrigins
<1>3. ASSUME NEW c \in Byte, ReceiveByte(c) PROVE OnlyLossesForge'
  <2>1. wire = c /\ wire' = None /\ UNCHANGED <<tx, sent, damaged>>
    BY <1>3, Reading
  <2>2. Clean' = Clean
    BY <2>1 DEF Clean
  <2>3. /\ Finished = Len(sent) - 1 /\ Len(sent) >= 1
        /\ Finished' \in {Len(sent) - 1, Len(sent)}
        /\ tx.pc = "idle" => Finished' = Len(sent)
    BY <1>a, <2>1 DEF Finished
  <2>4. CASE got' = got
    BY <1>a, <2>1, <2>2, <2>3, <2>4, SameOrigins
  <2>5. CASE got' # got
    <3> DEFINE N == Len(sent)
               G == Len(got)
    <3>1. /\ G \in Nat /\ Len(got') = G + 1
          /\ \A j \in 1 .. G : got'[j] = got[j]
      <4>1. got' = Append(got, rx.buf)
        BY <1>3, <2>5 DEF ReceiveByte, Skip, Begin, BeginEscape, FrameError, Store,
                          Overrun, End
      <4>2. got \in Seq(Seq(Byte)) /\ rx.buf \in Seq(Byte)
        BY DEF TypeOK
      <4> QED
        BY <4>1, <4>2
    <3>2. N \in Clean => Finished' = N /\ got'[G + 1] = sent'[N]
      <4>1. ASSUME N \in Clean PROVE tx.pc = "idle" /\ got' = Append(got, sent[N])
        BY <1>3, <2>5, <4>1, CleanEnd DEF Packet
      <4>2. got \in Seq(Seq(Byte))
        BY DEF TypeOK
      <4>3. N \in Clean => Append(got, sent[N])[G + 1] = sent[N]
        BY <4>2
      <4> QED
        BY <2>1, <2>3, <4>1, <4>3
    <3>3. PICK f : Origins(f)
      BY DEF OnlyLossesForge, Origins
    <3>4. /\ f \in [1 .. G -> 1 .. N]
          /\ \A i, j \in 1 .. G : i < j => f[i] <= f[j]
          /\ \A i, j \in 1 .. G : i < j /\ f[i] = f[j] => f[j] \notin Clean
          /\ \A j \in 1 .. G : f[j] \in Clean => f[j] <= Finished /\ got[j] = sent[f[j]]
      BY <3>3 DEF Origins
    <3>g. PICK g : g = [j \in 1 .. G + 1 |-> IF j = G + 1 THEN N ELSE f[j]]
      OBVIOUS
    <3>5. g[G + 1] = N /\ \A j \in 1 .. G : g[j] = f[j] /\ g[j] \in 1 .. N
      BY <3>1, <3>4, <3>g
    <3>6. \A j \in 1 .. G + 1 : j = G + 1 \/ j \in 1 .. G
      BY <3>1
    <3>7. g \in [1 .. Len(got') -> 1 .. Len(sent')]
      <4>1. N \in 1 .. N
        BY <1>a, <2>3
      <4>2. DOMAIN g = 1 .. G + 1 /\ g = [j \in 1 .. G + 1 |-> g[j]]
        BY <3>g
      <4>3. \A j \in 1 .. G + 1 : g[j] \in 1 .. N
        BY <3>5, <3>6, <4>1
      <4> QED
        BY <2>1, <3>1, <4>2, <4>3
    <3>8. \A i, j \in 1 .. Len(got') : i < j => g[i] <= g[j]
      <4> SUFFICES ASSUME NEW i \in 1 .. G + 1, NEW j \in 1 .. G + 1, i < j
                   PROVE  g[i] <= g[j]
        BY <3>1
      <4>1. i \in 1 .. G /\ g[i] \in 1 .. N
        BY <3>1, <3>5
      <4>2. CASE j = G + 1
        BY <1>a, <3>5, <4>1, <4>2
      <4>3. CASE j \in 1 .. G
        BY <3>4, <3>5, <4>1, <4>3
      <4> QED
        BY <3>6, <4>2, <4>3
    <3>9. \A i, j \in 1 .. Len(got') : i < j /\ g[i] = g[j] => g[j] \notin Clean'
      <4> SUFFICES ASSUME NEW i \in 1 .. G + 1, NEW j \in 1 .. G + 1, i < j,
                          g[i] = g[j], g[j] \in Clean
                   PROVE  FALSE
        BY <2>2, <3>1
      <4>1. i \in 1 .. G /\ g[i] = f[i]
        BY <3>1, <3>5
      <4>2. CASE j = G + 1
        <5>1. f[i] = N /\ N \in Clean
          BY <3>5, <4>1, <4>2
        <5>2. N <= Finished
          BY <3>4, <4>1, <5>1
        <5> QED
          BY <1>a, <2>3, <5>2
      <4>3. CASE j \in 1 .. G
        BY <3>4, <3>5, <4>1, <4>3
      <4> QED
        BY <3>6, <4>2, <4>3
    <3>10. \A j \in 1 .. Len(got') : g[j] \in Clean' => /\ g[j] <= Finished'
                                                        /\ got'[j] = sent'[g[j]]
      <4> SUFFICES ASSUME NEW j \in 1 .. G + 1, g[j] \in Clean
                   PROVE  g[j] <= Finished' /\ got'[j] = sent'[g[j]]
        BY <2>2, <3>1
      <4>1. CASE j = G + 1
        BY <1>a, <3>2, <3>5, <4>1
      <4>2. CASE j \in 1 .. G
        <5>1. g[j] = f[j] /\ f[j] \in Clean /\ g[j] \in 1 .. N
          BY <3>5, <4>2
        <5>2. g[j] <= Finished /\ got[j] = sent[g[j]]
          BY <3>4, <4>2, <5>1
        <5> QED
          BY <1>a, <2>1, <2>3, <3>1, <4>2, <5>1, <5>2
      <4> QED
        BY <3>6, <4>1, <4>2
    <3>11. Origins(g)'
      BY <3>7, <3>8, <3>9, <3>10 DEF Origins
    <3> QED
      BY <3>11 DEF OnlyLossesForge, Origins
  <2> QED
    BY <2>4, <2>5
<1> QED
  BY <1>1, <1>2, <1>3 DEF Next, Send, Receive

\* What is passed on comes in the order of sending, and a packet that is whole
\* and follows a whole one is passed on at most once and as it was sent: only
\* where a byte was lost, or right behind, can the receiver take something for a
\* packet that is none.  That it may is the limit of its test, which knows a
\* packet by its length (gw_uart.cpp:526-530, gateway.c:218-222).
THEOREM ForgedOnlyByLosses == Spec => []OnlyLossesForge
<1>1. Init => OnlyLossesForge
  <2> SUFFICES ASSUME Init PROVE OnlyLossesForge
    OBVIOUS
  <2>1. got = <<>> /\ 1 .. Len(got) = {}
    BY DEF Init
  <2> DEFINE f == [n \in {} |-> 0]
  <2>2. f \in [1 .. Len(got) -> 1 .. Len(sent)]
    BY <2>1
  <2>3. Origins(f)
    BY <2>1, <2>2 DEF Origins
  <2> QED
    BY <2>3 DEF OnlyLossesForge, Origins
<1> QED
  BY <1>1, Types, InStepInvariance, OnlyLossesForgeStep, PTL DEF Spec

LEMMA NoLossStep == TypeOK /\ AlignedInv /\ InStep /\ NoLoss /\ [Next]_vars => NoLoss'
<1> SUFFICES ASSUME TypeOK, AlignedInv, InStep, NoLoss, [Next]_vars, lost' = 0
             PROVE  NoLoss'
  BY DEF NoLoss
<1>a. /\ tx \in [pc : {"idle", "frame", "escaped"}, i : Nat]
      /\ sent \in Seq(Packets) /\ Len(sent) \in Nat /\ None \notin Byte
      /\ tx.pc # "idle" => sent # <<>>
      /\ sent = <<>> => wire = None
      /\ sent # <<>> => Len(sent) \in 1 .. Len(sent)
      /\ lost \in Nat
  BY TypeFacts, FramingAssumption DEF TypeOK
<1>b. STX \in Byte /\ ETX \in Byte
  BY DEF STX, ETX, Byte
<1>c. lost = 0
  <2>1. Send \/ SerialDiscard \/ UNCHANGED vars => lost' = lost
    BY DEF Send, WriteStx, WriteByte, WriteEscaped, WriteEtx, SerialDiscard, vars
  <2>2. \A c \in Byte : ReceiveByte(c) => lost' = lost
    BY Reading
  <2>3. Lose => lost' = lost + 1
    BY DEF Lose
  <2> QED
    BY <1>a, <2>1, <2>2, <2>3 DEF Next, Receive
<1>d. /\ damaged = {}
      /\ Len(got) = IF sent = <<>> THEN 0 ELSE Finished
      /\ \A n \in 1 .. Len(got) : got[n] = sent[n]
  BY <1>c DEF NoLoss
<1>e. sent # <<>> => Len(sent) \in Clean
  BY <1>a, <1>d DEF Clean
<1>1. ASSUME NEW p \in Packets, WriteStx(p) PROVE NoLoss'
  <2>1. /\ sent' = Append(sent, p) /\ damaged' = damaged /\ wire = None
        /\ got' = got /\ tx.pc = "idle" /\ tx'.pc = "frame"
    BY <1>1 DEF WriteStx
  <2>2. /\ Len(sent') = Len(sent) + 1 /\ sent' # <<>>
        /\ \A n \in 1 .. Len(sent) : sent'[n] = sent[n]
    BY <1>a, <2>1
  <2>3. Len(got) = Len(sent)
    <3>1. CASE sent = <<>>
      BY <1>d, <3>1
    <3>2. CASE sent # <<>>
      BY <1>d, <2>1, <3>2 DEF Finished
    <3> QED
      BY <3>1, <3>2
  <2>4. Finished' = Len(sent)
    BY <1>a, <2>1, <2>2 DEF Finished
  <2> QED
    BY <1>d, <2>1, <2>2, <2>3, <2>4 DEF NoLoss
<1>2. CASE WriteByte \/ WriteEscaped \/ WriteEtx
  <2>1. UNCHANGED <<sent, damaged, got>> /\ tx.pc # "idle"
    BY <1>2 DEF WriteByte, WriteEscaped, WriteEtx
  <2>2. ~(tx'.pc = "idle" /\ wire' = None)
    BY <1>2, <1>a, <1>b DEF WriteByte, WriteEscaped, WriteEtx
  <2>3. Finished' = Finished
    BY <2>1, <2>2 DEF Finished
  <2> QED
    BY <1>d, <2>1, <2>3 DEF NoLoss
<1>3. ASSUME NEW c \in Byte, ReceiveByte(c) PROVE NoLoss'
  <2>1. wire = c /\ wire' = None /\ UNCHANGED <<tx, sent, damaged>>
    BY <1>3, Reading
  <2>2. /\ sent # <<>> /\ Len(sent) \in Clean
        /\ Finished = Len(sent) - 1 /\ Len(got) = Len(sent) - 1
    BY <1>a, <1>d, <1>e, <2>1 DEF Finished
  <2>3. CASE tx.pc = "idle"
    <3>1. got' = Append(got, sent[Len(sent)])
      BY <1>3, <2>2, <2>3, CleanEnd DEF Packet
    <3>2. Finished' = Len(sent)
      BY <2>1, <2>3 DEF Finished
    <3>3. /\ Len(got') = Len(sent)
          /\ \A n \in 1 .. Len(got') : got'[n] = sent[n]
      BY <1>a, <1>d, <2>2, <3>1, GotGrows
    <3> QED
      BY <1>d, <2>1, <2>2, <3>2, <3>3 DEF NoLoss
  <2>4. CASE tx.pc # "idle"
    <3>1. got' = got /\ Finished' = Finished
      BY <1>3, <2>1, <2>2, <2>4, CleanEnd DEF Finished
    <3> QED
      BY <1>d, <2>1, <3>1 DEF NoLoss
  <2> QED
    BY <2>3, <2>4
<1>4. CASE SerialDiscard
  <2>1. rx.discarding
    BY <1>4 DEF SerialDiscard
  <2>2. sent = <<>>
    BY <1>e, <2>1 DEF InStep
  <2>3. Aligned
    BY <1>d DEF AlignedInv
  <2> QED
    BY <1>a, <2>1, <2>2, <2>3 DEF Aligned
<1>5. CASE Lose
  BY <1>5, <1>a, <1>c DEF Lose
<1>6. CASE UNCHANGED vars
  BY <1>6, <1>d DEF vars, NoLoss, Finished
<1> QED
  BY <1>1, <1>2, <1>3, <1>4, <1>5, <1>6 DEF Next, Send, Receive

\* Without losses the receiver has passed on exactly what was sent whenever
\* nothing is under way, for all packets and all bytes (uart_send_L0,
\* gw_uart.cpp:45-54; operate_gw_uart_rx, gw_uart.cpp:389-546; gateway.c:70-87
\* and 118-265).
THEOREM NothingDropped == Spec => []Lossless
<1>1. Init => NoLoss
  BY DEF Init, NoLoss
<1>2. TypeOK /\ NoLoss => Lossless
  <2> SUFFICES ASSUME TypeOK, NoLoss, AtRest, lost = 0 PROVE got = sent
    BY DEF Lossless
  <2>1. Len(got) = Len(sent) /\ \A n \in 1 .. Len(got) : got[n] = sent[n]
    <3>1. Len(got) = IF sent = <<>> THEN 0 ELSE Len(sent)
      BY DEF NoLoss, AtRest, Finished
    <3> QED
      BY <3>1 DEF NoLoss
  <2>2. got \in Seq(Seq(Byte)) /\ sent \in Seq(Seq(Byte))
    BY FramingAssumption DEF TypeOK
  <2> QED
    BY <2>1, <2>2, SeqEqual
<1> QED
  BY <1>1, <1>2, Types, InStepInvariance, NoLossStep, PTL DEF Spec

-------------------------------------------------------------------------------
(* The buffer *)

BufferInv == limited => /\ Len(rx.buf) <= MaxFrame
                        /\ rx.in_frame => Len(rx.buf) < MaxFrame

\* The receiver with a limit stays inside its buffer whatever is lost
\* (gw_uart.cpp:485-494).
THEOREM BufferKept == Spec => []InBuffer
<1>1. Init => BufferInv
  BY FramingAssumption DEF Init, BufferInv
<1>2. TypeOK /\ BufferInv /\ [Next]_vars => BufferInv'
  <2> SUFFICES ASSUME TypeOK, BufferInv, [Next]_vars, limited, limited' PROVE BufferInv'
    BY DEF BufferInv, Next, vars
  <2>1. /\ rx \in [in_frame : BOOLEAN, in_escape : BOOLEAN, buf : Seq(Byte),
                   discarding : BOOLEAN]
        /\ Len(rx.buf) <= MaxFrame /\ Len(rx.buf) \in Nat
        /\ rx.in_frame => Len(rx.buf) < MaxFrame
        /\ MaxFrame \in Nat \ {0}
    BY FramingAssumption DEF TypeOK, BufferInv
  <2>2. ASSUME NEW c \in Byte, Store(c) \/ Overrun(c) PROVE BufferInv'
    <3>1. Len(Append(rx.buf, c)) = Len(rx.buf) + 1
      BY <2>1, <2>2
    <3>2. rx.in_frame
      BY <2>2 DEF Store, Overrun, IsData
    <3>3. CASE Store(c)
      BY <2>1, <3>1, <3>3 DEF Store, Fills, BufferInv
    <3>4. CASE Overrun(c)
      <4>1. rx'.buf = Append(rx.buf, c) /\ ~rx'.in_frame
        BY <3>4 DEF Overrun, Outside
      <4>2. QED
        BY <2>1, <3>1, <3>2, <4>1 DEF BufferInv
    <3>5. QED
      BY <2>2, <3>3, <3>4
  <2>3. ASSUME NEW c \in Byte,
               Skip(c) \/ Begin(c) \/ BeginEscape(c) \/ FrameError(c) \/ End(c)
        PROVE  BufferInv'
    <3>1. CASE Begin(c)
      BY <2>1, <3>1 DEF Begin, BufferInv
    <3>2. CASE End(c)
      BY <2>1, <3>2 DEF End, Outside, BufferInv
    <3>3. CASE Skip(c) \/ BeginEscape(c) \/ FrameError(c)
      BY <2>1, <3>3 DEF Skip, BeginEscape, FrameError, Outside, BufferInv
    <3>4. QED
      BY <2>3, <3>1, <3>2, <3>3
  <2>4. CASE Send \/ Lose \/ UNCHANGED vars
    BY <2>1, <2>4 DEF Send, WriteStx, WriteByte, WriteEscaped, WriteEtx, Lose,
                      vars, BufferInv
  <2>5. CASE SerialDiscard
    BY <2>1, <2>5 DEF SerialDiscard, BufferInv
  <2>6. QED
    BY <2>2, <2>3, <2>4, <2>5 DEF Next, Receive, ReceiveByte
<1>3. BufferInv => InBuffer
  BY DEF BufferInv, InBuffer
<1>4. QED
  BY <1>1, <1>2, <1>3, Types, PTL DEF Spec

===============================================================================
