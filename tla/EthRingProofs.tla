---------------------------- MODULE EthRingProofs ----------------------------
(***************************************************************************)
(* Theorems about the ring for every number of slots.                      *)
(***************************************************************************)
EXTENDS EthRing, SequenceTheorems, TLAPS

-------------------------------------------------------------------------------
(* Arithmetic of the indices *)

LEMMA ModOnce ==
  ASSUME NEW n \in Nat \ {0}, NEW a \in Nat, a < n + n
  PROVE  a % n = IF a < n THEN a ELSE a - n
  OBVIOUS

LEMMA NextSlotIs ==
  ASSUME NEW i \in Slots
  PROVE  /\ NextSlot(i) \in Slots
         /\ NextSlot(i) # i
         /\ NextSlot(i) = IF i = Size - 1 THEN 0 ELSE i + 1
<1>1. i + 1 \in Nat /\ i + 1 < Size + Size /\ Size \in Nat \ {0}
  BY RingAssumption DEF Slots
<1> DEFINE a == i + 1
<1>2. a % Size = IF a < Size THEN a ELSE a - Size
  <2> HIDE DEF a
  <2>1. a \in Nat /\ a < Size + Size
    BY <1>1 DEF a
  <2>2. QED
    BY <1>1, <2>1, ModOnce
<1>3. QED
  BY <1>2, RingAssumption DEF NextSlot, Slots

\* How far slot i lies behind slot `from' in the order of use.
Offset(from, i) == IF i >= from THEN i - from ELSE i - from + Size

LEMMA OffsetFacts ==
  ASSUME NEW ri \in Slots, NEW wi \in Slots
  PROVE  /\ \A i \in Slots : /\ Offset(ri, i) \in 0 .. Size - 1
                             /\ Offset(ri, i) = 0 <=> i = ri
         /\ \A i, j \in Slots : Offset(ri, i) = Offset(ri, j) => i = j
         /\ NextSlot(wi) # ri => Offset(ri, NextSlot(wi)) = Offset(ri, wi) + 1
         /\ Offset(ri, NextSlot(ri)) = 1
         /\ \A i \in Slots : i # ri => Offset(NextSlot(ri), i) = Offset(ri, i) - 1
         /\ Offset(NextSlot(ri), ri) = Size - 1
  BY NextSlotIs, RingAssumption DEF Offset, Slots

-------------------------------------------------------------------------------
(* The inductive invariant: what the program counters say about the slots.  *)

Occupied(i) == Offset(eth_rxb_ri, i) \in 1 .. Offset(eth_rxb_ri, eth_rxb_wi)

Filling == rx.pc \in {"copy", "publish"}
Working == tx.pc \in {"route", "send", "advance"}

SlotsRaw == \A i \in Slots : Occupied(i) /\ ~(Working /\ i = tx.nxt)
                               => \E f \in Frames : eth_rxb[i] = Raw(f)

HandlerInv == /\ Filling => /\ rx.nxt = NextSlot(eth_rxb_wi)
                            /\ rx.nxt # eth_rxb_ri
                            /\ rx.frame \in Frames
              /\ rx.pc = "publish" => eth_rxb[rx.nxt] = Raw(rx.frame)

TaskInv == /\ Working => /\ tx.nxt = NextSlot(eth_rxb_ri)
                         /\ eth_rxb_ri # eth_rxb_wi
                         /\ tx.frame \in Frames
                         /\ eth_rxb[tx.nxt].frame = tx.frame
           /\ tx.pc = "route" => eth_rxb[tx.nxt] = Raw(tx.frame)
           /\ tx.pc = "send" => eth_rxb[tx.nxt] = Translated(tx.frame)

RingInv == TypeOK /\ SlotsRaw /\ HandlerInv /\ TaskInv

\* The slot being filled is not one of the frames waiting.
LEMMA FillingIsFree ==
  ASSUME TypeOK, NEW n \in Slots, n = NextSlot(eth_rxb_wi), n # eth_rxb_ri
  PROVE  /\ ~Occupied(n)
         /\ eth_rxb_ri # eth_rxb_wi => n # NextSlot(eth_rxb_ri)
<1>1. eth_rxb_ri \in Slots /\ eth_rxb_wi \in Slots
  BY DEF TypeOK
<1>2. Offset(eth_rxb_ri, n) = Offset(eth_rxb_ri, eth_rxb_wi) + 1
  BY <1>1, OffsetFacts
<1>3. Offset(eth_rxb_ri, eth_rxb_wi) \in Nat
  BY <1>1, OffsetFacts, RingAssumption
<1>4. ~Occupied(n)
  BY <1>2, <1>3 DEF Occupied
<1>5. eth_rxb_ri # eth_rxb_wi => n # NextSlot(eth_rxb_ri)
  BY <1>1, <1>2, <1>3, NextSlotIs, OffsetFacts
<1>6. QED
  BY <1>4, <1>5

\* The task and the handler never touch the same slot.
LEMMA InvSlotsApart == ASSUME RingInv PROVE SlotsApart
  BY FillingIsFree DEF RingInv, HandlerInv, TaskInv, Filling, Working,
     SlotsApart, TypeOK, RxState

LEMMA ContentOf ==
  ASSUME NEW f \in Frames
  PROVE  Raw(f) \in Content /\ Translated(f) \in Content
         /\ Torn \in Content /\ Nothing \in Content
  BY DEF Raw, Translated, Torn, Nothing, Content

LEMMA RingInit == Init => RingInv
<1> SUFFICES ASSUME Init PROVE RingInv
  OBVIOUS
<1>1. Size - 1 \in Slots /\ 0 \in Slots
  BY RingAssumption DEF Slots
<1>2. TypeOK
  BY <1>1 DEF Init, TypeOK, RxState, TxState, Nothing, Content
<1>3. \A i \in Slots : ~Occupied(i)
  BY <1>1, OffsetFacts DEF Init, Occupied
<1>4. QED
  BY <1>2, <1>3 DEF Init, RingInv, SlotsRaw, HandlerInv, TaskInv, Filling,
     Working

-------------------------------------------------------------------------------
(* Steps of the handler *)

LEMMA RxSkipStep ==
  ASSUME RingInv, NEW f \in Frames, RxPass(f) \/ RxFull(f)
  PROVE  RingInv'
<1>1. TypeOK'
  BY DEF RxPass, RxFull, RingInv, TypeOK, RxState
<1>2. /\ UNCHANGED <<eth_rxb, eth_rxb_wi, eth_rxb_ri, tx>>
      /\ rx'.pc = "idle"
  BY DEF RxPass, RxFull, RingInv, TypeOK, RxState
<1>3. SlotsRaw' /\ HandlerInv' /\ TaskInv'
  BY <1>2 DEF RingInv, SlotsRaw, HandlerInv, TaskInv, Filling, Working, Occupied
<1>4. QED
  BY <1>1, <1>3 DEF RingInv

LEMMA RxAdmitStep ==
  ASSUME RingInv, NEW f \in Frames, RxAdmit(f)
  PROVE  RingInv'
<1> DEFINE n == NextSlot(eth_rxb_wi)
<1>1. n \in Slots /\ n # eth_rxb_ri /\ ~Filling
  BY NextSlotIs DEF RxAdmit, is_eth_rxb_we, RingInv, TypeOK, Filling
<1>2. TypeOK'
  BY <1>1, ContentOf DEF RxAdmit, RingInv, TypeOK, RxState
<1>3. /\ \A i \in Slots : i # n => eth_rxb'[i] = eth_rxb[i]
      /\ UNCHANGED <<eth_rxb_wi, eth_rxb_ri, tx>>
      /\ rx' = [pc |-> "copy", frame |-> f, nxt |-> n]
  BY DEF RxAdmit, RingInv, TypeOK
<1>4. ~Occupied(n) /\ (Working => tx.nxt # n /\ tx.nxt \in Slots)
  BY <1>1, FillingIsFree DEF RingInv, TaskInv, TypeOK, TxState
<1>5. SlotsRaw' /\ HandlerInv'
  BY <1>1, <1>3, <1>4 DEF RingInv, SlotsRaw, HandlerInv, Filling, Working, Occupied
<1>6. TaskInv'
  BY <1>3, <1>4 DEF RingInv, TaskInv, Working
<1>7. QED
  BY <1>2, <1>5, <1>6 DEF RingInv

LEMMA RxCopiedStep ==
  ASSUME RingInv, RxCopied
  PROVE  RingInv'
<1> DEFINE n == rx.nxt
<1>1. /\ n = NextSlot(eth_rxb_wi) /\ n # eth_rxb_ri /\ n \in Slots
      /\ rx.frame \in Frames
  BY DEF RxCopied, RingInv, HandlerInv, Filling, TypeOK, RxState
<1>2. /\ \A i \in Slots : i # n => eth_rxb'[i] = eth_rxb[i]
      /\ eth_rxb'[n] = Raw(rx.frame)
      /\ UNCHANGED <<eth_rxb_wi, eth_rxb_ri, tx>>
      /\ rx'.pc = "publish" /\ rx'.nxt = n /\ rx'.frame = rx.frame
  BY <1>1 DEF RxCopied, RingInv, TypeOK, RxState
<1>3. TypeOK'
  BY <1>1, ContentOf DEF RxCopied, RingInv, TypeOK, RxState
<1>4. ~Occupied(n) /\ (Working => tx.nxt # n /\ tx.nxt \in Slots)
  BY <1>1, FillingIsFree DEF RingInv, TaskInv, TypeOK, TxState
<1>5. SlotsRaw' /\ HandlerInv'
  BY <1>1, <1>2, <1>4 DEF RingInv, SlotsRaw, HandlerInv, Filling, Working, Occupied
<1>6. TaskInv'
  BY <1>2, <1>4 DEF RingInv, TaskInv, Working
<1>7. QED
  BY <1>3, <1>5, <1>6 DEF RingInv

\* Publishing makes the slot just filled the last one that is occupied.
LEMMA PublishOccupies ==
  ASSUME RingInv, RxPublish
  PROVE  /\ Offset(eth_rxb_ri, eth_rxb_wi') = Offset(eth_rxb_ri, eth_rxb_wi) + 1
         /\ \A i \in Slots : Occupied(i)' <=> Occupied(i) \/ i = rx.nxt
<1>1. /\ eth_rxb_wi' = NextSlot(eth_rxb_wi) /\ eth_rxb_wi' # eth_rxb_ri
      /\ rx.nxt = eth_rxb_wi' /\ eth_rxb_ri' = eth_rxb_ri
      /\ eth_rxb_wi \in Slots /\ eth_rxb_ri \in Slots /\ rx.nxt \in Slots
  BY DEF RxPublish, RingInv, HandlerInv, Filling, TypeOK, RxState
<1>2. Offset(eth_rxb_ri, eth_rxb_wi') = Offset(eth_rxb_ri, eth_rxb_wi) + 1
  BY <1>1, OffsetFacts
<1>3. \A i \in Slots : Offset(eth_rxb_ri, i) \in Nat
                       /\ (Offset(eth_rxb_ri, i) = Offset(eth_rxb_ri, eth_rxb_wi')
                             <=> i = eth_rxb_wi')
  BY <1>1, OffsetFacts
<1>4. \A i \in Slots : Occupied(i)' <=>
        Offset(eth_rxb_ri, i) \in 1 .. Offset(eth_rxb_ri, eth_rxb_wi')
  BY <1>1 DEF Occupied
<1>5. QED
  BY <1>1, <1>2, <1>3, <1>4 DEF Occupied

LEMMA RxPublishStep ==
  ASSUME RingInv, RxPublish
  PROVE  RingInv'
<1>1. /\ UNCHANGED <<eth_rxb, eth_rxb_ri, tx>>
      /\ rx'.pc = "idle" /\ eth_rxb_wi' = rx.nxt
      /\ eth_rxb[rx.nxt] = Raw(rx.frame) /\ rx.frame \in Frames
      /\ rx.nxt # eth_rxb_ri
  BY DEF RxPublish, RingInv, HandlerInv, Filling, TypeOK, RxState
<1>2. TypeOK'
  BY DEF RxPublish, RingInv, TypeOK, RxState
<1>3. SlotsRaw'
  BY <1>1, PublishOccupies DEF RingInv, SlotsRaw, Working
<1>4. HandlerInv' /\ TaskInv'
  BY <1>1 DEF RingInv, HandlerInv, TaskInv, Filling, Working
<1>5. QED
  BY <1>2, <1>3, <1>4 DEF RingInv

-------------------------------------------------------------------------------
(* Steps of the task *)

LEMMA TxFetchStep ==
  ASSUME RingInv, TxFetch
  PROVE  RingInv'
<1> DEFINE n == NextSlot(eth_rxb_ri)
<1>1. /\ eth_rxb_ri # eth_rxb_wi /\ eth_rxb_ri \in Slots /\ eth_rxb_wi \in Slots
      /\ n \in Slots /\ ~Working
      /\ UNCHANGED <<eth_rxb, eth_rxb_wi, eth_rxb_ri, rx>>
      /\ tx' = [pc |-> "route", nxt |-> n, frame |-> eth_rxb[n].frame]
  BY NextSlotIs DEF TxFetch, is_eth_rxb_re, RingInv, TypeOK, Working
<1>2. Occupied(n)
  <2>1. Offset(eth_rxb_ri, n) = 1
    BY <1>1, OffsetFacts
  <2>2. Offset(eth_rxb_ri, eth_rxb_wi) \in 1 .. Size - 1
    BY <1>1, OffsetFacts, RingAssumption
  <2>3. QED
    BY <2>1, <2>2, RingAssumption DEF Occupied
<1>3. PICK f \in Frames : eth_rxb[n] = Raw(f)
  BY <1>1, <1>2 DEF RingInv, SlotsRaw
<1>4. tx' = [pc |-> "route", nxt |-> n, frame |-> f]
  BY <1>1, <1>3 DEF Raw
<1>5. TypeOK'
  BY <1>1, <1>4 DEF TxFetch, RingInv, TypeOK, TxState
<1>6. SlotsRaw' /\ HandlerInv'
  BY <1>1 DEF RingInv, SlotsRaw, HandlerInv, Filling, Working, Occupied
<1>7. TaskInv'
  BY <1>1, <1>3, <1>4 DEF TaskInv, Working, Raw
<1>8. QED
  BY <1>5, <1>6, <1>7 DEF RingInv

LEMMA TxTranslateStep ==
  ASSUME RingInv, TxTranslate
  PROVE  RingInv'
<1> DEFINE n == tx.nxt
<1>1. /\ n \in Slots /\ n = NextSlot(eth_rxb_ri) /\ eth_rxb_ri # eth_rxb_wi
      /\ tx.frame \in Frames /\ eth_rxb[n] = Raw(tx.frame) /\ Working
  BY DEF TxTranslate, RingInv, TaskInv, Working, TypeOK, TxState
<1>2. eth_rxb'[n] = Translated(tx.frame)
  <2>1. eth_rxb'[n] = [eth_rxb[n] EXCEPT !.form = "translated"]
    BY <1>1 DEF TxTranslate, RingInv, TypeOK
  <2>2. QED
    BY <1>1, <2>1 DEF Raw, Translated
<1>3. /\ eth_rxb' \in [Slots -> Content]
      /\ \A i \in Slots : i # n => eth_rxb'[i] = eth_rxb[i]
      /\ UNCHANGED <<eth_rxb_wi, eth_rxb_ri, rx>>
      /\ tx'.pc = "send" /\ tx'.nxt = n /\ tx'.frame = tx.frame
  <2>1. /\ \A i \in Slots : i # n => eth_rxb'[i] = eth_rxb[i]
        /\ eth_rxb' = [i \in Slots |-> eth_rxb'[i]]
    BY <1>1 DEF TxTranslate, RingInv, TypeOK
  <2>2. eth_rxb' \in [Slots -> Content]
    BY <1>1, <1>2, <2>1, ContentOf DEF RingInv, TypeOK
  <2>3. QED
    BY <2>1, <2>2 DEF TxTranslate, RingInv, TypeOK, TxState
<1>4. TypeOK'
  BY <1>3 DEF TxTranslate, RingInv, TypeOK, TxState
<1>5. Filling => rx.nxt # n
  BY <1>1, InvSlotsApart DEF SlotsApart, Filling, Working
<1>6. SlotsRaw'
  BY <1>3 DEF RingInv, SlotsRaw, Working, Occupied
<1>7. HandlerInv'
  BY <1>3, <1>5 DEF RingInv, HandlerInv, Filling, TypeOK, RxState
<1>8. TaskInv'
  BY <1>1, <1>2, <1>3 DEF TaskInv, Working, Translated
<1>9. QED
  BY <1>4, <1>6, <1>7, <1>8 DEF RingInv

LEMMA TxQuietStep ==
  ASSUME RingInv, TxStart \/ TxDrop \/ TxSend
  PROVE  RingInv'
<1>1. /\ UNCHANGED <<eth_rxb, eth_rxb_wi, eth_rxb_ri, rx>>
      /\ tx'.nxt = tx.nxt /\ tx'.frame = tx.frame
      /\ \/ ~Working /\ tx'.pc = "poll"
         \/ Working /\ tx'.pc = "advance"
  BY DEF TxStart, TxDrop, TxSend, RingInv, TypeOK, TxState, Working
<1>2. TypeOK'
  BY DEF TxStart, TxDrop, TxSend, RingInv, TaskInv, Working, TypeOK, TxState
<1>3. SlotsRaw' /\ HandlerInv' /\ TaskInv'
  BY <1>1 DEF RingInv, SlotsRaw, HandlerInv, TaskInv, Filling, Working, Occupied
<1>4. QED
  BY <1>2, <1>3 DEF RingInv

\* Advancing frees the slot the task has worked on and no other.
LEMMA AdvanceFrees ==
  ASSUME RingInv, TxAdvance
  PROVE  /\ eth_rxb_ri' = NextSlot(eth_rxb_ri)
         /\ Offset(eth_rxb_ri', eth_rxb_wi) = Offset(eth_rxb_ri, eth_rxb_wi) - 1
         /\ \A i \in Slots : Occupied(i)' => Occupied(i) /\ i # tx.nxt
<1>1. /\ eth_rxb_ri' = NextSlot(eth_rxb_ri) /\ tx.nxt = NextSlot(eth_rxb_ri)
      /\ eth_rxb_ri # eth_rxb_wi /\ eth_rxb_wi' = eth_rxb_wi
      /\ eth_rxb_wi \in Slots /\ eth_rxb_ri \in Slots
  BY DEF TxAdvance, RingInv, TaskInv, Working, TypeOK
<1>2. Offset(eth_rxb_ri', eth_rxb_wi) = Offset(eth_rxb_ri, eth_rxb_wi) - 1
  BY <1>1, OffsetFacts
<1>3. ASSUME NEW i \in Slots, Occupied(i)'
      PROVE  Occupied(i) /\ i # tx.nxt
  <2>1. Offset(eth_rxb_ri', i) \in 1 .. Offset(eth_rxb_ri', eth_rxb_wi)
    BY <1>1, <1>3 DEF Occupied
  <2>2. Offset(eth_rxb_ri, eth_rxb_wi) \in 0 .. Size - 1
    BY <1>1, OffsetFacts
  <2>3. i # eth_rxb_ri
    BY <1>1, <1>2, <2>1, <2>2, OffsetFacts, RingAssumption
  <2>4. Offset(eth_rxb_ri', i) = Offset(eth_rxb_ri, i) - 1
    BY <1>1, <2>3, OffsetFacts
  <2>5. Offset(eth_rxb_ri, i) \in 0 .. Size - 1
    BY <1>1, OffsetFacts
  <2>6. Offset(eth_rxb_ri, tx.nxt) = 1
    BY <1>1, OffsetFacts
  <2>7. QED
    BY <1>2, <2>1, <2>2, <2>4, <2>5, <2>6, RingAssumption DEF Occupied
<1>4. QED
  BY <1>1, <1>2, <1>3

LEMMA TxAdvanceStep ==
  ASSUME RingInv, TxAdvance
  PROVE  RingInv'
<1>1. /\ UNCHANGED <<eth_rxb, eth_rxb_wi, rx>>
      /\ eth_rxb_ri' = tx.nxt /\ tx.nxt \in Slots /\ tx'.pc = "poll" /\ Working
      /\ tx.frame \in Frames
  BY DEF TxAdvance, RingInv, TypeOK, TxState, TaskInv, Working
<1>2. TypeOK'
  BY <1>1 DEF TxAdvance, RingInv, TypeOK, TxState
<1>3. SlotsRaw'
  BY <1>1, AdvanceFrees DEF RingInv, SlotsRaw, Working
<1>4. HandlerInv'
  <2>1. Filling => rx.nxt # tx.nxt
    BY <1>1, InvSlotsApart DEF SlotsApart, Filling, Working
  <2>2. QED
    BY <1>1, <2>1 DEF RingInv, HandlerInv, Filling
<1>5. TaskInv'
  BY <1>1 DEF TaskInv, Working
<1>6. QED
  BY <1>2, <1>3, <1>4, <1>5 DEF RingInv

LEMMA RingStep ==
  ASSUME RingInv, [Next]_vars
  PROVE  RingInv'
<1>1. CASE Handler
  BY <1>1, RxSkipStep, RxAdmitStep, RxCopiedStep, RxPublishStep DEF Handler
<1>2. CASE Task
  BY <1>2, TxFetchStep, TxTranslateStep, TxQuietStep, TxAdvanceStep DEF Task
<1>3. CASE UNCHANGED vars
  BY <1>3 DEF vars, RingInv, TypeOK, SlotsRaw, HandlerInv, TaskInv, Filling,
     Working, Occupied
<1>4. QED
  BY <1>1, <1>2, <1>3 DEF Next

\* The inductive invariant holds for every number of slots.
THEOREM RingInvariant == Spec => []RingInv
  BY RingInit, RingStep, PTL DEF Spec

THEOREM TypeCorrect == Spec => []TypeOK
<1>1. RingInv => TypeOK
  BY DEF RingInv
<1>2. QED
  BY <1>1, RingInvariant, PTL

\* The handler never writes into the slot the task works on.
THEOREM SlotsStayApart == Spec => []SlotsApart
  BY InvSlotsApart, RingInvariant, PTL

\* What is sent is the frame that was read, translated once and whole.
THEOREM SentStaysIntact == Spec => SentIntact
<1>1. RingInv /\ [Next]_vars => [sent' # sent => sent' = Translated(tx.frame)]_vars
  <2> SUFFICES ASSUME RingInv, Next, sent' # sent
               PROVE  sent' = Translated(tx.frame)
    OBVIOUS
  <2>1. TxSend
    BY DEF Next, Handler, Task, RxPass, RxFull, RxAdmit, RxCopied, RxPublish,
       TxStart, TxFetch, TxDrop, TxTranslate, TxAdvance
  <2>2. QED
    BY <2>1 DEF TxSend, RingInv, TaskInv
<1>2. QED
  BY <1>1, RingInvariant, PTL DEF Spec, SentIntact

-------------------------------------------------------------------------------
(* The ring implements the bounded queue                                    *)

\* The k-th frame waiting, and how many there are, without the remainders.
LEMMA QueueArith ==
  ASSUME NEW ri \in Slots, NEW wi \in Slots
  PROVE  /\ (wi + Size - ri) % Size = Offset(ri, wi)
         /\ \A k \in 1 .. Size - 1 : /\ (ri + k) % Size \in Slots
                                     /\ Offset(ri, (ri + k) % Size) = k
<1>1. (wi + Size - ri) % Size = Offset(ri, wi)
  <2> DEFINE a == wi + Size - ri
  <2>1. a \in Nat /\ a < Size + Size /\ Size \in Nat \ {0}
    BY RingAssumption DEF Slots
  <2>2. a % Size = IF a < Size THEN a ELSE a - Size
    <3> HIDE DEF a
    <3>1. QED
      BY <2>1, ModOnce
  <2>3. QED
    BY <2>2, RingAssumption DEF Offset, Slots
<1>2. ASSUME NEW k \in 1 .. Size - 1
      PROVE  (ri + k) % Size \in Slots /\ Offset(ri, (ri + k) % Size) = k
  <2> DEFINE a == ri + k
  <2>1. a \in Nat /\ a < Size + Size /\ Size \in Nat \ {0}
    BY RingAssumption DEF Slots
  <2>2. a % Size = IF a < Size THEN a ELSE a - Size
    <3> HIDE DEF a
    <3>1. QED
      BY <2>1, ModOnce
  <2>3. QED
    BY <2>2, RingAssumption DEF Offset, Slots
<1>3. QED
  BY <1>1, <1>2

At(k) == (eth_rxb_ri + k) % Size

Waits == [k \in 1 .. Waiting |-> eth_rxb[At(k)].frame]

\* Waits lists the frames of the occupied slots.
LEMMA WaitsFacts ==
  ASSUME RingInv
  PROVE  /\ Waiting = Offset(eth_rxb_ri, eth_rxb_wi)
         /\ Waiting \in 0 .. Size - 1
         /\ \A k \in 1 .. Waiting : /\ At(k) \in Slots
                                    /\ Occupied(At(k))
                                    /\ Offset(eth_rxb_ri, At(k)) = k
                                    /\ eth_rxb[At(k)].frame \in Frames
         /\ Waits \in Seq(Frames) /\ Len(Waits) = Waiting
<1>1. eth_rxb_ri \in Slots /\ eth_rxb_wi \in Slots
  BY DEF RingInv, TypeOK
<1>2. Waiting = Offset(eth_rxb_ri, eth_rxb_wi)
  BY <1>1, QueueArith DEF Waiting
<1>3. Waiting \in 0 .. Size - 1
  BY <1>1, <1>2, OffsetFacts
<1>4. ASSUME NEW k \in 1 .. Waiting
      PROVE  /\ At(k) \in Slots
             /\ Occupied(At(k))
             /\ Offset(eth_rxb_ri, At(k)) = k
             /\ eth_rxb[At(k)].frame \in Frames
  <2>1. k \in 1 .. Size - 1
    BY <1>3, RingAssumption
  <2>2. At(k) \in Slots /\ Offset(eth_rxb_ri, At(k)) = k
    BY <1>1, <2>1, QueueArith DEF At
  <2>3. Occupied(At(k))
    BY <1>2, <2>2 DEF Occupied
  <2>4. \A i \in Slots : Occupied(i) => eth_rxb[i].frame \in Frames
    <3>1. ASSUME NEW i \in Slots, Occupied(i), ~(Working /\ i = tx.nxt)
          PROVE  eth_rxb[i].frame \in Frames
      <4>1. PICK f \in Frames : eth_rxb[i] = Raw(f)
        BY <3>1 DEF RingInv, SlotsRaw
      <4>2. QED
        BY <4>1 DEF Raw
    <3>2. Working => eth_rxb[tx.nxt].frame \in Frames
      BY DEF RingInv, TaskInv
    <3>3. QED
      BY <3>1, <3>2
  <2>5. QED
    BY <2>2, <2>3, <2>4
<1>5. Waits \in Seq(Frames) /\ Len(Waits) = Waiting
  BY <1>3, <1>4, RingAssumption DEF Waits
<1>6. QED
  BY <1>2, <1>3, <1>4, <1>5

\* A step that keeps the indices and the frames of occupied slots keeps the
\* queue.
LEMMA WaitsKept ==
  ASSUME RingInv, UNCHANGED <<eth_rxb_ri, eth_rxb_wi>>,
         \A i \in Slots : Occupied(i) => eth_rxb'[i].frame = eth_rxb[i].frame
  PROVE  Waits' = Waits
<1>1. Waiting' = Waiting /\ \A k \in 1 .. Waiting : At(k)' = At(k)
  BY DEF Waiting, At
<1>2. \A k \in 1 .. Waiting : eth_rxb'[At(k)].frame = eth_rxb[At(k)].frame
  BY WaitsFacts
<1>3. QED
  BY <1>1, <1>2 DEF Waits

\* Publishing puts the frame at the end of the queue.
LEMMA PublishPuts ==
  ASSUME RingInv, RxPublish
  PROVE  /\ Len(Waits) < Size - 1
         /\ rx.frame \in Frames
         /\ Waits' = Append(Waits, rx.frame)
<1>1. /\ UNCHANGED <<eth_rxb, eth_rxb_ri>>
      /\ eth_rxb[rx.nxt].frame = rx.frame /\ rx.frame \in Frames
      /\ rx.nxt = eth_rxb_wi' /\ rx.nxt \in Slots
  BY DEF RxPublish, RingInv, HandlerInv, Filling, Raw, TypeOK, RxState
<1>2. RingInv'
  BY RxPublishStep
<1>3. Waiting' = Waiting + 1
  <2>1. Waiting' = Offset(eth_rxb_ri', eth_rxb_wi')
    <3>1. eth_rxb_ri' \in Slots /\ eth_rxb_wi' \in Slots
      BY <1>2 DEF RingInv, TypeOK
    <3>2. QED
      BY <3>1, QueueArith DEF Waiting
  <2>2. QED
    BY <1>1, <2>1, PublishOccupies, WaitsFacts
<1>4. Waiting' \in 0 .. Size - 1
  <2>1. eth_rxb_ri' \in Slots /\ eth_rxb_wi' \in Slots
    BY <1>2 DEF RingInv, TypeOK
  <2>2. QED
    BY <2>1, QueueArith, OffsetFacts DEF Waiting
<1>5. At(Waiting + 1) = rx.nxt
  <2>1. eth_rxb_ri \in Slots
    BY DEF RingInv, TypeOK
  <2>2. Waiting + 1 \in 1 .. Size - 1
    BY <1>3, <1>4, WaitsFacts, RingAssumption
  <2>3. /\ At(Waiting + 1) \in Slots
        /\ Offset(eth_rxb_ri, At(Waiting + 1)) = Waiting + 1
    BY <2>1, <2>2, QueueArith DEF At
  <2>4. Offset(eth_rxb_ri, rx.nxt) = Waiting + 1
    BY <1>1, PublishOccupies, WaitsFacts
  <2>5. QED
    BY <1>1, <2>1, <2>3, <2>4, OffsetFacts
<1>6. /\ \A k \in 1 .. Waiting : eth_rxb[At(k)].frame = Waits[k]
      /\ \A k : At(k)' = At(k)
  BY <1>1 DEF Waits, At
<1>7. Waits' = [k \in 1 .. Waiting + 1 |->
                  IF k = Waiting + 1 THEN rx.frame ELSE Waits[k]]
  <2>1. \A k \in 1 .. Waiting + 1 :
          eth_rxb'[At(k)].frame =
            IF k = Waiting + 1 THEN rx.frame ELSE Waits[k]
    BY <1>1, <1>5, <1>6, WaitsFacts
  <2>2. QED
    BY <1>3, <1>6, <2>1 DEF Waits
<1>8. QED
  BY <1>1, <1>3, <1>4, <1>7, WaitsFacts, RingAssumption

\* Advancing takes the frame at the head of the queue.
LEMMA AdvanceTakes ==
  ASSUME RingInv, TxAdvance
  PROVE  /\ Waits # <<>>
         /\ finished' = Head(Waits)
         /\ Waits' = Tail(Waits)
<1>1. /\ UNCHANGED <<eth_rxb, eth_rxb_wi>> /\ eth_rxb_ri' = tx.nxt
      /\ eth_rxb[tx.nxt].frame = tx.frame /\ finished' = tx.frame
      /\ tx.nxt = NextSlot(eth_rxb_ri) /\ tx.nxt \in Slots
      /\ eth_rxb_ri # eth_rxb_wi
      /\ eth_rxb_ri \in Slots /\ eth_rxb_wi \in Slots
  BY DEF TxAdvance, RingInv, TaskInv, Working, TypeOK, TxState
<1>2. Waiting' = Waiting - 1 /\ Waiting \in 1 .. Size - 1
  <2>1. Waiting' = Offset(eth_rxb_ri', eth_rxb_wi')
    BY <1>1, QueueArith DEF Waiting
  <2>2. Waiting # 0
    BY <1>1, OffsetFacts, WaitsFacts
  <2>3. QED
    BY <1>1, <2>1, <2>2, AdvanceFrees, WaitsFacts, RingAssumption
<1>3. At(1) = tx.nxt
  BY <1>1 DEF At, NextSlot
<1>4. ASSUME NEW k \in 1 .. Waiting - 1
      PROVE  At(k)' = At(k + 1)
  <2>1. k \in 1 .. Size - 1 /\ k + 1 \in 1 .. Size - 1 /\ k + 1 \in 1 .. Waiting
    BY <1>2, RingAssumption
  <2>2. At(k)' \in Slots /\ Offset(eth_rxb_ri', At(k)') = k
    BY <1>1, <2>1, QueueArith DEF At
  <2>3. At(k + 1) \in Slots /\ Offset(eth_rxb_ri, At(k + 1)) = k + 1
    BY <1>1, <2>1, QueueArith DEF At
  <2>4. At(k + 1) # eth_rxb_ri
    BY <1>1, <2>1, <2>3, OffsetFacts
  <2>5. Offset(eth_rxb_ri', At(k + 1)) = k
    BY <1>1, <2>3, <2>4, OffsetFacts
  <2>6. QED
    BY <1>1, <2>2, <2>3, <2>5, OffsetFacts
<1>5. Waits \in Seq(Frames) /\ Len(Waits) = Waiting /\ Waits # <<>>
  BY <1>2, WaitsFacts, RingAssumption
<1>6. Head(Waits) = tx.frame
  BY <1>1, <1>2, <1>3, <1>5, RingAssumption DEF Waits
<1>7. /\ Waits' \in Seq(Frames) /\ Len(Waits') = Waiting - 1
      /\ \A k \in 1 .. Waiting - 1 : Waits'[k] = Waits[k + 1]
  <2>1. \A k \in 1 .. Waiting - 1 : eth_rxb'[At(k)'].frame = Waits[k + 1]
    BY <1>1, <1>2, <1>4, RingAssumption DEF Waits
  <2>2. Waits' = [k \in 1 .. Waiting - 1 |-> Waits[k + 1]]
    BY <1>2, <2>1 DEF Waits
  <2>3. \A k \in 1 .. Waiting - 1 : Waits[k + 1] \in Frames
    BY <1>2, <1>5, ElementOfSeq, RingAssumption
  <2>4. QED
    BY <1>2, <2>2, <2>3, RingAssumption
<1>8. Waits' = Tail(Waits)
  <2>1. /\ Tail(Waits) \in Seq(Frames) /\ Len(Tail(Waits)) = Waiting - 1
        /\ \A k \in 1 .. Waiting - 1 : Tail(Waits)[k] = Waits[k + 1]
    BY <1>5, HeadTailProperties
  <2>2. QED
    BY <1>7, <2>1, SeqEqual
<1>9. QED
  BY <1>1, <1>5, <1>6, <1>8

\* The ring implements the bounded queue: first in, first out, nothing lost
\* once it is in, nothing repeated, never more than Size - 1 frames.
THEOREM RingIsQueue == Spec => IsQueue
<1>1. Init => Queue!Init
  <2> SUFFICES ASSUME Init PROVE Queue!Init
    OBVIOUS
  <2>1. Waiting = 0
    <3>1. Size - 1 \in Slots /\ eth_rxb_wi = Size - 1 /\ eth_rxb_ri = Size - 1
      BY RingAssumption DEF Init, Slots
    <3>2. QED
      BY <3>1, QueueArith, OffsetFacts DEF Waiting
  <2>2. Waits = <<>>
    BY <2>1 DEF Waits
  <2>3. QED
    BY <2>2 DEF Queue!Init, Waits, At, Init
<1>2. RingInv /\ [Next]_vars => [Queue!Next]_<<Waits, finished>>
  <2> SUFFICES ASSUME RingInv, [Next]_vars
               PROVE  \/ Queue!Next
                      \/ Waits' = Waits /\ finished' = finished
    OBVIOUS
  <2>1. ASSUME NEW f \in Frames, RxPass(f) \/ RxFull(f)
        PROVE  Waits' = Waits /\ finished' = finished
    BY <2>1, WaitsKept DEF RxPass, RxFull
  <2>2. ASSUME NEW f \in Frames, RxAdmit(f)
        PROVE  Waits' = Waits /\ finished' = finished
    <3>1. /\ ~Occupied(NextSlot(eth_rxb_wi)) /\ NextSlot(eth_rxb_wi) \in Slots
      BY <2>2, NextSlotIs, FillingIsFree
      DEF RxAdmit, is_eth_rxb_we, RingInv, TypeOK
    <3>2. \A i \in Slots : i # NextSlot(eth_rxb_wi) => eth_rxb'[i] = eth_rxb[i]
      BY <2>2 DEF RxAdmit, RingInv, TypeOK
    <3>3. QED
      BY <2>2, <3>1, <3>2, WaitsKept DEF RxAdmit
  <2>3. CASE RxCopied
    <3>1. ~Occupied(rx.nxt) /\ rx.nxt \in Slots
      BY <2>3, FillingIsFree
      DEF RxCopied, RingInv, HandlerInv, Filling, TypeOK, RxState
    <3>2. \A i \in Slots : i # rx.nxt => eth_rxb'[i] = eth_rxb[i]
      BY <2>3 DEF RxCopied, RingInv, TypeOK
    <3>3. QED
      BY <2>3, <3>1, <3>2, WaitsKept DEF RxCopied
  <2>4. CASE RxPublish
    <3>1. finished' = finished
      BY <2>4 DEF RxPublish
    <3>2. QED
      BY <2>4, <3>1, PublishPuts DEF Queue!Next, Queue!Put, Waits, At
  <2>5. CASE TxAdvance
    BY <2>5, AdvanceTakes DEF Queue!Next, Queue!Take, Waits, At
  <2>6. CASE TxTranslate
    <3>1. \A i \in Slots : eth_rxb'[i].frame = eth_rxb[i].frame
      BY <2>6 DEF TxTranslate, RingInv, TypeOK, Content
    <3>2. QED
      BY <2>6, <3>1, WaitsKept DEF TxTranslate
  <2>7. CASE TxStart \/ TxFetch \/ TxDrop \/ TxSend \/ UNCHANGED vars
    BY <2>7, WaitsKept DEF TxStart, TxFetch, TxDrop, TxSend, vars
  <2>8. QED
    BY <2>1, <2>2, <2>3, <2>4, <2>5, <2>6, <2>7 DEF Next, Handler, Task
<1>3. QED
  BY <1>1, <1>2, RingInvariant, PTL
  DEF Spec, IsQueue, Queue!Spec, Waits, At
==============================================================================
