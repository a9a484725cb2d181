---------------------------- MODULE IpUtilProofs -----------------------------
(***************************************************************************)
(* The arithmetic of ip_util for every width: is_timeout for the 2^32      *)
(* values of the firmware's counter as well as the 16 of the model         *)
(* checking run, the checksums for words of 16 bits as well as of 2.       *)
(***************************************************************************)
EXTENDS TimeoutClock, Checksum, SequenceTheorems, WellFoundedInduction, TLAPS

\* One tick makes every stamp one unit older, except that a stamp as old as
\* a whole turn of the counter looks new again (hdr_portmap.cpp:10-20).
LEMMA ElapsedTick ==
  ASSUME NEW s \in Clock, NEW c \in Clock
  PROVE  /\ NextTick(c) \in Clock
         /\ Elapsed(s, c) \in Clock
         /\ Elapsed(s, c) + 1 < ClockMod
              => Elapsed(s, NextTick(c)) = Elapsed(s, c) + 1
  BY ClockModAssumption DEF Clock, NextTick, Elapsed

\* The stamp and the readings stay in the range of the counter.
THEOREM TypeCorrect == Spec => []TypeOK
<1>1. Init => TypeOK
  BY ClockModAssumption, MaxRealAssumption DEF Init, TypeOK, Clock
<1>2. TypeOK /\ [Next]_vars => TypeOK'
  <2> SUFFICES ASSUME TypeOK, [Next]_vars PROVE TypeOK'
    OBVIOUS
  <2>1. CASE Stamp
    BY <2>1, MaxRealAssumption DEF Stamp, TypeOK
  <2>2. CASE Tick
    BY <2>2, ElapsedTick, MaxRealAssumption DEF Tick, TypeOK
  <2>3. CASE UNCHANGED vars
    BY <2>3 DEF vars, TypeOK
  <2>4. QED
    BY <2>1, <2>2, <2>3 DEF Next
<1>3. QED
  BY <1>1, <1>2, PTL DEF Spec

\* The computed age equals the real one within one turn of the counter.
THEOREM AgeIsExact == Spec => []AgeExact
<1>1. Init => AgeExact
  BY ClockModAssumption DEF Init, AgeExact, Elapsed, Clock
<1>2. TypeOK /\ AgeExact /\ [Next]_vars => AgeExact'
  <2> SUFFICES ASSUME TypeOK, AgeExact, [Next]_vars PROVE AgeExact'
    OBVIOUS
  <2>1. CASE Stamp
    BY <2>1, ClockModAssumption DEF Stamp, TypeOK, AgeExact, Elapsed, Clock
  <2>2. CASE Tick
    <3>1. /\ start \in Clock /\ current \in Clock /\ real \in Nat
          /\ start' = start /\ current' = NextTick(current) /\ real' = real + 1
      BY <2>2, MaxRealAssumption DEF Tick, TypeOK
    <3>2. SUFFICES ASSUME real' < ClockMod PROVE Elapsed(start', current') = real'
      BY DEF AgeExact
    <3>3. Elapsed(start, current) = real
      BY <3>1, <3>2, ClockModAssumption DEF AgeExact
    <3>4. QED
      BY <3>1, <3>2, <3>3, ElapsedTick
  <2>3. CASE UNCHANGED vars
    BY <2>3 DEF vars, AgeExact
  <2>4. QED
    BY <2>1, <2>2, <2>3 DEF Next
<1>3. QED
  BY <1>1, <1>2, TypeCorrect, PTL DEF Spec

\* is_timeout answers rightly for every timeout, wherever in the range of the
\* counter the stamp was taken, within one turn of the counter.
THEOREM TimeoutIsExact == Spec => []ExactWithinOneTurn
<1>1. TypeOK /\ AgeExact => ExactWithinOneTurn
  BY DEF TypeOK, AgeExact, ExactWithinOneTurn, IsTimeout
<1>2. QED
  BY <1>1, TypeCorrect, AgeIsExact, PTL

\* A wait that has expired stays expired, within one turn of the counter.
THEOREM ExpiryStays == Spec => ExpiryIsStable
<1> DEFINE Stable == real' > 0 /\ real' < ClockMod =>
                       \A t \in Clock : IsTimeout(t, start, current)
                                          => IsTimeout(t, start', current')
<1>1. TypeOK /\ AgeExact /\ [Next]_vars => [Stable]_vars
  <2> SUFFICES ASSUME TypeOK, AgeExact, Next, real' > 0, real' < ClockMod,
                      NEW t \in Clock, IsTimeout(t, start, current)
               PROVE  IsTimeout(t, start', current')
    OBVIOUS
  <2>1. Tick
    BY DEF Next, Stamp
  <2>2. /\ start \in Clock /\ current \in Clock /\ real \in Nat
        /\ start' = start /\ current' = NextTick(current) /\ real' = real + 1
    BY <2>1, MaxRealAssumption DEF Tick, TypeOK
  <2>3. Elapsed(start, current) = real
    BY <2>2, ClockModAssumption DEF AgeExact
  <2>4. Elapsed(start', current') = real + 1
    BY <2>2, <2>3, ElapsedTick
  <2>5. QED
    BY <2>2, <2>3, <2>4 DEF IsTimeout, Clock
<1>2. QED
  BY <1>1, TypeCorrect, AgeIsExact, PTL DEF Spec, ExpiryIsStable

-------------------------------------------------------------------------------
(* The checksums, for words and accumulators of any width and packets of any *)
(* length                                                                    *)

\* The accumulator stands for the exact sum: it differs by a multiple of
\* Half - 1, and only nothing adds up to 0.
Represents(a, t) == /\ \E q \in Int : t - a = q * (Half - 1)
                    /\ a = 0 <=> t = 0

LEMMA Widths ==
  /\ Half \in Nat /\ Half >= 4 /\ Full \in Nat /\ TopBit \in Nat
  /\ 2 * Half <= TopBit /\ 2 * TopBit <= Full
  /\ Full - 1 = (Half - 1) * (Half + 1)
<1>1. Half \in Nat /\ Half >= 4
  <2>1. ByteMod * ByteMod >= 2 * ByteMod /\ ByteMod * ByteMod \in Nat /\ 2 * ByteMod >= 4
    BY ChecksumAssumption
  <2> QED
    BY <2>1, ChecksumAssumption
<1>2. Half * Half >= 4 * Half /\ Half * Half \in Nat
  BY <1>1
<1>3. Half * Half - 1 = (Half - 1) * (Half + 1)
  BY <1>1
<1> QED
  BY <1>1, <1>2, <1>3 DEF Full, TopBit

\* hcs += s; if (hcs < s) hcs++ adds s modulo Full - 1 and makes no 0.
LEMMA EndAroundAdds ==
  ASSUME NEW h \in 0 .. Full - 1, NEW s \in 0 .. Full - 1
  PROVE  /\ EndAround(h, s) \in 0 .. Full - 1
         /\ EndAround(h, s) = h + s \/ EndAround(h, s) = h + s - (Full - 1)
         /\ EndAround(h, s) = 0 <=> h + s = 0
<1>1. Full \in Nat /\ Full > 0
  BY Widths
<1>2. CASE h + s < Full
  <2>1. (h + s) % Full = h + s
    BY <1>1, <1>2
  <2> QED
    BY <1>1, <1>2, <2>1 DEF EndAround
<1>3. CASE h + s >= Full
  <2>1. (h + s) % Full = h + s - Full
    BY <1>1, <1>3
  <2>2. h + s - Full < s /\ h + s - Full + 1 < Full
    BY <1>1
  <2>3. (h + s - Full + 1) % Full = h + s - Full + 1
    BY <1>1, <1>3, <2>2
  <2> QED
    BY <1>1, <1>3, <2>1, <2>2, <2>3 DEF EndAround
<1> QED
  BY <1>1, <1>2, <1>3

LEMMA DivMod ==
  ASSUME NEW x \in Nat, NEW n \in Nat, n > 0
  PROVE  x % n \in 0 .. n - 1 /\ x \div n \in Nat /\ x = n * (x \div n) + (x % n)
  OBVIOUS

LEMMA Remainder ==
  ASSUME NEW x \in Nat, NEW n \in Nat, n > 0,
         NEW r \in 0 .. n - 1, NEW d \in Int, x = n * d + r
  PROVE  x % n = r
<1>1. x % n \in 0 .. n - 1 /\ x \div n \in Nat /\ x = n * (x \div n) + (x % n)
  BY DivMod
<1> DEFINE e == d - (x \div n)
<1>2. e \in Int /\ n * e = (x % n) - r
  BY <1>1
<1> HIDE DEF e
<1>3. n * e < n /\ n * e > -n
  BY <1>1, <1>2
<1>4. e >= 1 => n * e >= n
  BY <1>2
<1>5. e <= -1 => n * e <= -n
  BY <1>2
<1>6. e = 0
  BY <1>2, <1>3, <1>4, <1>5
<1> QED
  BY <1>1, <1>2, <1>6

\* Folding the upper half onto the lower takes away a multiple of Half - 1.
LEMMA FoldKeeps ==
  ASSUME NEW h \in 0 .. Full - 1
  PROVE  /\ Fold(h) \in 0 .. 2 * Half - 2
         /\ \E q \in Nat : h - Fold(h) = q * (Half - 1)
         /\ Fold(h) = 0 <=> h = 0
<1> DEFINE lo == h % Half
           hi == h \div Half
<1>1. Half \in Nat /\ Half >= 4 /\ h \in Nat /\ h < Half * Half
  BY Widths DEF Full
<1>2. /\ lo \in 0 .. Half - 1 /\ hi \in Nat
      /\ h = Half * hi + lo
  BY <1>1
<1> HIDE DEF lo, hi
<1>3. hi < Half
  <2>1. ASSUME hi >= Half PROVE FALSE
    <3>1. Half * hi >= Half * Half
      BY <1>1, <1>2, <2>1
    <3> QED
      BY <1>1, <1>2, <3>1
  <2> QED
    BY <1>1, <1>2, <2>1
<1>4. h - (lo + hi) = hi * (Half - 1)
  BY <1>1, <1>2
<1>5. lo + hi = 0 <=> h = 0
  BY <1>1, <1>2
<1>6. Fold(h) = lo + hi
  BY DEF Fold, lo, hi
<1>7. Fold(h) \in 0 .. 2 * Half - 2
  BY <1>1, <1>2, <1>3, <1>6
<1>8. \E q \in Nat : h - Fold(h) = q * (Half - 1)
  BY <1>2, <1>4, <1>6
<1> QED
  BY <1>5, <1>6, <1>7, <1>8

\* What the accumulator stands for after a word, and after a fold.
LEMMA StillRepresents ==
  ASSUME NEW a \in Nat, NEW t \in Nat, Represents(a, t),
         NEW s \in Nat, NEW u \in Nat, NEW k \in Int, s - u = k * (Half - 1), s = 0 <=> u = 0,
         NEW b \in Nat, NEW m \in Int, a + s - b = m * (Half - 1), b = 0 <=> a + s = 0
  PROVE  Represents(b, t + u)
<1>1. Half \in Nat
  BY Widths
<1>2. PICK q \in Int : t - a = q * (Half - 1)
  BY DEF Represents
<1>3. (t + u) - b = (q - k + m) * (Half - 1)
  BY <1>1, <1>2
<1>4. b = 0 <=> t + u = 0
  BY DEF Represents
<1> QED
  BY <1>3, <1>4 DEF Represents

LEMMA SumStill ==
  ASSUME NEW a \in Nat, NEW t \in Nat, Represents(a, t), NEW s \in Nat
  PROVE  Represents(a + s, t + s)
<1>1. PICK q \in Int : t - a = q * (Half - 1)
  BY DEF Represents
<1>2. (t + s) - (a + s) = q * (Half - 1)
  BY <1>1
<1>3. a + s = 0 <=> t + s = 0
  BY DEF Represents
<1> QED
  BY <1>2, <1>3 DEF Represents

LEMMA FoldStill ==
  ASSUME NEW h \in 0 .. Full - 1, NEW t \in Nat, Represents(h, t)
  PROVE  Represents(Fold(h), t)
<1> DEFINE b == Fold(h)
<1>1. Half \in Nat /\ h \in Nat /\ b \in Nat /\ (b = 0 <=> h = 0)
  BY FoldKeeps, Widths
<1>2. PICK m \in Nat : h - b = m * (Half - 1)
  BY FoldKeeps
<1>3. PICK q \in Int : t - h = q * (Half - 1)
  BY DEF Represents
<1> HIDE DEF b
<1>4. t - b = (q + m) * (Half - 1) /\ q + m \in Int
  BY <1>1, <1>2, <1>3
<1>5. Represents(b, t)
  BY <1>1, <1>4 DEF Represents
<1> QED
  BY <1>5 DEF b

LEMMA EndAroundStill ==
  ASSUME NEW a \in 0 .. Full - 1, NEW t \in Nat, Represents(a, t),
         NEW s \in 0 .. Full - 1, NEW u \in Nat, NEW k \in Int, s - u = k * (Half - 1),
         s = 0 <=> u = 0
  PROVE  Represents(EndAround(a, s), t + u)
<1> DEFINE b == EndAround(a, s)
<1>1. /\ b \in 0 .. Full - 1 /\ (b = 0 <=> a + s = 0)
      /\ b = a + s \/ b = a + s - (Full - 1)
  BY EndAroundAdds
<1> HIDE DEF b
<1>2. /\ Half \in Nat /\ Full \in Nat /\ Full - 1 = (Half - 1) * (Half + 1)
      /\ a \in Nat /\ s \in Nat /\ b \in Nat
  BY <1>1, Widths
<1>3. PICK m \in Int : a + s - b = m * (Half - 1)
  <2>1. CASE b = a + s
    <3>1. a + s - b = 0 * (Half - 1)
      BY <1>2, <2>1
    <3> QED
      BY <3>1
  <2>2. CASE b = a + s - (Full - 1)
    <3>1. a + s - b = (Half + 1) * (Half - 1) /\ Half + 1 \in Int
      BY <1>2, <2>2
    <3> QED
      BY <3>1, Zenon
  <2> QED
    BY <1>1, <2>1, <2>2
<1>4. Represents(b, t + u)
  BY <1>1, <1>2, <1>3, StillRepresents
<1> QED
  BY <1>4 DEF b

\* An accumulator of 16 bits that stands for a sum is its one's complement sum.
LEMMA Unique ==
  ASSUME NEW a \in 0 .. Half - 1, NEW t \in Nat, Represents(a, t)
  PROVE  a = OnesSum(t)
<1>1. Half \in Nat /\ Half >= 4
  BY Widths
<1>2. CASE t = 0
  BY <1>2 DEF Represents, OnesSum
<1>3. CASE t # 0
  <2> DEFINE n == Half - 1
  <2>1. PICK q \in Int : t - a = q * n
    BY DEF Represents
  <2>2. a - 1 \in 0 .. n - 1 /\ n \in Nat /\ n > 0 /\ t - 1 \in Nat
    BY <1>1, <1>3 DEF Represents
  <2>3. t - 1 = n * q + (a - 1)
    BY <1>1, <2>1
  <2>4. (t - 1) % n = a - 1
    <3> HIDE DEF n
    <3> QED
      BY <2>2, <2>3, Remainder
  <2> QED
    BY <1>1, <1>3, <2>2, <2>4 DEF OnesSum
<1> QED
  BY <1>2, <1>3

\* What a loop has added is in the accumulator; ip_checksum2 has room for one
\* more word.
Loop == Adds => /\ Represents(acc, total)
                /\ user = "payload" /\ Left >= 1 => acc < TopBit

SumInv == ChecksumTypeOK /\ at <= Len(packet) + 1 /\ Loop

LEMMA PacketFacts ==
  ASSUME NEW p \in Packets
  PROVE  /\ Len(p) \in HcsPos .. MaxLen
         /\ Len(p) \in Nat
         /\ p \in [1 .. Len(p) -> Word]
         /\ \A k \in 1 .. Len(p) : p[k] \in Word
         /\ \A k \in 1 .. Len(p), w \in Word : /\ [p EXCEPT ![k] = w] \in Packets
                                               /\ Len([p EXCEPT ![k] = w]) = Len(p)
<1>1. PICK n \in HcsPos .. MaxLen : p \in [1 .. n -> Word]
  BY DEF Packets
<1>2. n \in Nat /\ HcsPos \in Nat /\ MaxLen \in Nat
  BY ChecksumAssumption
<1>3. \A q \in [1 .. n -> Word] : Len(q) = n /\ q \in Packets
  <2> SUFFICES ASSUME NEW q \in [1 .. n -> Word] PROVE Len(q) = n /\ q \in Packets
    OBVIOUS
  <2>1. q \in Packets
    BY DEF Packets
  <2>2. Len(q) = n
    BY <1>2
  <2> QED
    BY <2>1, <2>2
<1>4. \A k \in 1 .. n, w \in Word : [p EXCEPT ![k] = w] \in [1 .. n -> Word]
  BY <1>1
<1> QED
  BY <1>1, <1>2, <1>3, <1>4

LEMMA SumInit ==
  ASSUME ChecksumInit
  PROVE  SumInv
<1>1. /\ user \in Users /\ sent \in Packets /\ odd \in BOOLEAN
      /\ at = 1 /\ acc = 0 /\ total = 0
      /\ phase \in {"check", "edit"}
  BY DEF ChecksumInit
<1>2. PICK k \in 1 .. Len(sent), w \in Word : packet = [sent EXCEPT ![k] = w]
  BY DEF ChecksumInit
<1>3. packet \in Packets /\ Len(packet) \in Nat
  BY <1>1, <1>2, PacketFacts
<1>4. ChecksumTypeOK
  BY <1>1, <1>3, Widths, ChecksumAssumption DEF ChecksumTypeOK
<1>5. Represents(0, 0)
  <2>1. 0 - 0 = 0 * (Half - 1)
    BY Widths
  <2> QED
    BY <2>1 DEF Represents
<1> QED
  BY <1>1, <1>3, <1>4, <1>5, Widths DEF SumInv, Loop

\* A word of the packet and what two of them make.
LEMMA Words ==
  ASSUME NEW x \in Word, NEW y \in Word
  PROVE  /\ x \in Nat /\ y \in Nat /\ x \in 0 .. Full - 1
         /\ x + Half * y \in 0 .. Full - 1
         /\ (x + Half * y) - (x + y) = y * (Half - 1)
         /\ x + Half * y = 0 <=> x + y = 0
<1>1. Half \in Nat /\ Half >= 4 /\ x \in 0 .. Half - 1 /\ y \in 0 .. Half - 1
  BY Widths DEF Word
<1>2. Half * y <= Half * (Half - 1)
  BY <1>1
<1>3. Half * (Half - 1) = Full - Half
  BY <1>1 DEF Full
<1>4. y >= 1 => Half * y >= Half
  BY <1>1
<1>5. Half * y \in Nat
  BY <1>1
<1> QED
  BY <1>1, <1>2, <1>3, <1>4, <1>5, Widths

LEMMA SumNext ==
  ASSUME SumInv, [ChecksumNext]_sumVars
  PROVE  SumInv'
<1>1. /\ user \in Users /\ sent \in Packets /\ packet \in Packets /\ odd \in BOOLEAN
      /\ at \in 1 .. MaxLen + 1 /\ at <= Len(packet) + 1
      /\ acc \in 0 .. Full - 1 /\ total \in Nat
      /\ Len(packet) \in HcsPos .. MaxLen /\ Len(packet) \in Nat
      /\ Left \in Nat
      /\ \A k \in 1 .. Len(packet) : packet[k] \in Word
  <2>1. user \in Users /\ sent \in Packets /\ packet \in Packets /\ odd \in BOOLEAN
        /\ at \in 1 .. MaxLen + 1 /\ at <= Len(packet) + 1
        /\ acc \in 0 .. Full - 1 /\ total \in Nat
    BY DEF SumInv, ChecksumTypeOK
  <2>2. /\ Len(packet) \in HcsPos .. MaxLen /\ Len(packet) \in Nat
        /\ \A k \in 1 .. Len(packet) : packet[k] \in Word
    BY <2>1, PacketFacts
  <2>3. Left \in Nat
    BY <2>1, <2>2, ChecksumAssumption DEF Left
  <2> QED
    BY <2>1, <2>2, <2>3
<1>2. Half \in Nat /\ Half >= 4 /\ Full \in Nat /\ Full > 0 /\ TopBit \in Nat /\ MaxLen \in Nat
  BY Widths, ChecksumAssumption
<1>3. CASE Add32
  <2>1. /\ Adds /\ user # "payload" /\ at + 1 <= Len(packet)
        /\ UNCHANGED <<user, sent, packet, odd, phase>>
        /\ at' = at + 2
    BY <1>1, <1>3 DEF Add32, Left, InWords32
  <2> DEFINE x == packet[at]
             y == packet[at + 1]
             s == x + Half * y
  <2>2. x \in Word /\ y \in Word
    BY <1>1, <2>1
  <2>3. acc' = EndAround(acc, s) /\ total' = total + (x + y)
    <3>1. total' = total + x + y
      BY <1>3 DEF Add32
    <3>2. x \in Nat /\ y \in Nat
      BY <2>2, Words
    <3> QED
      BY <1>1, <1>3, <3>1, <3>2 DEF Add32
  <2> HIDE DEF x, y
  <2>4. /\ s \in 0 .. Full - 1 /\ s \in Nat /\ x + y \in Nat
        /\ s - (x + y) = y * (Half - 1) /\ y \in Int
        /\ s = 0 <=> x + y = 0
    BY <2>2, Words, <1>2
  <2> HIDE DEF s
  <2>5. Represents(acc', total')
    BY <1>1, <2>1, <2>3, <2>4, EndAroundStill DEF SumInv, Loop
  <2>6. acc' \in 0 .. Full - 1 /\ total' \in Nat
    <3>1. acc' \in 0 .. Full - 1
      BY <1>1, <2>3, <2>4, EndAroundAdds
    <3>2. total' \in Nat
      BY <1>1, <2>3, <2>4
    <3> QED
      BY <3>1, <3>2
  <2>7. at' \in 1 .. MaxLen + 1 /\ at' <= Len(packet) + 1
    BY <1>1, <1>2, <2>1
  <2> QED
    BY <1>1, <2>1, <2>5, <2>6, <2>7 DEF SumInv, ChecksumTypeOK, Loop
<1>4. CASE AddRest
  <2>1. /\ Adds /\ user # "payload" /\ at <= Len(packet)
        /\ UNCHANGED <<user, sent, packet, odd, phase>>
        /\ at' = at + 1
    BY <1>1, <1>4 DEF AddRest, Left, InWords32
  <2> DEFINE x == packet[at]
  <2>2. /\ x \in Word /\ x \in Nat /\ x \in 0 .. Full - 1
        /\ x - x = 0 * (Half - 1)
    BY <1>1, <1>2, <2>1, Words
  <2>3. acc' = EndAround(acc, x) /\ total' = total + x
    BY <1>4 DEF AddRest
  <2> HIDE DEF x
  <2>4. Represents(acc', total')
    BY <1>1, <2>1, <2>2, <2>3, EndAroundStill DEF SumInv, Loop
  <2>5. acc' \in 0 .. Full - 1 /\ total' \in Nat /\ at' \in 1 .. MaxLen + 1
        /\ at' <= Len(packet) + 1
    BY <1>1, <1>2, <2>1, <2>2, <2>3, EndAroundAdds
  <2> QED
    BY <1>1, <2>1, <2>4, <2>5 DEF SumInv, ChecksumTypeOK, Loop
<1>5. CASE Add16
  <2>1. /\ Adds /\ user = "payload" /\ Left >= 1 /\ at <= Len(packet)
        /\ UNCHANGED <<user, sent, packet, odd, phase>>
        /\ at' = at + 1
    BY <1>1, <1>5 DEF Add16, Left, InWords32
  <2> DEFINE x == packet[at]
  <2>2. x \in 0 .. Half - 1 /\ x \in Nat
    BY <1>1, <1>2, <2>1 DEF Word
  <2>3. total' = total + x
    BY <1>5 DEF Add16
  <2>4. acc < TopBit /\ Represents(acc, total)
    BY <2>1 DEF SumInv, Loop
  <2>5. /\ acc' \in 0 .. Full - 1
        /\ Represents(acc', total')
        /\ acc' < TopBit \/ IsByte(at)
    <3>1. acc' = IF IsByte(at) THEN (acc + x) % Full ELSE Folding(acc, x)
      BY <1>5 DEF Add16
    <3> HIDE DEF x
    <3>2. acc + x \in 0 .. Full - 1 /\ (acc + x) % Full = acc + x
      BY <1>1, <1>2, <2>2, <2>4, Widths
    <3>3. CASE acc' = acc + x /\ (acc + x < TopBit \/ IsByte(at))
      <4>2. Represents(acc', total')
        BY <1>1, <2>2, <2>3, <2>4, <3>3, SumStill
      <4> QED
        BY <3>2, <3>3, <4>2
    <3>4. CASE acc' = Fold(acc + x)
      <4>1. Represents(acc + x, total + x)
        BY <1>1, <2>2, <2>4, SumStill
      <4>2. total + x \in Nat
        BY <1>1, <2>2
      <4>3. Fold(acc + x) \in 0 .. 2 * Half - 2
        BY <3>2, FoldKeeps
      <4>4. Represents(acc', total')
        BY <2>3, <3>2, <3>4, <4>1, <4>2, FoldStill
      <4>5. acc' \in 0 .. Full - 1 /\ acc' < TopBit
        BY <1>2, <3>4, <4>3, Widths
      <4> QED
        BY <4>4, <4>5
    <3> QED
      BY <1>2, <3>1, <3>2, <3>3, <3>4 DEF Folding
  <2>6. at' \in 1 .. MaxLen + 1 /\ at' <= Len(packet) + 1 /\ total' \in Nat
    BY <1>1, <1>2, <2>1, <2>2, <2>3
  <2>7. IsByte(at) => ~(Left' >= 1)
    BY <1>1, <2>1 DEF IsByte, Left
  <2> QED
    BY <1>1, <2>1, <2>5, <2>6, <2>7 DEF SumInv, ChecksumTypeOK, Loop
<1>6. CASE FoldMore
  <2>1. /\ Adds /\ Left = 0 /\ acc' = Fold(acc)
        /\ UNCHANGED <<user, sent, packet, odd, phase, at, total>>
    BY <1>6 DEF FoldMore
  <2>2. acc' \in 0 .. 2 * Half - 2
    BY <1>1, <2>1, FoldKeeps
  <2>6. Represents(acc', total')
    BY <1>1, <2>1, FoldStill DEF SumInv, Loop
  <2>7. acc' \in 0 .. Full - 1
    BY <1>2, <2>2, Widths
  <2>8. ~(Left' >= 1)
    BY <2>1 DEF Left
  <2> QED
    BY <1>1, <2>1, <2>6, <2>7, <2>8 DEF SumInv, ChecksumTypeOK, Loop
<1>7. CASE HasOptions
  BY <1>7 DEF HasOptions, SumInv, ChecksumTypeOK, Loop, Adds
<1>8. CASE Checked
  BY <1>8 DEF Checked, SumInv, ChecksumTypeOK, Loop, Adds
<1>9. CASE Edit
  <2>1. PICK w \in Word : packet' = Edited(packet, w)
    BY <1>9 DEF Edit
  <2>2. 1 \in 1 .. Len(packet) /\ HcsPos \in 1 .. Len(packet) /\ 0 \in Word
    BY <1>1, <1>2, ChecksumAssumption DEF Word
  <2> DEFINE p == [packet EXCEPT ![1] = w]
  <2>3. p \in Packets /\ Len(p) = Len(packet)
    BY <1>1, <2>2, PacketFacts
  <2>4. packet' = [p EXCEPT ![HcsPos] = 0]
    BY <2>1 DEF Edited
  <2> HIDE DEF p
  <2>5. packet' \in Packets /\ Len(packet') = Len(packet)
    BY <2>2, <2>3, <2>4, PacketFacts
  <2>6. Represents(0, 0)
    <3>1. 0 - 0 = 0 * (Half - 1)
      BY <1>2
    <3> QED
      BY <3>1 DEF Represents
  <2>7. /\ phase' = "fill" /\ at' = 1 /\ acc' = 0 /\ total' = 0
        /\ UNCHANGED <<user, sent, odd>>
    BY <1>9 DEF Edit
  <2>8. 0 < TopBit /\ 1 <= Len(packet) + 1 /\ 1 \in 1 .. MaxLen + 1
    BY <1>1, <1>2, Widths
  <2> QED
    BY <1>1, <1>2, <2>5, <2>6, <2>7, <2>8 DEF SumInv, ChecksumTypeOK, Loop
<1>10. CASE Fill16
  <2>1. /\ Summed
        /\ packet' = [packet EXCEPT ![HcsPos] = Hcs] /\ phase' = "done"
        /\ UNCHANGED <<user, sent, odd, at, acc, total>>
    BY <1>10 DEF Fill16
  <2>2. Hcs \in Word /\ HcsPos \in 1 .. Len(packet)
    BY <1>1, <1>2, <2>1, ChecksumAssumption DEF Summed, Hcs, Word
  <2>3. packet' \in Packets /\ Len(packet') = Len(packet)
    BY <1>1, <2>1, <2>2, PacketFacts
  <2> QED
    BY <1>1, <2>1, <2>3 DEF SumInv, ChecksumTypeOK, Loop, Adds
<1>11. CASE UNCHANGED sumVars
  BY <1>11 DEF sumVars, SumInv, ChecksumTypeOK, Loop, Adds, Left
<1> QED
  BY <1>3, <1>4, <1>5, <1>6, <1>7, <1>8, <1>9, <1>10, <1>11 DEF ChecksumNext

THEOREM SumInvariance == ChecksumSpec => []SumInv
<1>1. ChecksumInit => SumInv
  BY SumInit
<1>2. SumInv /\ [ChecksumNext]_sumVars => SumInv'
  BY SumNext
<1> QED
  BY <1>1, <1>2, PTL DEF ChecksumSpec

\* No word is read past the packet, no sum leaves its width and what is written
\* is a word (ip_util.h:22-129).
THEOREM ChecksumTypeCorrect == ChecksumSpec => []ChecksumTypeOK
<1>1. SumInv => ChecksumTypeOK
  BY DEF SumInv
<1> QED
  BY <1>1, SumInvariance, PTL

\* Both loops compute the one's complement of the sum, for packets of any
\* length: no carry is lost and none is counted twice (ip_util.h:22-63, 78-129).
THEOREM SumsAreExact == ChecksumSpec => []SumsExact
<1>1. SumInv => SumsExact
  <2> SUFFICES ASSUME SumInv, Summed PROVE Hcs = Complement(total)
    BY DEF SumsExact
  <2>1. acc \in 0 .. Half - 1 /\ total \in Nat /\ Represents(acc, total)
    BY Widths DEF SumInv, ChecksumTypeOK, Loop, Summed
  <2>2. acc = OnesSum(total)
    BY <2>1, Unique
  <2> QED
    BY <2>2 DEF Hcs, Complement
<1> QED
  BY <1>1, SumInvariance, PTL

\* Why a packet that was written a checksum passes the next check: the one's
\* complement added to its own sum gives 0 (ip_util.h:65-75).
THEOREM ComplementVerifies ==
  ASSUME NEW t \in Nat
  PROVE  Complement(t + Complement(t)) = 0
<1> DEFINE n == Half - 1
           c == Complement(t)
<1>1. Half \in Nat /\ Half >= 4 /\ n \in Nat /\ n > 0 /\ n = Half - 1
  BY Widths
<1>2. CASE t = 0
  <2>1. c = n
    BY <1>1, <1>2 DEF Complement, OnesSum
  <2>2. (n - 1) % n = n - 1
    BY <1>1
  <2> HIDE DEF n, c
  <2>3. OnesSum(t + c) = n
    BY <1>1, <1>2, <2>1, <2>2 DEF OnesSum
  <2> QED
    BY <1>1, <2>3 DEF Complement, c
<1>3. CASE t # 0
  <2> DEFINE r == (t - 1) % n
             d == (t - 1) \div n
  <2>1. r \in 0 .. n - 1 /\ d \in Nat /\ t - 1 = n * d + r
    BY <1>1, <1>3, DivMod
  <2>2. c = n - 1 - r
    BY <1>1, <1>3, <2>1 DEF Complement, OnesSum
  <2> HIDE DEF n, c, r, d
  <2>3. (t + c) - 1 = n * d + (n - 1) /\ n * d \in Nat
    BY <1>1, <2>1, <2>2
  <2>4. ((t + c) - 1) % n = n - 1
    BY <1>1, <2>1, <2>3, Remainder
  <2>5. t + c # 0 /\ t + c \in Nat
    BY <1>1, <2>3, <1>3, <2>1, <2>2
  <2>6. OnesSum(t + c) = n
    <3>1. \A x : x # 0 => OnesSum(x) = 1 + ((x - 1) % n)
      BY DEF OnesSum, n
    <3>2. OnesSum(t + c) = 1 + (((t + c) - 1) % n)
      BY <2>5, <3>1, Zenon
    <3> QED
      BY <1>1, <2>4, <3>2
  <2> QED
    BY <1>1, <2>6 DEF Complement, c
<1> QED
  BY <1>2, <1>3

-------------------------------------------------------------------------------
(* Sums of words *)

\* Induction over data as a smallest counterexample: a set of numbers that is
\* not empty has a least member.
LEMMA LeastNumber ==
  ASSUME NEW S \in SUBSET Nat, S # {}
  PROVE  \E m \in S : \A k \in S : m <= k
<1> DEFINE Less == {ss \in Nat \X Nat : ss[1] < ss[2]}
<1>1. IsWellFoundedOn(Less, Nat)
  BY NatLessThanWellFounded, Zenon DEF OpToRel
<1>2. PICK m \in S : \A k \in S : <<k, m>> \notin Less
  <2> HIDE DEF Less
  <2> QED
    BY <1>1, WFMin
<1>3. ASSUME NEW k \in S, k < m PROVE FALSE
  <2>1. k \in Nat /\ m \in Nat
    OBVIOUS
  <2>2. <<k, m>> \in Less
    BY <1>3, <2>1
  <2> QED
    BY <1>2, <2>2
<1>4. \A k \in S : k \in Nat /\ m \in Nat /\ ~(k < m)
  BY <1>3
<1> QED
  BY <1>4

\* The recursion that defines Sums has a solution, and Sums is one.
LEMMA SumsDef ==
  ASSUME NEW p \in Packets
  PROVE  /\ Sums(p)[0] = 0
         /\ \A k \in 1 .. Len(p) : Sums(p)[k] = Sums(p)[k - 1] + p[k]
<1> DEFINE Adding(g, n) == g = [k \in 0 .. n |-> IF k = 0 THEN 0 ELSE g[k - 1] + p[k]]
           Bad == {n \in 0 .. Len(p) : ~\E g : Adding(g, n)}
<1>0. Len(p) \in Nat
  BY PacketFacts
<1>1. Bad = {}
  <2>1. SUFFICES ASSUME Bad # {} PROVE FALSE
    OBVIOUS
  <2>2. Bad \in SUBSET Nat
    BY <1>0
  <2>3. PICK n \in Bad : \A k \in Bad : n <= k
    <3> HIDE DEF Bad
    <3> QED
      BY <2>1, <2>2, LeastNumber
  <2>4. n \in 0 .. Len(p) /\ n \in Nat /\ ~\E g : Adding(g, n)
    BY <1>0
  <2>5. CASE n = 0
    <3> DEFINE g == [k \in 0 .. 0 |-> 0]
    <3>1. Adding(g, 0)
      OBVIOUS
    <3> QED
      BY <2>4, <2>5, <3>1
  <2>6. CASE n # 0
    <3>1. n - 1 \in 0 .. Len(p) /\ n - 1 \in Nat /\ ~(n <= n - 1)
      BY <1>0, <2>4, <2>6
    <3>2. n - 1 \notin Bad
      BY <2>3, <3>1
    <3>3. PICK g : Adding(g, n - 1)
      BY <3>1, <3>2
    <3> DEFINE h == [k \in 0 .. n |-> IF k = n THEN g[n - 1] + p[n] ELSE g[k]]
    <3>4. ASSUME NEW k \in 0 .. n PROVE h[k] = IF k = 0 THEN 0 ELSE h[k - 1] + p[k]
      <4>1. CASE k = n
        BY <2>4, <2>6, <3>1, <4>1
      <4>2. CASE k # n
        <5>1. k \in 0 .. n - 1 /\ (k # 0 => k - 1 \in 0 .. n /\ k - 1 # n)
          BY <2>4, <4>2
        <5>2. g[k] = IF k = 0 THEN 0 ELSE g[k - 1] + p[k]
          BY <3>3, <5>1
        <5> QED
          BY <4>2, <5>1, <5>2
      <4> QED
        BY <4>1, <4>2
    <3>5. Adding(h, n)
      <4> DEFINE r == [k \in 0 .. n |-> IF k = 0 THEN 0 ELSE h[k - 1] + p[k]]
      <4>1. \A k \in 0 .. n : h[k] = r[k]
        BY <3>4
      <4>2. h = [k \in 0 .. n |-> h[k]]
        OBVIOUS
      <4> HIDE DEF h
      <4>3. h = r
        BY <4>1, <4>2
      <4> QED
        BY <4>3
    <3> QED
      BY <2>4, <3>5
  <2> QED
    BY <2>5, <2>6
<1>2. \E g : Adding(g, Len(p))
  BY <1>0, <1>1
<1>3. Adding(Sums(p), Len(p))
  <2>1. Sums(p) = CHOOSE g : Adding(g, Len(p))
    BY DEF Sums
  <2> HIDE DEF Adding
  <2> QED
    BY <1>2, <2>1
<1> HIDE DEF Bad
<1>4. \A k \in 0 .. Len(p) : Sums(p)[k] = IF k = 0 THEN 0 ELSE Sums(p)[k - 1] + p[k]
  BY <1>3
<1>5. 0 \in 0 .. Len(p) /\ \A k \in 1 .. Len(p) : k \in 0 .. Len(p) /\ k # 0
  BY <1>0
<1> QED
  BY <1>4, <1>5

LEMMA SumsType ==
  ASSUME NEW p \in Packets
  PROVE  \A k \in 0 .. Len(p) : Sums(p)[k] \in Nat
<1> DEFINE Bad == {k \in 0 .. Len(p) : Sums(p)[k] \notin Nat}
<1>1. Len(p) \in Nat /\ \A k \in 1 .. Len(p) : p[k] \in Nat
  BY PacketFacts, Widths DEF Word
<1>2. SUFFICES ASSUME Bad # {} PROVE FALSE
  OBVIOUS
<1>3. Bad \in SUBSET Nat
  BY <1>1
<1>4. PICK n \in Bad : \A k \in Bad : n <= k
  <2> HIDE DEF Bad
  <2> QED
    BY <1>2, <1>3, LeastNumber
<1>5. n \in 0 .. Len(p) /\ n \in Nat /\ Sums(p)[n] \notin Nat
  BY <1>1
<1>6. n # 0
  BY <1>5, SumsDef
<1>7. n \in 1 .. Len(p) /\ n - 1 \in 0 .. Len(p) /\ ~(n <= n - 1)
  BY <1>1, <1>5, <1>6
<1>8. Sums(p)[n - 1] \in Nat
  BY <1>4, <1>7
<1>9. Sums(p)[n] = Sums(p)[n - 1] + p[n] /\ p[n] \in Nat
  BY <1>1, <1>7, SumsDef
<1> QED
  BY <1>5, <1>8, <1>9

\* One word written over changes every sum that it is part of by as much.
LEMMA SumsExcept ==
  ASSUME NEW p \in Packets, NEW j \in 1 .. Len(p), NEW w \in Word
  PROVE  Total([p EXCEPT ![j] = w]) = Total(p) - p[j] + w
<1> DEFINE q == [p EXCEPT ![j] = w]
           Change(k) == IF k < j THEN 0 ELSE w - p[j]
           Bad == {k \in 0 .. Len(p) : Sums(q)[k] # Sums(p)[k] + Change(k)}
<1>1. /\ Len(p) \in Nat /\ \A k \in 1 .. Len(p) : p[k] \in Nat
      /\ q \in Packets /\ Len(q) = Len(p)
      /\ w \in Nat
      /\ \A k \in 1 .. Len(p) : q[k] = IF k = j THEN w ELSE p[k]
  BY PacketFacts, Widths DEF Word
<1>2. \A k \in 0 .. Len(p) : Sums(p)[k] \in Nat /\ Sums(q)[k] \in Nat
  <2> HIDE DEF q
  <2> QED
    BY <1>1, SumsType
<1>3. /\ Sums(p)[0] = 0 /\ Sums(q)[0] = 0
      /\ \A k \in 1 .. Len(p) : /\ Sums(p)[k] = Sums(p)[k - 1] + p[k]
                                /\ Sums(q)[k] = Sums(q)[k - 1] + q[k]
  <2> HIDE DEF q
  <2> QED
    BY <1>1, SumsDef
<1> HIDE DEF q
<1>4. Bad = {}
  <2>1. SUFFICES ASSUME Bad # {} PROVE FALSE
    OBVIOUS
  <2>2. Bad \in SUBSET Nat
    BY <1>1
  <2>3. PICK n \in Bad : \A k \in Bad : n <= k
    <3> HIDE DEF Bad
    <3> QED
      BY <2>1, <2>2, LeastNumber
  <2>4. n \in 0 .. Len(p) /\ n \in Nat /\ Sums(q)[n] # Sums(p)[n] + Change(n)
    BY <1>1
  <2>5. n # 0
    BY <1>3, <2>4
  <2>6. n \in 1 .. Len(p) /\ n - 1 \in 0 .. Len(p) /\ ~(n <= n - 1)
    BY <1>1, <2>4, <2>5
  <2>7. Sums(q)[n - 1] = Sums(p)[n - 1] + Change(n - 1)
    BY <2>3, <2>6
  <2>8. Sums(q)[n] = Sums(q)[n - 1] + q[n] /\ Sums(p)[n] = Sums(p)[n - 1] + p[n]
    BY <1>3, <2>6
  <2>9. Sums(q)[n - 1] \in Nat /\ Sums(p)[n - 1] \in Nat /\ p[n] \in Nat /\ p[j] \in Nat
    BY <1>1, <1>2, <2>6
  <2>10. CASE n = j
    BY <1>1, <2>4, <2>6, <2>7, <2>8, <2>9, <2>10
  <2>11. CASE n # j
    <3>1. q[n] = p[n]
      BY <1>1, <2>6, <2>11
    <3>2. n - 1 < j <=> n < j
      BY <2>6, <2>11
    <3> QED
      BY <1>1, <2>4, <2>7, <2>8, <2>9, <3>1, <3>2
  <2> QED
    BY <2>10, <2>11
<1>5. Len(p) \in 0 .. Len(p) /\ ~(Len(p) < j)
  BY <1>1
<1>6. Sums(q)[Len(p)] = Sums(p)[Len(p)] + (w - p[j])
  BY <1>4, <1>5
<1>7. p[j] \in Nat /\ Sums(p)[Len(p)] \in Nat
  BY <1>1, <1>2, <1>5
<1> QED
  BY <1>1, <1>6, <1>7 DEF Total, q

\* What passes a check adds up to a multiple of Half - 1, and not to 0.
LEMMA PassingSum ==
  ASSUME NEW t \in Nat, Complement(t) = 0
  PROVE  t # 0 /\ \E q \in Int : t = q * (Half - 1)
<1> DEFINE n == Half - 1
<1>1. n \in Nat /\ n > 0 /\ n = Half - 1
  BY Widths
<1>2. t # 0
  BY <1>1, Widths DEF Complement, OnesSum
<1>3. \E q \in Int : t = q * (Half - 1)
  <2>1. (t - 1) % n = n - 1
    <3>1. OnesSum(t) = 1 + ((t - 1) % n)
      BY <1>2 DEF OnesSum
    <3>2. (t - 1) % n \in Int
      BY <1>1, <1>2
    <3> HIDE DEF n
    <3>3. n - OnesSum(t) = 0
      BY <1>1, Widths DEF Complement
    <3> QED
      BY <1>1, <3>1, <3>2, <3>3
  <2> DEFINE d == (t - 1) \div n
  <2>2. t - 1 = n * d + (n - 1) /\ d \in Nat
    BY <1>1, <1>2, <2>1, DivMod
  <2> HIDE DEF n, d
  <2>3. t = (d + 1) * n /\ d + 1 \in Int
    <3>1. n \in Int /\ d \in Int /\ t \in Int
      BY <1>1, <2>2
    <3>2. t - 1 = n * d + (n - 1)
      BY <2>2
    <3>3. n * d + n = (d + 1) * n
      BY <3>1
    <3>4. n * d \in Int
      BY <3>1
    <3>5. t = n * d + n
      BY <3>1, <3>2, <3>4
    <3> QED
      BY <3>1, <3>3, <3>5
  <2>4. \E q \in Int : t = q * n
    BY <2>3, Zenon
  <2> QED
    BY <2>4 DEF n
<1> QED
  BY <1>2, <1>3

\* And the other way round.
LEMMA SumPasses ==
  ASSUME NEW t \in Nat, t # 0, NEW q \in Int, t = q * (Half - 1)
  PROVE  Complement(t) = 0
<1> DEFINE n == Half - 1
<1>1. n \in Nat /\ n > 0 /\ n = Half - 1 /\ t - 1 \in Nat
  BY Widths
<1>2. t - 1 = n * (q - 1) + (n - 1)
  <2>1. n * (q - 1) = q * n - n
    BY <1>1
  <2> QED
    BY <1>1, <2>1
<1>3. (t - 1) % n = n - 1
  <2> HIDE DEF n
  <2>1. /\ n \in Nat /\ n > 0 /\ n - 1 \in 0 .. n - 1
        /\ t - 1 \in Nat /\ q - 1 \in Int
    BY <1>1
  <2> QED
    BY <1>2, <2>1, Remainder
<1> QED
  BY <1>1, <1>3, Widths DEF Complement, OnesSum

\* To change the order of the bytes is to multiply by ByteMod modulo Half - 1.
LEMMA SwappedWord ==
  ASSUME NEW x \in Word
  PROVE  /\ Swapped(x) \in Word
         /\ Swapped(x) = 0 <=> x = 0
         /\ \E q \in Int : ByteMod * x - Swapped(x) = q * (Half - 1)
<1> DEFINE lo == x % ByteMod
           hi == x \div ByteMod
<1>1. /\ ByteMod \in Nat /\ ByteMod >= 2 /\ Half = ByteMod * ByteMod /\ Half \in Nat
      /\ x \in Nat /\ x < Half
  BY ChecksumAssumption, Widths DEF Word
<1>2. lo \in 0 .. ByteMod - 1 /\ hi \in Nat /\ x = ByteMod * hi + lo
  BY <1>1, DivMod
<1>3. Swapped(x) = ByteMod * lo + hi
  BY DEF Swapped
<1> HIDE DEF lo, hi
<1>4. hi < ByteMod
  <2>1. ASSUME hi >= ByteMod PROVE FALSE
    <3>1. ByteMod * hi >= ByteMod * ByteMod
      BY <1>1, <1>2, <2>1
    <3> QED
      BY <1>1, <1>2, <3>1
  <2> QED
    BY <1>1, <1>2, <2>1
<1>5. ByteMod * lo <= ByteMod * (ByteMod - 1) /\ ByteMod * lo \in Nat
  BY <1>1, <1>2
<1>6. ByteMod * (ByteMod - 1) = Half - ByteMod
  BY <1>1
<1>7. Swapped(x) \in Word
  BY <1>1, <1>2, <1>3, <1>4, <1>5, <1>6 DEF Word
<1>8. (ByteMod * lo = 0 <=> lo = 0) /\ (ByteMod * hi = 0 <=> hi = 0) /\ ByteMod * hi \in Nat
  BY <1>1, <1>2
<1>9. Swapped(x) = 0 <=> x = 0
  BY <1>1, <1>2, <1>3, <1>5, <1>8
<1>10. ByteMod * x - Swapped(x) = hi * (Half - 1)
  <2>1. ByteMod * (ByteMod * hi + lo) = Half * hi + ByteMod * lo
    BY <1>1, <1>2
  <2>2. hi * (Half - 1) = Half * hi - hi
    BY <1>1, <1>2
  <2>3. Half * hi \in Int
    BY <1>1, <1>2
  <2> QED
    BY <1>2, <1>3, <1>5, <2>1, <2>2, <2>3
<1>11. \E q \in Int : ByteMod * x - Swapped(x) = q * (Half - 1)
  BY <1>2, <1>10
<1> QED
  BY <1>7, <1>9, <1>11

LEMMA OtherOrderSums ==
  ASSUME NEW p \in Packets
  PROVE  /\ OtherOrder(p) \in Packets /\ Len(OtherOrder(p)) = Len(p)
         /\ \A k \in 0 .. Len(p) :
              /\ Sums(OtherOrder(p))[k] = 0 <=> Sums(p)[k] = 0
              /\ \E q \in Int : ByteMod * Sums(p)[k] - Sums(OtherOrder(p))[k] = q * (Half - 1)
<1> DEFINE o == OtherOrder(p)
           Same(k) == /\ Sums(o)[k] = 0 <=> Sums(p)[k] = 0
                      /\ \E q \in Int : ByteMod * Sums(p)[k] - Sums(o)[k] = q * (Half - 1)
           Bad == {k \in 0 .. Len(p) : ~Same(k)}
<1>1. /\ ByteMod \in Nat /\ Half \in Nat /\ Len(p) \in Nat
      /\ Len(p) \in HcsPos .. MaxLen
      /\ \A k \in 1 .. Len(p) : p[k] \in Word
  BY ChecksumAssumption, Widths, PacketFacts
<1>2. /\ o \in [1 .. Len(p) -> Word]
      /\ \A k \in 1 .. Len(p) : o[k] = Swapped(p[k])
  BY <1>1, SwappedWord DEF OtherOrder
<1> HIDE DEF o
<1>3. o \in Packets
  BY <1>1, <1>2 DEF Packets
<1>4. Len(o) = Len(p)
  BY <1>1, <1>2
<1>5. \A k \in 0 .. Len(p) : Sums(p)[k] \in Nat /\ Sums(o)[k] \in Nat
  BY <1>3, <1>4, SumsType
<1>6. /\ Sums(p)[0] = 0 /\ Sums(o)[0] = 0
      /\ \A k \in 1 .. Len(p) : /\ Sums(p)[k] = Sums(p)[k - 1] + p[k]
                                /\ Sums(o)[k] = Sums(o)[k - 1] + o[k]
  BY <1>3, <1>4, SumsDef
<1>7. Bad = {}
  <2>1. SUFFICES ASSUME Bad # {} PROVE FALSE
    OBVIOUS
  <2>2. Bad \in SUBSET Nat
    BY <1>1
  <2>3. PICK n \in Bad : \A k \in Bad : n <= k
    <3> HIDE DEF Bad
    <3> QED
      BY <2>1, <2>2, LeastNumber
  <2>4. n \in 0 .. Len(p) /\ n \in Nat /\ ~Same(n)
    BY <1>1
  <2>5. n # 0
    <3>1. ByteMod * 0 - 0 = 0 * (Half - 1)
      BY <1>1
    <3>2. Same(0)
      BY <1>6, <3>1
    <3> HIDE DEF Same
    <3> QED
      BY <2>4, <3>2
  <2>6. n \in 1 .. Len(p) /\ n - 1 \in 0 .. Len(p) /\ ~(n <= n - 1)
    BY <1>1, <2>4, <2>5
  <2>7. Same(n - 1)
    <3> HIDE DEF Same
    <3> QED
      BY <2>3, <2>6
  <2> DEFINE x == p[n]
             y == o[n]
             s == Sums(p)[n - 1]
             t == Sums(o)[n - 1]
  <2>8. /\ Sums(p)[n] = s + x /\ Sums(o)[n] = t + y
        /\ s \in Nat /\ t \in Nat /\ x \in Word /\ y \in Word /\ y = Swapped(x)
    BY <1>1, <1>2, <1>5, <1>6, <2>6
  <2>9. PICK q \in Int : ByteMod * s - t = q * (Half - 1)
    BY <2>7
  <2>10. t = 0 <=> s = 0
    BY <2>7
  <2> HIDE DEF x, y, s, t
  <2>11. PICK r \in Int : ByteMod * x - y = r * (Half - 1)
    BY <2>8, SwappedWord
  <2>12. x \in Nat /\ y \in Nat /\ (y = 0 <=> x = 0)
    BY <2>8, SwappedWord, Words
  <2>13. ByteMod * (s + x) - (t + y) = (q + r) * (Half - 1) /\ q + r \in Int
    <3>1. ByteMod * (s + x) = ByteMod * s + ByteMod * x
      BY <1>1, <2>8, <2>12
    <3>2. (q + r) * (Half - 1) = q * (Half - 1) + r * (Half - 1)
      BY <1>1
    <3>3. ByteMod * s \in Int /\ ByteMod * x \in Int
      BY <1>1, <2>8, <2>12
    <3> QED
      BY <2>8, <2>9, <2>11, <2>12, <3>1, <3>2, <3>3
  <2>14. t + y = 0 <=> s + x = 0
    BY <2>8, <2>10, <2>12
  <2>15. \E m \in Int : ByteMod * (s + x) - (t + y) = m * (Half - 1)
    BY <2>13
  <2>16. Same(n)
    BY <2>8, <2>14, <2>15
  <2> QED
    BY <2>4, <2>16
<1>8. \A k \in 0 .. Len(p) : Same(k)
  <2> HIDE DEF Same
  <2> QED
    BY <1>7
<1> QED
  BY <1>3, <1>4, <1>8 DEF o

\* The order of the bytes does not matter to a check: what adds up in the order
\* of the processor that wrote the checksum adds up in the other, for packets of
\* any length and bytes of any width.  The code relies on it: it neither swaps
\* the words it adds nor the sum (ip_util.h:22-75).
THEOREM EitherByteOrder ==
  ASSUME NEW p \in Packets, Complement(Total(p)) = 0
  PROVE  Complement(Total(OtherOrder(p))) = 0
<1> DEFINE t == Total(p)
           u == Total(OtherOrder(p))
<1>1. Len(p) \in 0 .. Len(p)
  BY PacketFacts
<1>2. t \in Nat /\ u \in Nat /\ ByteMod \in Nat /\ Half \in Nat
  BY <1>1, OtherOrderSums, SumsType, ChecksumAssumption, Widths DEF Total
<1>3. u = 0 <=> t = 0
  BY <1>1, OtherOrderSums DEF Total
<1>4. PICK q \in Int : ByteMod * t - u = q * (Half - 1)
  BY <1>1, OtherOrderSums DEF Total
<1>5. t # 0 /\ \E r \in Int : t = r * (Half - 1)
  BY <1>2, PassingSum
<1>6. PICK r \in Int : t = r * (Half - 1)
  BY <1>5
<1> HIDE DEF t, u
<1>7. u = (ByteMod * r - q) * (Half - 1) /\ ByteMod * r - q \in Int
  <2>1. ByteMod * (r * (Half - 1)) = (ByteMod * r) * (Half - 1) /\ ByteMod * r \in Int
    BY <1>2
  <2>2. (ByteMod * r - q) * (Half - 1) = (ByteMod * r) * (Half - 1) - q * (Half - 1)
    BY <1>2, <2>1
  <2>3. (ByteMod * r) * (Half - 1) \in Int /\ q * (Half - 1) \in Int
    BY <1>2, <2>1
  <2> QED
    BY <1>2, <1>4, <1>6, <2>1, <2>2, <2>3
<1>8. Complement(u) = 0
  BY <1>2, <1>3, <1>5, <1>7, SumPasses
<1> QED
  BY <1>8 DEF u

-------------------------------------------------------------------------------
(* What a packet adds up to while it is checked, changed and completed *)

\* The loops have added the words they have passed.
Running == Adds => total = Sums(packet)[at - 1]

\* The old checksum is out of the sum that replaces it.
Cleared == phase = "fill" => packet[HcsPos] = 0

\* The sender's packet was right, and differs in one word at most.
OneWordOff ==
  /\ Complement(Total(sent)) = 0
  /\ phase \in {"check", "edit"} =>
       \E k \in 1 .. Len(sent), w \in Word : packet = [sent EXCEPT ![k] = w]

\* What passed the check adds up.
Verified == phase = "edit" /\ user \in Checks => Complement(Total(packet)) = 0

\* The packet that leaves adds up where it was made.
AddsUp == phase = "done" => Complement(Total(packet)) = 0

PacketInv == Running /\ Cleared /\ OneWordOff /\ Verified /\ AddsUp

LEMMA PacketInit ==
  ASSUME ChecksumInit
  PROVE  PacketInv
<1>1. /\ sent \in Packets /\ Complement(Total(sent)) = 0 /\ at = 1 /\ total = 0
      /\ phase = IF user \in Checks THEN "check" ELSE "edit"
  BY DEF ChecksumInit
<1>2. OneWordOff
  BY <1>1 DEF ChecksumInit, OneWordOff
<1>3. packet \in Packets
  BY SumInit DEF SumInv, ChecksumTypeOK
<1>4. Sums(packet)[0] = 0
  BY <1>3, SumsDef
<1>5. Running
  BY <1>1, <1>4 DEF Running
<1> QED
  BY <1>1, <1>2, <1>5 DEF PacketInv, Cleared, Verified, AddsUp

\* A finished loop holds the one's complement of the sum of the whole packet.
LEMMA WholeSum ==
  ASSUME SumInv, Running, Summed
  PROVE  Hcs = Complement(Total(packet)) /\ Total(packet) \in Nat
<1>1. /\ packet \in Packets /\ at - 1 = Len(packet) /\ Len(packet) \in Nat
  <2>1. packet \in Packets /\ at \in 1 .. MaxLen + 1 /\ MaxLen \in Nat
    BY ChecksumAssumption DEF SumInv, ChecksumTypeOK
  <2>2. Len(packet) \in Nat
    BY <2>1, PacketFacts
  <2> QED
    BY <2>1, <2>2 DEF Summed, Left
<1>2. total = Total(packet)
  BY <1>1 DEF Running, Summed, Total
<1>3. acc \in 0 .. Half - 1 /\ total \in Nat /\ Represents(acc, total)
  BY Widths DEF SumInv, ChecksumTypeOK, Loop, Summed
<1>4. acc = OnesSum(total)
  BY <1>3, Unique
<1> QED
  BY <1>2, <1>3, <1>4 DEF Hcs, Complement

LEMMA PacketNext ==
  ASSUME SumInv, PacketInv, [ChecksumNext]_sumVars
  PROVE  PacketInv'
<1>1. /\ packet \in Packets /\ sent \in Packets
      /\ at \in Nat /\ at >= 1 /\ at <= Len(packet) + 1 /\ Len(packet) \in Nat
      /\ total \in Nat /\ HcsPos \in 1 .. Len(packet)
      /\ \A k \in 1 .. Len(packet) : packet[k] \in Nat
      /\ \A k \in 1 .. Len(packet) : Sums(packet)[k] = Sums(packet)[k - 1] + packet[k]
  <2>1. /\ packet \in Packets /\ sent \in Packets /\ total \in Nat
        /\ at \in 1 .. MaxLen + 1 /\ at <= Len(packet) + 1 /\ MaxLen \in Nat
    BY ChecksumAssumption DEF SumInv, ChecksumTypeOK
  <2>2. /\ Len(packet) \in HcsPos .. MaxLen /\ Len(packet) \in Nat
        /\ \A k \in 1 .. Len(packet) : packet[k] \in Nat
    BY <2>1, PacketFacts, Widths DEF Word
  <2>3. HcsPos \in 1 .. Len(packet)
    BY <2>2, ChecksumAssumption
  <2> QED
    BY <2>1, <2>2, <2>3, SumsDef
<1>2. Running /\ Cleared /\ OneWordOff /\ Verified /\ AddsUp
  BY DEF PacketInv
<1> DEFINE Quiet == UNCHANGED <<user, sent, packet, phase>>
<1>3. ASSUME Quiet, Running' PROVE PacketInv'
  BY <1>2, <1>3 DEF PacketInv, Cleared, OneWordOff, Verified, AddsUp
<1>4. CASE Add32
  <2>1. /\ Adds /\ at \in 1 .. Len(packet) /\ at + 1 \in 1 .. Len(packet)
        /\ total' = total + packet[at] + packet[at + 1] /\ at' = at + 2 /\ Quiet
    BY <1>1, <1>4 DEF Add32, Left
  <2>2. total = Sums(packet)[at - 1]
    BY <1>2, <2>1 DEF Running
  <2>3. /\ Sums(packet)[at] = total + packet[at]
        /\ Sums(packet)[at + 1] = Sums(packet)[at] + packet[at + 1]
    <3>1. (at + 1) - 1 = at
      BY <1>1
    <3> QED
      BY <1>1, <2>1, <2>2, <3>1
  <2>4. total' = Sums(packet)[at'  - 1]
    <3>1. at' - 1 = at + 1
      BY <1>1, <2>1
    <3> QED
      BY <2>1, <2>3, <3>1
  <2>5. Running'
    BY <2>1, <2>4 DEF Running
  <2> QED
    BY <1>3, <2>1, <2>5
<1>5. CASE AddRest \/ Add16
  <2>1. /\ Adds /\ at \in 1 .. Len(packet)
        /\ total' = total + packet[at] /\ at' = at + 1 /\ Quiet
    BY <1>1, <1>5 DEF AddRest, Add16, Left
  <2>2. total' = Sums(packet)[at' - 1]
    <3>1. at' - 1 = at
      BY <1>1, <2>1
    <3> QED
      BY <1>1, <1>2, <2>1, <3>1 DEF Running
  <2>3. Running'
    BY <2>1, <2>2 DEF Running
  <2> QED
    BY <1>3, <2>1, <2>3
<1>6. CASE FoldMore \/ UNCHANGED sumVars
  <2>1. Quiet /\ total' = total /\ at' = at
    BY <1>6 DEF FoldMore, sumVars
  <2>2. Running'
    BY <1>2, <2>1 DEF Running, Adds
  <2> QED
    BY <1>3, <2>1, <2>2
<1>7. CASE HasOptions
  BY <1>2, <1>7 DEF HasOptions, PacketInv, Running, Cleared, OneWordOff, Verified,
                    AddsUp, Adds
<1>8. CASE Checked
  <2>1. /\ phase = "check" /\ Summed /\ UNCHANGED <<user, sent, packet>>
        /\ phase' = IF Accepts(Hcs) THEN "edit" ELSE "dropped"
    BY <1>8 DEF Checked
  <2>2. phase' = "edit" => Complement(Total(packet)) = 0
    BY <1>2, <2>1, WholeSum DEF Accepts
  <2> QED
    BY <1>2, <2>1, <2>2 DEF PacketInv, Running, Cleared, OneWordOff, Verified,
                            AddsUp, Adds
<1>9. CASE Edit
  <2>1. PICK w \in Word : packet' = Edited(packet, w)
    BY <1>9 DEF Edit
  <2>2. phase' = "fill" /\ at' = 1 /\ total' = 0 /\ UNCHANGED <<user, sent>>
    BY <1>9 DEF Edit
  <2>3. packet' \in Packets
    BY SumNext DEF SumInv, ChecksumTypeOK
  <2>4. Sums(packet')[0] = 0
    BY <2>3, SumsDef
  <2>5. Running'
    BY <2>2, <2>4 DEF Running
  <2>6. packet'[HcsPos] = 0
    <3>1. HcsPos \in DOMAIN packet
      <4>1. DOMAIN packet = 1 .. Len(packet)
        BY <1>1, PacketFacts
      <4> QED
        BY <1>1, <4>1
    <3> QED
      BY <2>1, <3>1 DEF Edited
  <2> QED
    BY <1>2, <2>2, <2>5, <2>6 DEF PacketInv, Cleared, OneWordOff, Verified, AddsUp
<1>10. CASE Fill16
  <2>1. /\ phase = "fill" /\ Summed /\ packet' = [packet EXCEPT ![HcsPos] = Hcs]
        /\ phase' = "done" /\ UNCHANGED <<user, sent>>
    BY <1>10 DEF Fill16
  <2> DEFINE t == Total(packet)
  <2>2. Hcs = Complement(t) /\ t \in Nat
    BY <1>2, <2>1, WholeSum
  <2>3. Hcs \in Word /\ packet[HcsPos] = 0
    BY <1>2, <2>1, Widths DEF Cleared, Summed, Hcs, Word, SumInv, ChecksumTypeOK
  <2>4. Total(packet') = t - 0 + Hcs
    BY <1>1, <2>1, <2>3, SumsExcept
  <2>5. Hcs \in Nat
    BY <2>3, Widths DEF Word
  <2> HIDE DEF t
  <2>6. Total(packet') = t + Complement(t)
    BY <2>2, <2>4, <2>5
  <2>7. Complement(Total(packet')) = 0
    BY <2>2, <2>6, ComplementVerifies
  <2> QED
    BY <1>2, <2>1, <2>7 DEF PacketInv, Running, Cleared, OneWordOff, Verified,
                            AddsUp, Adds
<1> QED
  BY <1>4, <1>5, <1>6, <1>7, <1>8, <1>9, <1>10 DEF ChecksumNext

THEOREM PacketInvariance == ChecksumSpec => []PacketInv
<1>1. ChecksumInit => PacketInv
  BY PacketInit
<1>2. SumInv /\ PacketInv /\ [ChecksumNext]_sumVars => PacketInv'
  BY PacketNext
<1> QED
  BY <1>1, <1>2, SumInvariance, PTL DEF ChecksumSpec

\* Every packet that leaves with a new checksum passes the check of the host
\* that gets it, whoever changed it and whatever it was before: also a packet
\* that came in damaged and was not checked (hdr_icmp_echo_req.cpp:65-82,
\* gw_uart.cpp:111-165, gateway.c:341-437).
THEOREM RepairedPasses == ChecksumSpec => []Repaired
<1>1. SumInv /\ PacketInv => Repaired
  BY EitherByteOrder DEF SumInv, ChecksumTypeOK, PacketInv, AddsUp, Repaired
<1> QED
  BY <1>1, SumInvariance, PacketInvariance, PTL

\* A packet that was checked is the one that was sent, but for a word of zeros
\* that became one of ones or the other way round: for words of any width no
\* other damage to a word is hidden by the end-around carry
\* (hdr_icmp_echo_req.cpp:39, gw_eth.cpp:161).
THEOREM DamageIsDropped == ChecksumSpec => []DamageDropped
<1>1. SumInv /\ PacketInv => DamageDropped
  <2> SUFFICES ASSUME SumInv, PacketInv, phase = "edit", user \in Checks,
                      NEW j \in 1 .. Len(packet), packet[j] # sent[j]
               PROVE  {packet[j], sent[j]} = {0, Half - 1}
    BY DEF DamageDropped
  <2>1. sent \in Packets /\ packet \in Packets
    BY DEF SumInv, ChecksumTypeOK
  <2>2. Complement(Total(sent)) = 0 /\ Complement(Total(packet)) = 0
    BY DEF PacketInv, OneWordOff, Verified
  <2>3. PICK k \in 1 .. Len(sent), w \in Word : packet = [sent EXCEPT ![k] = w]
    BY DEF PacketInv, OneWordOff
  <2>4. DOMAIN sent = 1 .. Len(sent) /\ Len(packet) = Len(sent)
    BY <2>1, <2>3, PacketFacts
  <2>5. j = k /\ packet[j] = w
    BY <2>3, <2>4
  <2>6. Total(packet) = Total(sent) - sent[k] + w
    BY <2>1, <2>3, SumsExcept
  <2>7. Total(sent) \in Nat /\ Total(packet) \in Nat
    <3>1. \A p \in Packets : Len(p) \in 0 .. Len(p)
      BY PacketFacts
    <3> QED
      BY <2>1, <3>1, SumsType DEF Total
  <2> DEFINE n == Half - 1
  <2>8. n \in Nat /\ n > 0 /\ w \in 0 .. n /\ sent[k] \in 0 .. n
    BY <2>1, Widths, PacketFacts DEF Word
  <2>9. /\ \E q \in Int : Total(sent) = q * n
        /\ \E q \in Int : Total(packet) = q * n
    BY <2>2, <2>7, PassingSum
  <2> HIDE DEF n
  <2>10. PICK q \in Int : Total(sent) = q * n
    BY <2>9
  <2>11. PICK r \in Int : Total(packet) = r * n
    BY <2>9
  <2> DEFINE e == r - q
             x == sent[k]
  <2>12. w - x = e * n /\ e \in Int /\ x \in 0 .. n
    BY <2>6, <2>7, <2>8, <2>10, <2>11
  <2>13. w # x
    BY <2>5
  <2> HIDE DEF e, x
  <2>14. w - x <= n /\ w - x >= -n /\ e # 0
    BY <2>8, <2>12, <2>13
  <2>15. e >= 2 => e * n >= 2 * n
    BY <2>8, <2>12
  <2>16. e <= -2 => e * n <= -(2 * n)
    BY <2>8, <2>12
  <2>17. e = 1 \/ e = -1
    BY <2>8, <2>12, <2>14, <2>15, <2>16
  <2>18. (w = n /\ x = 0) \/ (w = 0 /\ x = n)
    BY <2>8, <2>12, <2>17
  <2> QED
    BY <2>5, <2>18 DEF n, x
<1> QED
  BY <1>1, SumInvariance, PacketInvariance, PTL

\* What either routine returns is a function of the packet alone: the words that
\* were added are those that stand in it, whoever asked for the sum and in
\* however many pieces the loops read it (ip_util.h:22-63, 78-129).
ReturnsSumOfPacket == Summed => Hcs = Complement(Total(packet))

THEOREM SumIsOfThePacket == ChecksumSpec => []ReturnsSumOfPacket
<1>1. SumInv /\ PacketInv => ReturnsSumOfPacket
  BY WholeSum DEF PacketInv, ReturnsSumOfPacket
<1> QED
  BY <1>1, SumInvariance, PacketInvariance, PTL

\* The loop `while (hcs > 0xFFFF)' comes to an end: a turn makes the accumulator
\* smaller, and what is left after one fits into a word after another, so that
\* it is never turned a third time (ip_util.h:58-60, 124-126).
FoldsAtMostTwice ==
  [][FoldMore => acc' < acc /\ (acc' < Half \/ Fold(acc') < Half)]_sumVars

LEMMA FoldShrinks ==
  ASSUME NEW h \in 0 .. Full - 1, h >= Half
  PROVE  Fold(h) < h /\ (Fold(h) < Half \/ Fold(Fold(h)) < Half)
<1>1. /\ Half \in Nat /\ Half >= 2 /\ h \in Nat
      /\ Fold(h) \in 0 .. 2 * Half - 2
  BY Widths, FoldKeeps
<1> DEFINE lo == h % Half
           hi == h \div Half
<1>2. lo \in 0 .. Half - 1 /\ hi \in Nat /\ h = Half * hi + lo /\ Fold(h) = lo + hi
  BY <1>1, DivMod DEF Fold
<1> HIDE DEF lo, hi
<1>3. Fold(h) < h
  <2>1. hi >= 1
    BY <1>1, <1>2
  <2>2. Half * hi >= 2 * hi
    BY <1>1, <1>2
  <2> QED
    BY <1>1, <1>2, <2>1, <2>2
<1>4. ASSUME Fold(h) >= Half PROVE Fold(Fold(h)) < Half
  <2> DEFINE g == Fold(h)
  <2>1. g \in Nat /\ g >= Half /\ g <= 2 * Half - 2
    BY <1>1, <1>4
  <2> HIDE DEF g
  <2>2. g % Half = g - Half
    <3>1. g - Half \in 0 .. Half - 1 /\ g = Half * 1 + (g - Half) /\ Half > 0 /\ 1 \in Int
      BY <1>1, <2>1
    <3> QED
      BY <1>1, <2>1, <3>1, Remainder
  <2>3. g \div Half = 1
    BY <1>1, <2>1
  <2>4. Fold(g) < Half
    BY <1>1, <2>1, <2>2, <2>3 DEF Fold
  <2> QED
    BY <2>4 DEF g
<1> QED
  BY <1>1, <1>3, <1>4

THEOREM FoldingEnds == ChecksumSpec => FoldsAtMostTwice
<1>1. SumInv /\ FoldMore => acc' < acc /\ (acc' < Half \/ Fold(acc') < Half)
  BY FoldShrinks DEF SumInv, ChecksumTypeOK, FoldMore
<1>2. SumInv /\ [ChecksumNext]_sumVars
        => [FoldMore => acc' < acc /\ (acc' < Half \/ Fold(acc') < Half)]_sumVars
  BY <1>1
<1> QED
  BY <1>2, SumInvariance, PTL DEF ChecksumSpec, FoldsAtMostTwice
===============================================================================
