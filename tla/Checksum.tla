------------------------------- MODULE Checksum -------------------------------
(***************************************************************************)
(* The Internet checksums of ip_util: ip_checksum1 (check_ics on the       *)
(* nRF9160) adds words of 32 bits with an end-around carry, ip_checksum2   *)
(* adds words of 16 bits and folds when the top bit is set.  Their users   *)
(* check a part of a packet, change it and write a new checksum: the echo  *)
(* responder, the rewriting of addresses and ports on both boards.         *)
(*                                                                         *)
(* Widths are scaled: a word of 16 bits has Half values, a byte ByteMod,   *)
(* an accumulator Half * Half.  A packet is a sequence of 16-bit words,    *)
(* the last of which may be a single byte.                                 *)
(*                                                                         *)
(* `total', the exact sum, and `sent' are observations.                    *)
(***************************************************************************)
EXTENDS Integers, Sequences

CONSTANTS
  Half,           \* number of values of 16 bits
  ByteMod,        \* number of values of a byte
  HcsPos,         \* which word of the packet is the checksum
  MaxLen          \* bound on the length of a packet, in words

ASSUME ChecksumAssumption ==
  /\ ByteMod \in Nat /\ ByteMod >= 2
  /\ Half = ByteMod * ByteMod
  /\ HcsPos \in Nat /\ HcsPos >= 2
  /\ MaxLen \in Nat

Full == Half * Half         \* number of values of 32 bits
TopBit == Full \div 2
Word == 0 .. Half - 1

Packets == UNION {[1 .. n -> Word] : n \in HcsPos .. MaxLen}

VARIABLES
  user,           \* who works on the packet
  sent,           \* the packet its sender made
  packet,         \* the packet as it is now
  odd,            \* whether its last word is a single byte
  phase,
  at,             \* the word that is added next
  acc,            \* hcs or sum
  total

sumVars == <<user, sent, packet, odd, phase, at, acc, total>>

\* Who checks the part that he changes.  Nobody checks what TCP, UDP or ICMP
\* carry, nor the headers on the way up, before the checksum is replaced.
Checks == {"echo", "downlink"}
Users == Checks \cup {"uplink", "payload"}

\* The one's complement sum that the checksum is to be, of an exact sum.
OnesSum(t) == IF t = 0 THEN 0 ELSE 1 + ((t - 1) % (Half - 1))
Complement(t) == Half - 1 - OnesSum(t)

\* The sums of the first words of a packet, and of all of them.
Sums(p) == LET sum[k \in 0 .. Len(p)] == IF k = 0 THEN 0 ELSE sum[k - 1] + p[k]
           IN  sum
Total(p) == Sums(p)[Len(p)]

\* The words as a host reads them that has their bytes the other way round: the
\* code adds words as its processor loads them and stores the sum that way.
Swapped(x) == ByteMod * (x % ByteMod) + (x \div ByteMod)
OtherOrder(p) == [k \in 1 .. Len(p) |-> Swapped(p[k])]

ChecksumInit ==
  /\ user \in Users
  /\ sent \in {p \in Packets : Complement(Total(p)) = 0}
  /\ odd \in BOOLEAN
  /\ odd => Len(sent) > HcsPos /\ sent[Len(sent)] < ByteMod
  \* one word may be damaged on the way
  /\ \E k \in 1 .. Len(sent), w \in Word :
       /\ odd /\ k = Len(sent) => w < ByteMod
       /\ packet = [sent EXCEPT ![k] = w]
  /\ phase = IF user \in Checks THEN "check" ELSE "edit"
  /\ at = 1 /\ acc = 0 /\ total = 0

-------------------------------------------------------------------------------
(* The two loops *)

\* Faulty: the carry is lost.
EndAround_NoCarry(h, s) == (h + s) % Full

\* ip_checksum1: hcs += s; if (hcs < s) hcs++
EndAround(h, s) ==
  LET sum == (h + s) % Full
  IN  IF sum < s THEN (sum + 1) % Full ELSE sum

Fold(h) == (h % Half) + (h \div Half)

\* ip_checksum2: sum += s; fold if the top bit is set
Folding(h, s) ==
  LET sum == (h + s) % Full
  IN  IF sum >= TopBit THEN Fold(sum) ELSE sum

Adds == phase \in {"check", "fill"}
InWords32 == user # "payload"
Left == Len(packet) + 1 - at
IsByte(k) == odd /\ k = Len(packet)

\* Four bytes at once, as long as there are so many.
Add32 ==
  /\ Adds /\ InWords32
  /\ Left >= 2 /\ ~IsByte(at + 1)
  /\ acc' = EndAround(acc, packet[at] + Half * packet[at + 1])
  /\ total' = total + packet[at] + packet[at + 1]
  /\ at' = at + 2
  /\ UNCHANGED <<user, sent, packet, odd, phase>>

\* The two bytes or the byte that are left, with the same carry.
AddRest ==
  /\ Adds /\ InWords32
  /\ Left = 1 \/ (Left = 2 /\ IsByte(at + 1))
  /\ acc' = EndAround(acc, packet[at])
  /\ total' = total + packet[at]
  /\ at' = at + 1
  /\ UNCHANGED <<user, sent, packet, odd, phase>>

\* The last byte is added without a look at the top bit.
Add16 ==
  /\ Adds /\ ~InWords32
  /\ Left >= 1
  /\ acc' = IF IsByte(at) THEN (acc + packet[at]) % Full ELSE Folding(acc, packet[at])
  /\ total' = total + packet[at]
  /\ at' = at + 1
  /\ UNCHANGED <<user, sent, packet, odd, phase>>

FoldMore ==
  /\ Adds /\ Left = 0 /\ acc >= Half
  /\ acc' = Fold(acc)
  /\ UNCHANGED <<user, sent, packet, odd, phase, at, total>>

Summed == Adds /\ Left = 0 /\ acc < Half

\* ~hcs
Hcs == Half - 1 - acc

-------------------------------------------------------------------------------
(* The users *)

\* A request with options in its header is not answered.
HasOptions ==
  /\ user = "echo" /\ phase = "check" /\ at = 1
  /\ phase' = "dropped"
  /\ UNCHANGED <<user, sent, packet, odd, at, acc, total>>

\* Faulty: what is wrong is answered too.
Accepts_Any(hcs) == TRUE

Accepts(hcs) == hcs = 0

Checked ==
  /\ phase = "check" /\ Summed
  /\ phase' = IF Accepts(Hcs) THEN "edit" ELSE "dropped"
  /\ UNCHANGED <<user, sent, packet, odd, at, acc, total>>

\* Faulty: the old checksum is added in.
Edited_OldSum(p, w) == [p EXCEPT ![1] = w]

\* An address, a port or the type is written over and the checksum is cleared.
Edited(p, w) == [p EXCEPT ![1] = w, ![HcsPos] = 0]

\* The echo responder makes type 8 a 0 and keeps the code.
Edit ==
  /\ phase = "edit"
  /\ \E w \in Word :
       /\ user = "echo" => w = ByteMod * (packet[1] \div ByteMod)
       /\ packet' = Edited(packet, w)
  /\ phase' = "fill"
  /\ at' = 1 /\ acc' = 0 /\ total' = 0
  /\ UNCHANGED <<user, sent, odd>>

Fill16 ==
  /\ phase = "fill" /\ Summed
  /\ packet' = [packet EXCEPT ![HcsPos] = Hcs]
  /\ phase' = "done"
  /\ UNCHANGED <<user, sent, odd, at, acc, total>>

ChecksumNext == \/ Add32 \/ AddRest \/ Add16 \/ FoldMore
                \/ HasOptions \/ Checked \/ Edit \/ Fill16

ChecksumSpec == ChecksumInit /\ [][ChecksumNext]_sumVars

-------------------------------------------------------------------------------
(* Properties *)

ChecksumTypeOK ==
  /\ user \in Users
  /\ sent \in Packets /\ packet \in Packets
  /\ odd \in BOOLEAN
  /\ phase \in {"check", "edit", "fill", "done", "dropped"}
  /\ at \in 1 .. MaxLen + 1
  /\ acc \in 0 .. Full - 1
  /\ total \in Nat

\* Both loops end with the one's complement of the exact sum, however often
\* the accumulator has wrapped or was folded on the way (ip_util.h:22-63,
\* 78-129).
SumsExact == Summed => Hcs = Complement(total)

\* A packet that leaves passes the check of whoever gets it, in whichever order
\* he has the bytes of a word, although no byte is swapped for the sum
\* (ip_util.h:65-75).
Repaired == phase = "done" => /\ Complement(Total(packet)) = 0
                              /\ Complement(Total(OtherOrder(packet))) = 0

\* A part that is checked was not damaged on its way, except for what the
\* one's complement cannot see: that a word of zeros is one of ones
\* (hdr_icmp_echo_req.cpp:39, gw_eth.cpp:161).
DamageDropped ==
  phase = "edit" /\ user \in Checks =>
    \A k \in 1 .. Len(packet) :
      packet[k] # sent[k] => {packet[k], sent[k]} = {0, Half - 1}
===============================================================================
