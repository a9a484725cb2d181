----------------------------- MODULE TimeoutClock -----------------------------
(***************************************************************************)
(* One user of is_timeout: a time stamp is taken with millis(), the        *)
(* counter runs on and wraps, and the stamp is compared with later         *)
(* readings.  `real' is the time that has really passed since the stamp,   *)
(* which the program cannot see; it is counted up to MaxReal.              *)
(***************************************************************************)
EXTENDS Timeout

CONSTANT MaxReal        \* bound on the real time since a stamp

ASSUME MaxRealAssumption == MaxReal \in Nat

VARIABLES start,        \* the stored time stamp
          current,      \* millis()
          real          \* true age of the stamp

vars == <<start, current, real>>

TypeOK == start \in Clock /\ current \in Clock /\ real \in 0 .. MaxReal

Init == start \in Clock /\ current = start /\ real = 0

\* ts = millis()
Stamp == start' = current /\ real' = 0 /\ UNCHANGED current

Tick == /\ real < MaxReal
        /\ current' = NextTick(current)
        /\ real' = real + 1
        /\ UNCHANGED start

Next == Stamp \/ Tick

Spec == Init /\ [][Next]_vars

-------------------------------------------------------------------------------
\* The age the program computes is the true age until the counter has gone
\* all the way round, also when it has wrapped between the two readings.
AgeExact == real < ClockMod => Elapsed(start, current) = real

\* Until the counter has gone all the way round, is_timeout answers whether
\* the stamp is really that old, for every timeout, wherever in the range of
\* the counter the stamp was taken.
ExactWithinOneTurn ==
  real < ClockMod =>
    \A t \in Clock : IsTimeout(t, start, current) <=> real >= t

\* Once a wait has expired it stays expired until a new stamp is taken, as
\* long as the counter has not gone all the way round.
ExpiryIsStable ==
  [][ real' > 0 /\ real' < ClockMod =>
        \A t \in Clock : IsTimeout(t, start, current)
                            => IsTimeout(t, start', current') ]_vars
===============================================================================
