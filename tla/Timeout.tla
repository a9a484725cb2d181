------------------------------- MODULE Timeout -------------------------------
(***************************************************************************)
(* The firmware's only notion of age: a free running millisecond counter   *)
(* of ClockMod values (2^32 in the code) and the function is_timeout that  *)
(* every table and every wait loop calls with an earlier reading of it.    *)
(* The same text stands in hdr_portmap.cpp, gw_uart.cpp and ip_util.h; the *)
(* nRF9160 firmware has it as time_diff.                                   *)
(***************************************************************************)
EXTENDS Integers

CONSTANT ClockMod       \* number of values of the counter

\* The counter has at least one value.
ASSUME ClockModAssumption == ClockMod \in Nat \ {0}

Clock == 0 .. ClockMod - 1

\* Faulty: the wrapping sum one short, as us_delay has it (nrf91_util.c:29).
Elapsed_OneShort(start, current) ==
  IF start <= current
  THEN current - start
  ELSE (ClockMod - 1) - start + current

\* The branch on the order of the two readings, and the wrapping sum
\* 0xFFFFFFFF - start + current + 1, as time_diff computes them.
Elapsed(start, current) ==
  IF start <= current
  THEN current - start
  ELSE (ClockMod - 1) - start + current + 1

IsTimeout(timeout, start, current) == Elapsed(start, current) >= timeout

\* millis() one unit later.
NextTick(t) == IF t = ClockMod - 1 THEN 0 ELSE t + 1
==============================================================================
