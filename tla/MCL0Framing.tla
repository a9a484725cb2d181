----------------------------- MODULE MCL0Framing -----------------------------
(***************************************************************************)
(* Packets for the runs of L0Framing.  Their lengths are control bytes or  *)
(* not, and control bytes stand at the end and next to each other.  Two    *)
(* hold another packet: the second without its length byte, the third      *)
(* behind its first STX.                                                   *)
(***************************************************************************)
EXTENDS L0Framing

Mixed == {<<69, 2>>, <<69, 4, ETX, DLE>>, <<69, 6, ETX, STX, DLE, STX>>}
===============================================================================
