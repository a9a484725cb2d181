------------------------------- MODULE MCIpUtil -------------------------------
(***************************************************************************)
(* The arithmetic of ip_util for TLC: an instance either ages a time stamp *)
(* or sums a packet.                                                       *)
(***************************************************************************)
EXTENDS TimeoutClock, Checksum

VARIABLE what

utilVars == <<vars, sumVars, what>>

UtilInit ==
  \/ what = "age" /\ Init
     /\ user = "uplink" /\ sent = [k \in 1 .. HcsPos |-> 0] /\ packet = sent
     /\ odd = FALSE /\ phase = "dropped" /\ at = 1 /\ acc = 0 /\ total = 0
  \/ what = "sum" /\ ChecksumInit
     /\ start = 0 /\ current = 0 /\ real = 0

UtilNext ==
  \/ what = "age" /\ Next /\ UNCHANGED <<sumVars, what>>
  \/ what = "sum" /\ ChecksumNext /\ UNCHANGED <<vars, what>>

UtilSpec == UtilInit /\ [][UtilNext]_utilVars
===============================================================================
