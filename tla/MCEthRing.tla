------------------------------ MODULE MCEthRing ------------------------------
(***************************************************************************)
(* Frames for the runs of EthRing: two that the ring takes, at both ends   *)
(* of the accepted lengths, and others that the handler sorts out.         *)
(***************************************************************************)
EXTENDS EthRing

Plain == [length |-> 35, type |-> 2048, ttl |-> 64, mine |-> TRUE,
          version |-> 4, sum_ok |-> TRUE, protocol |-> Tcp, to_me |-> FALSE]

Long    == [Plain EXCEPT !.length = Mtu, !.protocol = Udp]
Echo    == [Plain EXCEPT !.protocol = Icmp]
OwnEcho == [Echo EXCEPT !.to_me = TRUE]
FullMtu == [Long EXCEPT !.length = Mtu + 14]

RingFrames == {Plain, Long, OwnEcho}
EdgeFrames == {Plain, Long, Echo, OwnEcho, FullMtu}
==============================================================================
