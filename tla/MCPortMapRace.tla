---------------------------- MODULE MCPortMapRace ----------------------------
(***************************************************************************)
(* PortMapRace for TLC: clients and ports are interchangeable.             *)
(***************************************************************************)
EXTENDS PortMapRace, TLC

CONSTANT s1        \* model value for the server

\* The clients use the same port towards the same server.
TrafficOfTwo == {[client |-> c, eport |-> 1, server |-> s1] : c \in Clients}

Interchangeable == Permutations(Clients) \cup Permutations(Ports)
=============================================================================
