---------------------------- MODULE MCNatGateway ----------------------------
(***************************************************************************)
(* NatGateway for TLC: the traffic of two small networks.                  *)
(***************************************************************************)
EXTENDS NatGateway

\* Model values for the hosts.
CONSTANTS c1, c2, s1, s2

FlowsOf(protocol, pairs) ==
  {[protocol |-> protocol, client |-> p[1], eport |-> 1, server |-> p[2]] :
     p \in pairs}

\* One client talks to both servers from one TCP port, the other sends UDP to
\* one of them, and both ping it.
TrafficOfTwo ==
  FlowsOf(Tcp, {<<c1, s1>>, <<c1, s2>>}) \cup
  FlowsOf(Udp, {<<c2, s1>>}) \cup
  FlowsOf(Icmp, {<<c1, s1>>, <<c2, s1>>})

\* One client, one server, every protocol.
TrafficOfOne == UNION {FlowsOf(p, {<<c1, s1>>}) : p \in Protocols}
=============================================================================
