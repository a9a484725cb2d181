----------------------------- MODULE PortMapping -----------------------------
(***************************************************************************)
(* What the port map of the ESP32 promises to the hosts and to the servers *)
(* behind it: a set of bindings, each of a host's flow to one port of the  *)
(* LTE side.  Nothing of rows, scans, time stamps or the sequence of the   *)
(* ports is left.                                                          *)
(*                                                                         *)
(* A binding is kept for Lease after its last packet.  After that it goes  *)
(* when the next packet is handled, whosever it is, but as long as no      *)
(* packet comes it may become young again: how old an expired binding is,  *)
(* nobody knows.                                                           *)
(***************************************************************************)
EXTENDS Naturals, FiniteSets

CONSTANTS Flows,        \* protocol, client, its port, server
          PortsOf,      \* protocol -> the ports that may be bound
          Units,        \* the LTE units
          Lease,        \* how long an unused binding is kept
          Size          \* how many bindings there may be

VARIABLE bindings

Icmp == 1
Tcp  == 6

Kept == {b \in bindings : b.age < Lease}

SameSource(b, f) == /\ b.protocol = f.protocol
                    /\ b.client = f.client /\ b.eport = f.eport

\* TCP connections are told apart by their server as well.
Serves(b, f) == SameSource(b, f) /\ (f.protocol = Tcp => b.server = f.server)

Unbound(f) == \A b \in Kept : ~Serves(b, f)

\* Ports that are bound already; ICMP identifiers are no ports of TCP or UDP.
Bound(protocol) ==
  {b.port : b \in {k \in Kept : (k.protocol = Icmp) <=> (protocol = Icmp)}}

Used(b) == [b EXCEPT !.age = 0]

\* A packet is handled: what has expired goes, some of the rest is changed.
Update(old, new) == bindings' = (Kept \ old) \cup new

Init == bindings = {}

\* A packet of a bound connection keeps the unit of the binding; a binding of
\* the same client and port may be taken to be used with it.
Continue(f) ==
  /\ f.protocol = Tcp
  /\ \E b, other \in Kept :
       /\ Serves(b, f) /\ SameSource(other, f)
       /\ Update({b, other}, {Used(b), Used(other)})

\* A packet of another protocol may go to another unit, or nowhere.
Repeat(f) ==
  /\ f.protocol # Tcp
  /\ \E b \in Kept : \E u \in Units \cup {b.unit} :
       /\ Serves(b, f)
       /\ Update({b}, {[Used(b) EXCEPT !.unit = u]})

\* The first packet of a flow is bound to a port that is free.
Bind(f) ==
  /\ Unbound(f)
  /\ Cardinality(Kept) < Size
  /\ \E p \in PortsOf[f.protocol] \ Bound(f.protocol), u \in Units :
       Update({}, {[protocol |-> f.protocol, client |-> f.client, eport |-> f.eport,
                    server |-> f.server, port |-> p, unit |-> u, age |-> 0]})

\* A packet comes back to a bound port.
Answer == \E b \in Kept : Update({b}, {Used(b)})

\* A packet is handled that uses no binding.
Collect == Update({}, {})

\* There is no room for a new flow: everything is forgotten.
Overflow(f) ==
  /\ Unbound(f)
  /\ Cardinality(Kept) = Size
  /\ bindings' = {}

Aged(b, back) ==
  IF b.age < Lease THEN [b EXCEPT !.age = @ + 1]
                   ELSE [b EXCEPT !.age = IF b \in back THEN 0 ELSE Lease]

\* Time passes.
Pass == \E back \in SUBSET (bindings \ Kept) :
          bindings' = {Aged(b, back) : b \in bindings}

Next == \/ Collect \/ Answer \/ Pass
        \/ \E f \in Flows : Continue(f) \/ Repeat(f) \/ Bind(f) \/ Overflow(f)

Spec == Init /\ [][Next]_bindings
==============================================================================
