--------------------------- MODULE NatGatewayProofs ---------------------------
(***************************************************************************)
(* Theorems about NatGateway for every table size, timeout, port range,    *)
(* clock range and set of hosts.                                           *)
(***************************************************************************)
EXTENDS NatGateway, FiniteSetTheorems, WellFoundedInduction, TLAPS

-------------------------------------------------------------------------------
(* Constants and the clock *)

LEMMA SpanPositive == PortSpan \in Nat \ {0}
<1>1. PortsPerRow * MaxRows \in Nat
  BY GatewayAssumption
<1>2. QED
  BY <1>1 DEF PortSpan

LEMMA ProbeInRange ==
  ASSUME port_seq \in Nat, NEW k \in Nat
  PROVE  Probe(k) \in 0 .. PortSpan - 1
<1>1. port_seq + k \in Nat
  OBVIOUS
<1>2. QED
  BY <1>1, SpanPositive DEF Probe

LEMMA PortInRange ==
  ASSUME NEW p \in Protocols, NEW n \in 0 .. PortSpan - 1
  PROVE  Base(p) + n \in LtePorts
  BY SpanPositive, GatewayAssumption DEF Base, LtePorts, Icmp

LEMMA ZeroIsPort == 0 \in LtePorts
  BY SpanPositive DEF LtePorts

LEMMA ElapsedTick ==
  ASSUME NEW s \in Clock, NEW c \in Clock
  PROVE  /\ NextTick(c) \in Clock
         /\ Elapsed(s, c) \in Clock
         /\ Elapsed(s, c) \in Nat
         /\ Elapsed(c, c) = 0
         /\ Elapsed(s, c) + 1 < ClockMod
              => Elapsed(s, NextTick(c)) = Elapsed(s, c) + 1
  BY ClockModAssumption DEF Clock, NextTick, Elapsed

-------------------------------------------------------------------------------
(* The operations on the table *)

LEMMA ClearedIsRow ==
  ASSUME NEW row \in Row
  PROVE  Cleared(row) \in Row /\ ~Live(Cleared(row))
  BY ZeroIsPort DEF Cleared, Row, Live

LEMMA BlankIsRow == Blank \in Row /\ ~Live(Blank)
  BY ZeroIsPort, ClockModAssumption DEF Blank, Row, Clock, Live

\* A collection of expired rows keeps the table well formed, and a row that
\* is live after it is the row that was there before.
LEMMA GcKeeps ==
  ASSUME NEW table \in [Rows -> Row]
  PROVE  /\ Gc(table) \in [Rows -> Row]
         /\ \A i \in Rows : Live(Gc(table)[i]) =>
               Gc(table)[i] = table[i] /\ ~Expired(table[i])
         /\ \A i \in Rows : ~Expired(table[i]) => Gc(table)[i] = table[i]
  BY ClearedIsRow DEF Gc

LEMMA TouchKeeps ==
  ASSUME NEW table \in [Rows -> Row], NEW i \in Rows, now \in Clock
  PROVE  /\ Touch(table, i) \in [Rows -> Row]
         /\ \A j \in Rows : Touch(table, i)[j] =
                              IF j = i THEN [table[j] EXCEPT !.ts = now]
                                       ELSE table[j]
<1>1. Touch(table, i) = [table EXCEPT ![i] = [table[i] EXCEPT !.ts = now]]
  BY DEF Touch
<1>2. [table[i] EXCEPT !.ts = now] \in Row
  BY DEF Row
<1>3. QED
  BY <1>1, <1>2

-------------------------------------------------------------------------------
(* What the actions do to the table.  All but Open and Panic leave a table  *)
(* that is Refreshed: rows may be cleared and time stamps renewed, the rest *)
(* of a row that stays live is kept.                                        *)

Refreshed(new) ==
  /\ new \in [Rows -> Row]
  /\ \A i \in Rows :
       /\ Live(new[i]) => /\ Live(pmap[i])
                          /\ Identity(new[i]) = Identity(pmap[i])
                          /\ new[i].ts \in {pmap[i].ts, now}
       /\ Live(pmap[i]) /\ ~Expired(pmap[i]) =>
            /\ Live(new[i])
            /\ pmap[i].ip_protocol = Tcp => new[i].uart = pmap[i].uart

LEMMA GcRefreshes ==
  ASSUME TypeOK PROVE Refreshed(Gc(pmap))
  BY GcKeeps DEF TypeOK, Refreshed

\* A renewed time stamp, and a new unit on a row that is not TCP, keep a
\* table refreshed.
LEMMA TouchRefreshes ==
  ASSUME TypeOK, NEW table, Refreshed(table), NEW i \in Rows
  PROVE  /\ Refreshed(Touch(table, i))
         /\ \A j \in Rows : /\ Identity(Touch(table, i)[j]) = Identity(table[j])
                            /\ Touch(table, i)[j].uart = table[j].uart
         /\ Touch(table, i)[i].ts = now
<1> DEFINE new == Touch(table, i)
<1>1. now \in Clock /\ table \in [Rows -> Row]
  BY DEF TypeOK, Refreshed
<1>2. /\ new \in [Rows -> Row]
      /\ \A j \in Rows : new[j] = IF j = i THEN [table[j] EXCEPT !.ts = now]
                                           ELSE table[j]
  BY <1>1, TouchKeeps
<1>3. \A j \in Rows : /\ Identity(new[j]) = Identity(table[j])
                      /\ new[j].uart = table[j].uart
                      /\ new[j].ip_protocol = table[j].ip_protocol
                      /\ new[j].ts \in {table[j].ts, now}
                      /\ j = i => new[j].ts = now
  BY <1>1, <1>2 DEF Row, Identity
<1>4. Refreshed(new)
  BY <1>2, <1>3 DEF Refreshed, Live
<1>5. QED
  BY <1>3, <1>4

LEMMA SwitchRefreshes ==
  ASSUME TypeOK, NEW table, Refreshed(table), NEW i \in Rows, NEW u \in Units,
         table[i].ip_protocol # Tcp, pmap[i].ip_protocol # Tcp
  PROVE  Refreshed([table EXCEPT ![i].uart = u])
<1> DEFINE new == [table EXCEPT ![i].uart = u]
<1>1. table \in [Rows -> Row]
  BY DEF Refreshed
<1>2. [table[i] EXCEPT !.uart = u] \in Row
  BY <1>1 DEF Row
<1>3. /\ new \in [Rows -> Row]
      /\ \A j \in Rows : new[j] = IF j = i THEN [table[j] EXCEPT !.uart = u]
                                           ELSE table[j]
  BY <1>1, <1>2
<1>4. \A j \in Rows : /\ Identity(new[j]) = Identity(table[j])
                      /\ j # i => new[j].uart = table[j].uart
                      /\ new[j].ip_protocol = table[j].ip_protocol
                      /\ new[j].ts = table[j].ts
  BY <1>1, <1>3 DEF Row, Identity
<1>5. QED
  BY <1>3, <1>4 DEF Refreshed, Live

-------------------------------------------------------------------------------
(* Units *)

LEMMA UnitFacts ==
  /\ Selected \in Units
  /\ \A u \in Units \cup {0} : CntrOf(u) \in 0 .. 2
  BY DEF Selected, Preferred, Rotate, Units, CntrOf

\* What is remembered of a packet that is sent is well formed.
LEMMA SendType ==
  ASSUME TypeOK,
         NEW kind \in {"kept", "reselected", "opened"}, NEW u \in Units \cup {0},
         NEW p \in Protocols, NEW c \in Clients, NEW e \in EthPorts,
         NEW s \in Servers, NEW l \in LtePorts, Send(kind, u, p, c, e, s, l)
  PROVE  due' \subseteq Request /\ out' \in Out
<1>1. 0 \in 0 .. PmapTimeout - 1
  BY GatewayAssumption
<1>2. [protocol |-> p, client |-> c, eport |-> e, server |-> s,
       lport |-> l, age |-> 0] \in Request
  BY <1>1 DEF Request
<1>3. QED
  BY <1>2 DEF Send, TypeOK, Out

-------------------------------------------------------------------------------
(* What each action does to the table *)

LEMMA KeepTcpEffect ==
  ASSUME TypeOK, NEW c \in Clients, NEW e \in EthPorts, NEW s \in Servers,
         KeepTcp(c, e, s)
  PROVE  /\ Refreshed(pmap')
         /\ cntr' \in 0 .. 2
         /\ \E i \in Rows : /\ Live(pmap'[i])
                            /\ Identity(pmap'[i]) =
                                 <<Tcp, c, e, s, pmap[i].lte_port>>
                            /\ pmap'[i].ts = now
                            /\ pmap[i].uart \in Units \cup {0}
                            /\ pmap[i].lte_port \in LtePorts
                            /\ Send("kept", pmap[i].uart, Tcp, c, e, s,
                                    pmap[i].lte_port)
<1> DEFINE table == Gc(pmap)
<1>1. PICK i \in Rows, j \in Rows :
        /\ i \in ForTcp(table, c, s, e)
        /\ pmap' = Touch(Touch(table, i), j)
        /\ cntr' = CntrOf(table[i].uart)
        /\ Send("kept", table[i].uart, Tcp, c, e, s, table[i].lte_port)
  BY DEF KeepTcp, IsFirst
<1>2. Live(table[i]) /\ Identity(table[i]) = <<Tcp, c, e, s, table[i].lte_port>>
  BY <1>1 DEF ForTcp, ByClient, Live, Identity, Tcp
<1>3. Refreshed(table) /\ table[i] = pmap[i] /\ table[i] \in Row
  BY <1>2, GcRefreshes, GcKeeps DEF TypeOK
<1>4. /\ Refreshed(Touch(table, i))
      /\ Identity(Touch(table, i)[i]) = Identity(table[i])
      /\ Touch(table, i)[i].ts = now
  BY <1>3, TouchRefreshes
<1>5. /\ Refreshed(pmap')
      /\ Identity(pmap'[i]) = Identity(table[i])
  BY <1>1, <1>4, TouchRefreshes
<1>6. pmap'[i].ts = now
  <2>1. Touch(table, i) \in [Rows -> Row] /\ now \in Clock
    BY <1>4 DEF Refreshed, TypeOK
  <2>2. pmap'[i] = IF i = j THEN [Touch(table, i)[i] EXCEPT !.ts = now]
                            ELSE Touch(table, i)[i]
    BY <1>1, <2>1, TouchKeeps
  <2>3. QED
    BY <1>4, <2>1, <2>2 DEF Row
<1>7. Live(pmap'[i])
  BY <1>2, <1>5 DEF Live, Identity
<1>8. table[i].uart \in Units \cup {0} /\ table[i].lte_port \in LtePorts
  BY <1>3 DEF Row
<1>9. QED
  BY <1>1, <1>2, <1>3, <1>5, <1>6, <1>7, <1>8, UnitFacts

LEMMA ReselectEffect ==
  ASSUME TypeOK, NEW p \in Protocols, NEW c \in Clients, NEW e \in EthPorts,
         NEW s \in Servers, Reselect(p, c, e, s)
  PROVE  /\ Refreshed(pmap')
         /\ p # Tcp
         /\ cntr' \in 0 .. 2
         /\ \/ \E i \in Rows :
                 /\ pmap'[i].ip_protocol = p
                 /\ pmap'[i].client_ip = c
                 /\ pmap'[i].eth_port = e
                 /\ pmap'[i].lte_port = pmap[i].lte_port
                 /\ pmap'[i].ts = now
                 /\ pmap[i].lte_port \in LtePorts
                 /\ Send("reselected", Selected, p, c, e, s, pmap[i].lte_port)
            \/ out' = [kind |-> "dropped", unit |-> 0] /\ due' = due
<1> DEFINE table == Gc(pmap)
<1>1. PICK i \in Rows :
        /\ p # Tcp
        /\ i \in ByClient(table, p, c, e)
        /\ \/ /\ pmap' = [Touch(table, i) EXCEPT ![i].uart = Selected]
              /\ cntr' = CntrOf(Selected)
              /\ Send("reselected", Selected, p, c, e, s, table[i].lte_port)
           \/ /\ pmap' = Touch(table, i)
              /\ out' = [kind |-> "dropped", unit |-> 0]
              /\ UNCHANGED <<cntr, due>>
  BY DEF Reselect, IsFirst
<1>2. /\ table[i].ip_protocol = p /\ table[i].client_ip = c
      /\ table[i].eth_port = e /\ Live(table[i])
  BY <1>1 DEF ByClient, Live, Protocols, Icmp, Tcp, Udp
<1>3. Refreshed(table) /\ table[i] = pmap[i] /\ table[i] \in Row
  BY <1>2, GcRefreshes, GcKeeps DEF TypeOK
<1>4. /\ Refreshed(Touch(table, i))
      /\ Identity(Touch(table, i)[i]) = Identity(table[i])
      /\ Touch(table, i)[i].ts = now
  BY <1>3, TouchRefreshes
<1>5. CASE /\ pmap' = Touch(table, i)
           /\ out' = [kind |-> "dropped", unit |-> 0]
           /\ UNCHANGED <<cntr, due>>
  BY <1>1, <1>4, <1>5 DEF TypeOK
<1>6. CASE /\ pmap' = [Touch(table, i) EXCEPT ![i].uart = Selected]
           /\ cntr' = CntrOf(Selected)
           /\ Send("reselected", Selected, p, c, e, s, table[i].lte_port)
  <2>1. /\ Touch(table, i)[i].ip_protocol = p
        /\ Touch(table, i)[i].client_ip = c
        /\ Touch(table, i)[i].eth_port = e
        /\ Touch(table, i)[i].lte_port = pmap[i].lte_port
    BY <1>2, <1>3, <1>4 DEF Identity
  <2>2. Refreshed(pmap')
    BY <1>1, <1>2, <1>3, <1>4, <1>6, <2>1, SwitchRefreshes, UnitFacts
  <2>3. Touch(table, i)[i] \in Row /\ Touch(table, i) \in [Rows -> Row]
    BY <1>4 DEF Refreshed
  <2>4. pmap'[i] = [Touch(table, i)[i] EXCEPT !.uart = Selected]
    BY <1>6, <2>3
  <2>5. /\ pmap'[i].ip_protocol = p /\ pmap'[i].client_ip = c
        /\ pmap'[i].eth_port = e /\ pmap'[i].lte_port = pmap[i].lte_port
        /\ pmap'[i].ts = now
    BY <1>4, <2>1, <2>3, <2>4 DEF Row
  <2>6. pmap[i].lte_port \in LtePorts
    BY <1>3 DEF Row
  <2>7. QED
    BY <1>1, <1>3, <1>6, <2>2, <2>5, <2>6, UnitFacts
<1>7. QED
  BY <1>1, <1>5, <1>6

\* Open fills one row that is empty after the collection.
Filled(i, row) == /\ ~Live(Gc(pmap)[i])
                  /\ row \in Row
                  /\ row.ts = now
                  /\ row.lte_port \notin Taken(Gc(pmap), row.ip_protocol)
                  /\ pmap' = [Gc(pmap) EXCEPT ![i] = row]

LEMMA OpenEffect ==
  ASSUME TypeOK, NEW p \in Protocols, NEW c \in Clients, NEW e \in EthPorts,
         NEW s \in Servers, Open(p, c, e, s)
  PROVE  /\ port_seq' \in 0 .. PortSpan - 1
         /\ cntr' \in 0 .. 2
         /\ Known(Gc(pmap), p, c, e, s) = {}
         /\ \E i \in Rows, row \in Row :
              /\ Filled(i, row)
              /\ row.ip_protocol = p /\ row.client_ip = c
              /\ row.eth_port = e /\ row.server_ip = s
              /\ Send("opened", Selected, p, c, e, s, row.lte_port)
<1>1. PICK k \in 1 .. PortSpan, i \in Rows :
        /\ IsNextSeq(k, Gc(pmap), p)
        /\ IsFirst(i, Empty(Gc(pmap)))
        /\ port_seq' = Probe(k)
        /\ pmap' = [Gc(pmap) EXCEPT ![i] =
                      [ip_protocol |-> p, client_ip |-> c,
                       eth_port |-> e, server_ip |-> s,
                       lte_port |-> Base(p) + Probe(k),
                       uart |-> Selected, ts |-> now]]
        /\ Send("opened", Selected, p, c, e, s, Base(p) + Probe(k))
  BY DEF Open
<1> DEFINE row == [ip_protocol |-> p, client_ip |-> c, eth_port |-> e,
                   server_ip |-> s, lte_port |-> Base(p) + Probe(k),
                   uart |-> Selected, ts |-> now]
<1>2. Probe(k) \in 0 .. PortSpan - 1
  BY ProbeInRange, SpanPositive DEF TypeOK
<1>3. row \in Row
  <2>1. Base(p) + Probe(k) \in LtePorts
    BY <1>2, PortInRange
  <2>2. QED
    BY <2>1, UnitFacts DEF Row, TypeOK
<1>4. ~Live(Gc(pmap)[i])
  BY <1>1 DEF IsFirst, Empty
<1>5. Base(p) + Probe(k) \notin Taken(Gc(pmap), p)
  BY <1>1 DEF IsNextSeq
<1>6. Filled(i, row)
  BY <1>1, <1>3, <1>4, <1>5 DEF Filled
<1>7. cntr' \in 0 .. 2 /\ Known(Gc(pmap), p, c, e, s) = {}
  BY UnitFacts DEF Open
<1>8. QED
  BY <1>1, <1>2, <1>3, <1>6, <1>7

LEMMA FilledTable ==
  ASSUME TypeOK, NEW i \in Rows, NEW row \in Row, Filled(i, row)
  PROVE  /\ pmap' \in [Rows -> Row]
         /\ \A j \in Rows : pmap'[j] = IF j = i THEN row ELSE Gc(pmap)[j]
         /\ \A j \in Rows : Live(pmap'[j]) =>
               j = i \/ pmap'[j] = pmap[j]
         /\ \A j \in Rows : Live(pmap[j]) /\ ~Expired(pmap[j]) =>
               j # i /\ pmap'[j] = pmap[j]
  BY GcKeeps DEF Filled, TypeOK

LEMMA BlankTable ==
  ASSUME pmap' = [i \in Rows |-> Blank]
  PROVE  pmap' \in [Rows -> Row] /\ \A i \in Rows : ~Live(pmap'[i])
  BY BlankIsRow

\* The packets of the traffic are of flows of hosts and servers.
LEMMA NextCases ==
  ASSUME Next
  PROVE  \/ \E p \in Protocols, c \in Clients, e \in EthPorts, s \in Servers :
              /\ [protocol |-> p, client |-> c, eport |-> e, server |-> s]
                   \in Traffic
              /\ Uplink(p, c, e, s)
         \/ IgnoreIcmp \/ Downlink \/ Tick \/ LineChange
<1>1. ASSUME NEW f \in Traffic, Uplink(f.protocol, f.client, f.eport, f.server)
      PROVE  \E p \in Protocols, c \in Clients, e \in EthPorts, s \in Servers :
                /\ [protocol |-> p, client |-> c, eport |-> e, server |-> s]
                     \in Traffic
                /\ Uplink(p, c, e, s)
  <2>1. f \in Flow
    BY TrafficAssumption
  <2>2. /\ f.protocol \in Protocols /\ f.client \in Clients
        /\ f.eport \in EthPorts /\ f.server \in Servers
        /\ f = [protocol |-> f.protocol, client |-> f.client,
                eport |-> f.eport, server |-> f.server]
    BY <2>1 DEF Flow
  <2>3. QED
    BY <1>1, <2>2
<1>2. QED
  BY <1>1 DEF Next

-------------------------------------------------------------------------------
(* Type correctness *)

LEMMA UplinkType ==
  ASSUME TypeOK, NEW p \in Protocols, NEW c \in Clients, NEW e \in EthPorts,
         NEW s \in Servers, Uplink(p, c, e, s)
  PROVE  TypeOK'
<1>1. CASE KeepTcp(c, e, s)
  <2>1. UNCHANGED <<port_seq, ready, now>>
    BY <1>1 DEF KeepTcp
  <2>2. pmap' \in [Rows -> Row] /\ cntr' \in 0 .. 2
    BY <1>1, KeepTcpEffect DEF Refreshed
  <2>3. due' \subseteq Request /\ out' \in Out
    BY <1>1, KeepTcpEffect, SendType DEF Protocols
  <2>4. QED
    BY <2>1, <2>2, <2>3 DEF TypeOK
<1>2. CASE Reselect(p, c, e, s)
  <2>1. UNCHANGED <<port_seq, ready, now>>
    BY <1>2 DEF Reselect
  <2>2. pmap' \in [Rows -> Row] /\ cntr' \in 0 .. 2
    BY <1>2, ReselectEffect DEF Refreshed
  <2>3. due' \subseteq Request /\ out' \in Out
    <3>1. CASE out' = [kind |-> "dropped", unit |-> 0] /\ due' = due
      BY <3>1 DEF TypeOK, Out
    <3>2. CASE \E l \in LtePorts : Send("reselected", Selected, p, c, e, s, l)
      BY <3>2, SendType, UnitFacts
    <3>3. QED
      BY <1>2, <3>1, <3>2, ReselectEffect
  <2>4. QED
    BY <2>1, <2>2, <2>3 DEF TypeOK
<1>3. CASE Open(p, c, e, s)
  <2>1. UNCHANGED <<ready, now>>
    BY <1>3 DEF Open
  <2>2. PICK i \in Rows, row \in Row :
          Filled(i, row) /\ Send("opened", Selected, p, c, e, s, row.lte_port)
    BY <1>3, OpenEffect
  <2>3. pmap' \in [Rows -> Row]
    BY <2>2, FilledTable
  <2>4. row.lte_port \in LtePorts
    BY DEF Row
  <2>5. due' \subseteq Request /\ out' \in Out
    BY <2>2, <2>4, SendType, UnitFacts
  <2>6. port_seq' \in 0 .. PortSpan - 1 /\ cntr' \in 0 .. 2
    BY <1>3, OpenEffect
  <2>7. QED
    BY <2>1, <2>3, <2>5, <2>6 DEF TypeOK
<1>4. CASE OpenFails(p, c, e, s)
  <2>1. out' \in Out
    BY <1>4 DEF OpenFails, Out
  <2>2. QED
    BY <1>4, <2>1, GcRefreshes DEF OpenFails, TypeOK, Refreshed
<1>5. CASE Panic(p, c, e, s)
  <2>1. out' \in Out /\ 0 \in Clock /\ 0 \in 0 .. PortSpan - 1
    BY <1>5, ClockModAssumption, SpanPositive DEF Panic, Out, Clock
  <2>2. pmap' \in [Rows -> Row]
    BY <1>5, BlankTable DEF Panic
  <2>3. QED
    BY <1>5, <2>1, <2>2 DEF Panic, TypeOK
<1>6. QED
  BY <1>1, <1>2, <1>3, <1>4, <1>5 DEF Uplink

LEMMA DownlinkType ==
  ASSUME TypeOK, Downlink
  PROVE  TypeOK' /\ Refreshed(pmap')
<1>1. Refreshed(pmap')
  <2>1. ASSUME NEW p, NEW s, NEW l, Deliver(p, s, l)
        PROVE  Refreshed(pmap')
    BY <2>1, GcRefreshes, TouchRefreshes DEF Deliver
  <2>2. CASE Refuse
    BY <2>2, GcRefreshes DEF Refuse
  <2>3. QED
    BY <2>1, <2>2 DEF Downlink
<1>2. UNCHANGED <<port_seq, cntr, ready, now, due>> /\ Idle
  BY DEF Downlink, Deliver, Refuse
<1>3. QED
  BY <1>1, <1>2 DEF TypeOK, Refreshed, Idle, Out

LEMMA TickType ==
  ASSUME TypeOK, Tick
  PROVE  TypeOK'
<1>1. now' \in Clock
  BY ElapsedTick DEF Tick, TypeOK
<1>2. due' \subseteq Request
  <2>1. \A q \in Request : q.age + 1 < PmapTimeout =>
          [q EXCEPT !.age = q.age + 1] \in Request
    BY GatewayAssumption DEF Request
  <2>2. QED
    BY <2>1 DEF Tick, TypeOK
<1>3. QED
  BY <1>1, <1>2 DEF Tick, Idle, TypeOK, Out

\* The table, the counters and the observations stay well formed.
THEOREM TypeCorrect == Spec => []TypeOK
<1>1. Init => TypeOK
  BY BlankIsRow, SpanPositive, ClockModAssumption, GatewayAssumption
  DEF Init, TypeOK, Clock, Out
<1>2. TypeOK /\ [Next]_vars => TypeOK'
  <2> SUFFICES ASSUME TypeOK, [Next]_vars PROVE TypeOK'
    OBVIOUS
  <2>1. ASSUME NEW p \in Protocols, NEW c \in Clients, NEW e \in EthPorts,
               NEW s \in Servers, Uplink(p, c, e, s)
        PROVE  TypeOK'
    BY <2>1, UplinkType
  <2>2. CASE IgnoreIcmp
    BY <2>2 DEF IgnoreIcmp, Idle, TypeOK, Out
  <2>3. CASE Downlink
    BY <2>3, DownlinkType
  <2>4. CASE Tick
    BY <2>4, TickType
  <2>5. CASE LineChange
    BY <2>5, GatewayAssumption DEF LineChange, Idle, TypeOK, Out
  <2>6. CASE UNCHANGED vars
    BY <2>6 DEF vars, TypeOK
  <2>7. QED
    BY <2>1, <2>2, <2>3, <2>4, <2>5, <2>6, NextCases
<1>3. QED
  BY <1>1, <1>2, PTL DEF Spec

-------------------------------------------------------------------------------
(* Every step refreshes the table, fills one row of it or empties it.       *)

OpensRow(i, row) == /\ Filled(i, row)
                    /\ row.ip_protocol \in Protocols
                    /\ Known(Gc(pmap), row.ip_protocol, row.client_ip,
                             row.eth_port, row.server_ip) = {}

Restarts == /\ pmap' = [i \in Rows |-> Blank]
            /\ due' = {}
            /\ out'.kind = "restart"

LEMMA TableStep ==
  ASSUME TypeOK, [Next]_vars
  PROVE  \/ Refreshed(pmap')
         \/ \E i \in Rows, row \in Row : OpensRow(i, row)
         \/ Restarts
<1>1. Refreshed(pmap)
  BY DEF Refreshed, TypeOK
<1>2. ASSUME NEW p \in Protocols, NEW c \in Clients, NEW e \in EthPorts,
             NEW s \in Servers, Uplink(p, c, e, s)
      PROVE  \/ Refreshed(pmap')
             \/ \E i \in Rows, row \in Row : OpensRow(i, row)
             \/ Restarts
  <2>1. CASE KeepTcp(c, e, s)
    BY <2>1, KeepTcpEffect
  <2>2. CASE Reselect(p, c, e, s)
    BY <2>2, ReselectEffect
  <2>3. CASE Open(p, c, e, s)
    BY <2>3, OpenEffect DEF OpensRow
  <2>4. CASE OpenFails(p, c, e, s)
    BY <2>4, GcRefreshes DEF OpenFails
  <2>5. CASE Panic(p, c, e, s)
    BY <2>5 DEF Panic, Restarts
  <2>6. QED
    BY <1>2, <2>1, <2>2, <2>3, <2>4, <2>5 DEF Uplink
<1>3. CASE Downlink
  BY <1>3, DownlinkType
<1>4. CASE IgnoreIcmp \/ Tick \/ LineChange \/ UNCHANGED vars
  BY <1>1, <1>4 DEF IgnoreIcmp, Tick, LineChange, vars
<1>5. QED
  BY <1>2, <1>3, <1>4, NextCases

-------------------------------------------------------------------------------
(* Ports and flows are unique *)

LEMMA PortsUniqueStep ==
  ASSUME TypeOK, PortsUnique, [Next]_vars
  PROVE  PortsUnique'
<1>1. CASE Refreshed(pmap')
  <2> SUFFICES ASSUME NEW i \in Rows, NEW j \in Rows, i # j,
                      Live(pmap'[i]), Live(pmap'[j]),
                      SameClass(pmap'[i].ip_protocol, pmap'[j].ip_protocol)
               PROVE  pmap'[i].lte_port # pmap'[j].lte_port
    BY DEF PortsUnique
  <2>1. /\ Live(pmap[i]) /\ Identity(pmap'[i]) = Identity(pmap[i])
        /\ Live(pmap[j]) /\ Identity(pmap'[j]) = Identity(pmap[j])
    BY <1>1 DEF Refreshed
  <2>2. /\ pmap'[i].ip_protocol = pmap[i].ip_protocol
        /\ pmap'[i].lte_port = pmap[i].lte_port
        /\ pmap'[j].ip_protocol = pmap[j].ip_protocol
        /\ pmap'[j].lte_port = pmap[j].lte_port
    BY <2>1 DEF Identity
  <2>3. QED
    BY <2>1, <2>2 DEF PortsUnique
<1>2. CASE \E i \in Rows, row \in Row : OpensRow(i, row)
  <2>1. PICK n \in Rows, row \in Row : OpensRow(n, row)
    BY <1>2
  <2>2. /\ \A j \in Rows : pmap'[j] = IF j = n THEN row ELSE Gc(pmap)[j]
        /\ \A j \in Rows : Live(pmap'[j]) => j = n \/ pmap'[j] = pmap[j]
    BY <2>1, FilledTable DEF OpensRow
  <2>3. \A j \in Rows : j # n /\ Live(pmap'[j])
                          /\ SameClass(pmap'[j].ip_protocol, row.ip_protocol)
                        => pmap'[j].lte_port # row.lte_port
    BY <2>1, <2>2 DEF OpensRow, Filled, Taken
  <2>4. QED
    BY <2>2, <2>3 DEF PortsUnique, SameClass
<1>3. CASE Restarts
  BY <1>3, BlankTable DEF Restarts, PortsUnique
<1>4. QED
  BY <1>1, <1>2, <1>3, TableStep

\* No two live rows hold the same port, for every size of the table and of
\* the port range: the generator never hands out a port that is in use.
THEOREM PortsStayUnique == Spec => []PortsUnique
<1>1. Init => PortsUnique
  BY BlankIsRow DEF Init, PortsUnique
<1>2. TypeOK /\ PortsUnique /\ [Next]_vars => PortsUnique'
  BY PortsUniqueStep
<1>3. QED
  BY <1>1, <1>2, TypeCorrect, PTL DEF Spec

\* A flow never holds two rows.
THEOREM FlowsStayUnique == Spec => []OneRowPerFlow
<1>1. Init => OneRowPerFlow
  BY BlankIsRow DEF Init, OneRowPerFlow
<1>2. TypeOK /\ OneRowPerFlow /\ [Next]_vars => OneRowPerFlow'
  <2> SUFFICES ASSUME TypeOK, OneRowPerFlow, [Next]_vars PROVE OneRowPerFlow'
    OBVIOUS
  <2>1. CASE Refreshed(pmap')
    <3>1. \A i \in Rows : Live(pmap'[i]) =>
            /\ Live(pmap[i])
            /\ pmap'[i].ip_protocol = pmap[i].ip_protocol
            /\ pmap'[i].client_ip = pmap[i].client_ip
            /\ pmap'[i].eth_port = pmap[i].eth_port
            /\ pmap'[i].server_ip = pmap[i].server_ip
      BY <2>1 DEF Refreshed, Identity
    <3>2. QED
      BY <3>1 DEF OneRowPerFlow, Live
  <2>2. CASE \E i \in Rows, row \in Row : OpensRow(i, row)
    <3>1. PICK n \in Rows, row \in Row : OpensRow(n, row)
      BY <2>2
    <3>2. /\ \A j \in Rows : pmap'[j] = IF j = n THEN row ELSE Gc(pmap)[j]
          /\ \A j \in Rows : Live(pmap'[j]) => j = n \/ pmap'[j] = pmap[j]
      BY <3>1, FilledTable DEF OpensRow
    <3>3. \A j \in Rows : /\ j # n /\ Live(pmap'[j])
                          /\ pmap'[j].ip_protocol = row.ip_protocol
                          /\ pmap'[j].client_ip = row.client_ip
                          /\ pmap'[j].eth_port = row.eth_port
                          => /\ row.ip_protocol = Tcp
                             /\ pmap'[j].server_ip # row.server_ip
      BY <3>1, <3>2 DEF OpensRow, Known, ForTcp, ByClient
    <3>4. QED
      BY <3>2, <3>3 DEF OneRowPerFlow, Live
  <2>3. CASE Restarts
    BY <2>3, BlankTable DEF Restarts, OneRowPerFlow
  <2>4. QED
    BY <2>1, <2>2, <2>3, TableStep
<1>3. QED
  BY <1>1, <1>2, TypeCorrect, PTL DEF Spec

-------------------------------------------------------------------------------
(* Requests keep their rows *)

\* The row of a request that is due has not expired.
LEMMA HeldNotExpired ==
  ASSUME TypeOK, NEW q \in due, NEW i \in Rows, Holds(pmap[i], q)
  PROVE  /\ Live(pmap[i]) /\ ~Expired(pmap[i])
         /\ q \in Request
<1>1. q \in Request /\ pmap[i] \in Row /\ now \in Clock
  BY DEF TypeOK
<1>2. Elapsed(pmap[i].ts, now) \in Nat /\ Elapsed(pmap[i].ts, now) <= q.age
  <2>1. pmap[i].ts \in Clock
    BY <1>1 DEF Row
  <2>2. Elapsed(pmap[i].ts, now) \in Nat
    BY <1>1, <2>1, ElapsedTick
  <2>3. QED
    BY <2>2 DEF Holds
<1>3. q.age \in 0 .. PmapTimeout - 1 /\ q.protocol \in Protocols
  BY <1>1 DEF Request
<1>4. ~Expired(pmap[i])
  BY <1>2, <1>3, GatewayAssumption DEF Expired, IsTimeout
<1>5. Live(pmap[i])
  BY <1>3 DEF Holds, Live, Protocols, Icmp, Tcp, Udp
<1>6. QED
  BY <1>1, <1>4, <1>5

\* A step that keeps or refreshes the row at the same time keeps the hold.
LEMMA HoldKept ==
  ASSUME TypeOK, now' = now, NEW q \in due, NEW i \in Rows, Holds(pmap[i], q),
         Identity(pmap'[i]) = Identity(pmap[i]),
         pmap'[i].ts \in {pmap[i].ts, now}
  PROVE  Holds(pmap[i], q)'
<1>1. q \in Request /\ now \in Clock
  BY DEF TypeOK
<1>2. Elapsed(now, now) <= q.age
  BY <1>1, ElapsedTick DEF Request
<1>3. Elapsed(pmap'[i].ts, now') <= q.age
  BY <1>2 DEF Holds
<1>4. QED
  BY <1>3 DEF Holds, Identity

\* Requests that were held before a packet is handled are held after it.
LEMMA OldHeld ==
  ASSUME TypeOK, DueHeld, now' = now, NEW q \in due,
         \/ Refreshed(pmap')
         \/ \E i \in Rows, row \in Row : Filled(i, row)
  PROVE  \E i \in Rows : Holds(pmap[i], q)'
<1>1. PICK i \in Rows : Holds(pmap[i], q)
  BY DEF DueHeld
<1>2. Live(pmap[i]) /\ ~Expired(pmap[i])
  BY <1>1, HeldNotExpired
<1>3. CASE Refreshed(pmap')
  BY <1>1, <1>2, <1>3, HoldKept DEF Refreshed
<1>4. CASE \E n \in Rows, row \in Row : Filled(n, row)
  <2>1. pmap'[i] = pmap[i]
    BY <1>2, <1>4, FilledTable
  <2>2. QED
    BY <1>1, <2>1, HoldKept
<1>5. QED
  BY <1>3, <1>4

\* Only the request just sent is new.
LEMMA SendDue ==
  ASSUME NEW kind, NEW u, NEW p, NEW c, NEW e, NEW s, NEW l,
         Send(kind, u, p, c, e, s, l), NEW q \in due'
  PROVE  q \in due \/ q = [protocol |-> p, client |-> c, eport |-> e,
                           server |-> s, lport |-> l, age |-> 0]
  BY DEF Send

\* A row with the right fields and the present time holds a new request.
LEMMA NewHeld ==
  ASSUME TypeOK, now' = now, NEW i \in Rows, NEW p, NEW c, NEW e, NEW s, NEW l,
         pmap'[i].ip_protocol = p, pmap'[i].client_ip = c,
         pmap'[i].eth_port = e, pmap'[i].lte_port = l, pmap'[i].ts = now,
         p = Tcp => pmap'[i].server_ip = s,
         NEW q, q = [protocol |-> p, client |-> c, eport |-> e,
                     server |-> s, lport |-> l, age |-> 0]
  PROVE  Holds(pmap[i], q)'
<1>1. Elapsed(now, now) = 0
  BY ElapsedTick DEF TypeOK
<1>2. QED
  BY <1>1 DEF Holds

LEMMA UplinkHeld ==
  ASSUME TypeOK, DueHeld, NEW p \in Protocols, NEW c \in Clients,
         NEW e \in EthPorts, NEW s \in Servers, Uplink(p, c, e, s)
  PROVE  DueHeld'
<1> SUFFICES ASSUME NEW q \in due' PROVE \E i \in Rows : Holds(pmap[i], q)'
  BY DEF DueHeld
<1>1. CASE KeepTcp(c, e, s) /\ p = Tcp
  <2>1. now' = now
    BY <1>1 DEF KeepTcp
  <2>2. PICK i \in Rows :
          /\ Identity(pmap'[i]) = <<Tcp, c, e, s, pmap[i].lte_port>>
          /\ pmap'[i].ts = now
          /\ Send("kept", pmap[i].uart, Tcp, c, e, s, pmap[i].lte_port)
    BY <1>1, KeepTcpEffect
  <2>3. CASE q \in due
    BY <1>1, <2>1, <2>3, KeepTcpEffect, OldHeld
  <2>4. CASE q = [protocol |-> Tcp, client |-> c, eport |-> e, server |-> s,
                  lport |-> pmap[i].lte_port, age |-> 0]
    <3>1. /\ pmap'[i].ip_protocol = Tcp /\ pmap'[i].client_ip = c
          /\ pmap'[i].eth_port = e /\ pmap'[i].server_ip = s
          /\ pmap'[i].lte_port = pmap[i].lte_port
      BY <2>2 DEF Identity
    <3>2. QED
      BY <2>1, <2>2, <2>4, <3>1, NewHeld
  <2>5. QED
    BY <2>2, <2>3, <2>4, SendDue
<1>2. CASE Reselect(p, c, e, s)
  <2>1. now' = now
    BY <1>2 DEF Reselect
  <2>2. CASE q \in due
    BY <1>2, <2>1, <2>2, ReselectEffect, OldHeld
  <2>3. CASE q \notin due
    <3>1. PICK i \in Rows :
            /\ pmap'[i].ip_protocol = p
            /\ pmap'[i].client_ip = c
            /\ pmap'[i].eth_port = e
            /\ pmap'[i].lte_port = pmap[i].lte_port
            /\ pmap'[i].ts = now
            /\ Send("reselected", Selected, p, c, e, s, pmap[i].lte_port)
      BY <1>2, <2>3, ReselectEffect
    <3>2. q = [protocol |-> p, client |-> c, eport |-> e, server |-> s,
               lport |-> pmap[i].lte_port, age |-> 0]
      BY <2>3, <3>1, SendDue
    <3>3. p # Tcp
      BY <1>2, ReselectEffect
    <3>4. QED
      BY <2>1, <3>1, <3>2, <3>3, NewHeld
  <2>4. QED
    BY <2>2, <2>3
<1>3. CASE Open(p, c, e, s)
  <2>1. now' = now
    BY <1>3 DEF Open
  <2>2. PICK i \in Rows, row \in Row :
          /\ Filled(i, row)
          /\ row.ip_protocol = p /\ row.client_ip = c
          /\ row.eth_port = e /\ row.server_ip = s
          /\ Send("opened", Selected, p, c, e, s, row.lte_port)
    BY <1>3, OpenEffect
  <2>3. CASE q \in due
    BY <2>1, <2>2, <2>3, OldHeld
  <2>4. CASE q = [protocol |-> p, client |-> c, eport |-> e, server |-> s,
                  lport |-> row.lte_port, age |-> 0]
    <3>1. pmap'[i] = row /\ row.ts = now
      BY <2>2, FilledTable DEF Filled
    <3>2. QED
      BY <2>1, <2>2, <2>4, <3>1, NewHeld
  <2>5. QED
    BY <2>2, <2>3, <2>4, SendDue
<1>4. CASE OpenFails(p, c, e, s)
  BY <1>4, OldHeld, GcRefreshes DEF OpenFails
<1>5. CASE Panic(p, c, e, s)
  BY <1>5 DEF Panic
<1>6. QED
  BY <1>1, <1>2, <1>3, <1>4, <1>5 DEF Uplink

LEMMA TickHeld ==
  ASSUME TypeOK, DueHeld, Tick
  PROVE  DueHeld'
<1> SUFFICES ASSUME NEW q \in due' PROVE \E i \in Rows : Holds(pmap[i], q)'
  BY DEF DueHeld
<1>1. PICK r \in due : r.age + 1 < PmapTimeout /\ q = [r EXCEPT !.age = r.age + 1]
  BY DEF Tick
<1>2. PICK i \in Rows : Holds(pmap[i], r)
  BY DEF DueHeld
<1>3. r \in Request /\ pmap[i] \in Row /\ now \in Clock
  BY DEF TypeOK
<1>4. /\ q.protocol = r.protocol /\ q.client = r.client /\ q.eport = r.eport
      /\ q.server = r.server /\ q.lport = r.lport /\ q.age = r.age + 1
      /\ r.age \in Nat
  BY <1>1, <1>3 DEF Request
<1>5. pmap[i].ts \in Clock /\ now' = NextTick(now) /\ pmap' = pmap
  BY <1>3 DEF Row, Tick
<1>6. Elapsed(pmap[i].ts, now) \in Nat /\ Elapsed(pmap[i].ts, now) <= r.age
  <2>1. Elapsed(pmap[i].ts, now) \in Nat
    BY <1>3, <1>5, ElapsedTick
  <2>2. QED
    BY <1>2, <2>1 DEF Holds
<1>7. Elapsed(pmap[i].ts, now) + 1 < ClockMod
  BY <1>1, <1>4, <1>6, GatewayAssumption, ClockModAssumption
<1>8. Elapsed(pmap'[i].ts, now') <= q.age
  BY <1>3, <1>4, <1>5, <1>6, <1>7, ElapsedTick
<1>9. Holds(pmap[i], q)'
  BY <1>2, <1>4, <1>5, <1>8 DEF Holds
<1>10. QED
  BY <1>9

\* Every request that is due keeps a row of its own.
THEOREM RequestsKeepRows == Spec => []DueHeld
<1>1. Init => DueHeld
  BY DEF Init, DueHeld
<1>2. TypeOK /\ DueHeld /\ [Next]_vars => DueHeld'
  <2> SUFFICES ASSUME TypeOK, DueHeld, [Next]_vars PROVE DueHeld'
    OBVIOUS
  <2>1. ASSUME NEW p \in Protocols, NEW c \in Clients, NEW e \in EthPorts,
               NEW s \in Servers, Uplink(p, c, e, s)
        PROVE  DueHeld'
    BY <2>1, UplinkHeld
  <2>2. CASE Downlink
    <3>1. now' = now /\ due' = due
      BY <2>2 DEF Downlink, Deliver, Refuse
    <3>2. QED
      BY <2>2, <3>1, DownlinkType, OldHeld DEF DueHeld
  <2>3. CASE Tick
    BY <2>3, TickHeld
  <2>4. CASE IgnoreIcmp \/ LineChange \/ UNCHANGED vars
    BY <2>4 DEF IgnoreIcmp, LineChange, vars, DueHeld, Holds
  <2>5. QED
    BY <2>1, <2>2, <2>3, <2>4, NextCases
<1>3. QED
  BY <1>1, <1>2, TypeCorrect, PTL DEF Spec

-------------------------------------------------------------------------------
(* What the invariants say of replies and of connections *)

\* The reply to a request that is due is delivered to the host and port that
\* sent the request and to no other.
THEOREM RepliesDoNotCross == Spec => []NoCrossTalk
<1>1. TypeOK /\ PortsUnique /\ DueHeld => NoCrossTalk
  <2> SUFFICES ASSUME TypeOK, PortsUnique, DueHeld,
                      NEW q \in due, NEW i \in ReplyRows(q)
               PROVE  pmap[i].client_ip = q.client /\ pmap[i].eth_port = q.eport
    BY DEF NoCrossTalk
  <2>1. PICK j \in Rows : Holds(pmap[j], q)
    BY DEF DueHeld
  <2>2. Live(pmap[j]) /\ q \in Request
    BY <2>1, HeldNotExpired
  <2>3. /\ i \in Rows
        /\ Gc(pmap)[i].ip_protocol = q.protocol
        /\ Gc(pmap)[i].lte_port = q.lport
    BY DEF ReplyRows, ByServer
  <2>4. Live(Gc(pmap)[i])
    BY <2>2, <2>3 DEF Live, Request, Protocols, Icmp, Tcp, Udp
  <2>5. Gc(pmap)[i] = pmap[i] /\ Live(pmap[i])
    BY <2>3, <2>4, GcKeeps DEF TypeOK
  <2>6. i = j
    BY <2>1, <2>2, <2>3, <2>5 DEF PortsUnique, SameClass, Holds
  <2>7. QED
    BY <2>1, <2>6 DEF Holds
<1>2. QED
  BY <1>1, TypeCorrect, PortsStayUnique, RequestsKeepRows, PTL

\* Rows and requests are those of the traffic.
FlowOfRow(row) == [protocol |-> row.ip_protocol, client |-> row.client_ip,
                   eport |-> row.eth_port, server |-> row.server_ip]

RowsOfTraffic == \A i \in Rows : Live(pmap[i]) => FlowOfRow(pmap[i]) \in Traffic

LEMMA RowsStayOfTraffic == Spec => []RowsOfTraffic
<1>1. Init => RowsOfTraffic
  BY BlankIsRow DEF Init, RowsOfTraffic
<1>2. TypeOK /\ RowsOfTraffic /\ [Next]_vars => RowsOfTraffic'
  <2> SUFFICES ASSUME TypeOK, RowsOfTraffic, [Next]_vars,
                      NEW i \in Rows, Live(pmap'[i])
               PROVE  FlowOfRow(pmap'[i]) \in Traffic
    BY DEF RowsOfTraffic
  <2>1. CASE Refreshed(pmap')
    <3>1. Live(pmap[i]) /\ Identity(pmap'[i]) = Identity(pmap[i])
      BY <2>1 DEF Refreshed
    <3>2. FlowOfRow(pmap'[i]) = FlowOfRow(pmap[i])
      BY <3>1 DEF Identity, FlowOfRow
    <3>3. QED
      BY <3>1, <3>2 DEF RowsOfTraffic
  <2>2. ASSUME NEW p \in Protocols, NEW c \in Clients, NEW e \in EthPorts,
               NEW s \in Servers, Open(p, c, e, s),
               [protocol |-> p, client |-> c, eport |-> e, server |-> s]
                 \in Traffic
        PROVE  FlowOfRow(pmap'[i]) \in Traffic
    <3>1. PICK n \in Rows, row \in Row :
            /\ Filled(n, row)
            /\ row.ip_protocol = p /\ row.client_ip = c
            /\ row.eth_port = e /\ row.server_ip = s
      BY <2>2, OpenEffect
    <3>2. /\ pmap'[n] = row
          /\ i = n \/ pmap'[i] = pmap[i]
      BY <3>1, FilledTable
    <3>3. QED
      BY <2>2, <3>1, <3>2 DEF RowsOfTraffic, FlowOfRow
  <2>3. CASE Restarts
    BY <2>3, BlankTable DEF Restarts
  <2>4. ASSUME NEW p \in Protocols, NEW c \in Clients, NEW e \in EthPorts,
               NEW s \in Servers, Uplink(p, c, e, s), ~Open(p, c, e, s)
        PROVE  Refreshed(pmap') \/ Restarts
    <3>1. CASE OpenFails(p, c, e, s)
      BY <3>1, GcRefreshes DEF OpenFails
    <3>2. CASE Panic(p, c, e, s)
      BY <3>2 DEF Panic, Restarts
    <3>3. QED
      BY <2>4, <3>1, <3>2, KeepTcpEffect, ReselectEffect DEF Uplink
  <2>5. CASE Downlink
    BY <2>1, <2>5, DownlinkType
  <2>6. CASE IgnoreIcmp \/ Tick \/ LineChange \/ UNCHANGED vars
    BY <2>6 DEF IgnoreIcmp, Tick, LineChange, vars, RowsOfTraffic
  <2>7. QED
    BY <2>1, <2>2, <2>3, <2>4, <2>5, <2>6, NextCases
<1>3. QED
  BY <1>1, <1>2, TypeCorrect, PTL DEF Spec

\* The reply to a request that is due finds a row: the one the request holds
\* names the request's server, for TCP because the search compares it, for UDP
\* and ICMP while the traffic gives each client port or identifier one server.
THEOREM RepliesFindTheirRows == Spec => []Answerable
<1>1. TypeOK /\ DueHeld /\ RowsOfTraffic => Answerable
  <2> SUFFICES ASSUME TypeOK, DueHeld, RowsOfTraffic, NEW q \in due, HasOwnRow(q)
               PROVE  ReplyRows(q) # {}
    BY DEF Answerable
  <2>1. PICK j \in Rows : Holds(pmap[j], q)
    BY DEF DueHeld
  <2>2. Live(pmap[j]) /\ Gc(pmap)[j] = pmap[j]
    BY <2>1, HeldNotExpired, GcKeeps DEF TypeOK
  <2>3. FlowOfRow(pmap[j]) \in Traffic
    BY <2>2 DEF RowsOfTraffic
  <2>4. pmap[j].server_ip = q.server
    BY <2>1, <2>3 DEF Holds, HasOwnRow, FlowOfRow
  <2>5. j \in ReplyRows(q)
    BY <2>1, <2>2, <2>4 DEF ReplyRows, ByServer, Holds
  <2>6. QED
    BY <2>5
<1>2. QED
  BY <1>1, TypeCorrect, RequestsKeepRows, RowsStayOfTraffic, PTL

-------------------------------------------------------------------------------
(* The search for a free port *)

\* A nonempty set of probes has a first one: otherwise the sets of its
\* elements up to each of its elements would descend for ever.
LEMMA FirstProbe ==
  ASSUME NEW n \in Nat, NEW S \in SUBSET (1 .. n), S # {}
  PROVE  \E i \in S : \A j \in S : i <= j
<1> DEFINE UpTo(i) == {j \in S : j <= i}
           Family == {UpTo(i) : i \in S}
<1>1. S \subseteq Int /\ IsFiniteSet(S)
  <2>1. S \subseteq Int
    OBVIOUS
  <2>2. IsFiniteSet(1 .. n)
    BY FS_Interval
  <2>3. IsFiniteSet(S)
    BY <2>2, FS_Subset
  <2>4. QED
    BY <2>1, <2>3
<1>2. Family \subseteq FiniteSubsetsOf(S) /\ Family # {}
  <2>1. \A i \in S : UpTo(i) \in SUBSET S /\ IsFiniteSet(UpTo(i))
    BY <1>1, FS_Subset
  <2>2. QED
    BY <2>1 DEF FiniteSubsetsOf
<1>3. IsWellFoundedOn(StrictSubsetOrdering(S), FiniteSubsetsOf(S))
  BY FS_StrictSubsetOrderingWellFounded
<1>4. PICK X \in Family : \A Y \in Family : <<Y, X>> \notin StrictSubsetOrdering(S)
  <2> HIDE DEF Family
  <2>1. QED
    BY <1>2, <1>3, WFMin
<1>5. PICK i \in S : X = UpTo(i)
  BY <1>4
<1>6. ASSUME NEW j \in S, j < i PROVE FALSE
  <2>1. UpTo(j) \in Family
    OBVIOUS
  <2>2. i \in Int /\ j \in Int /\ \A k \in S : k \in Int
    BY <1>1
  <2>3. \A k \in S : k <= j => k <= i
    <3>1. ASSUME NEW k \in S, k <= j PROVE k <= i
      <4>1. k \in Int
        BY <2>2
      <4>2. QED
        BY <1>6, <2>2, <3>1, <4>1
    <3>2. QED
      BY <3>1
  <2>4. UpTo(j) \subseteq UpTo(i) /\ i \in UpTo(i) /\ i \notin UpTo(j)
    <3>1. i <= i /\ ~(i <= j)
      BY <1>6, <2>2
    <3>2. QED
      BY <2>3, <3>1
  <2>5. UpTo(j) \in SUBSET S /\ UpTo(i) \in SUBSET S
    OBVIOUS
  <2>6. <<UpTo(j), X>> \in StrictSubsetOrdering(S)
    <3> HIDE DEF UpTo
    <3>1. QED
      BY <1>5, <2>4, <2>5 DEF StrictSubsetOrdering
  <2>7. QED
    BY <1>4, <2>1, <2>6
<1>7. QED
  BY <1>1, <1>6

\* Probes within one turn of the sequence are different.
LEMMA ProbesDiffer ==
  ASSUME port_seq \in 0 .. PortSpan - 1,
         NEW j \in 1 .. PortSpan, NEW k \in 1 .. PortSpan, Probe(j) = Probe(k)
  PROVE  j = k
<1>1. \A i \in 1 .. PortSpan :
        Probe(i) = IF port_seq + i < PortSpan THEN port_seq + i
                                              ELSE port_seq + i - PortSpan
  BY SpanPositive DEF Probe
<1>2. QED
  BY <1>1, SpanPositive

\* The table has fewer rows than the range has ports.
LEMMA SpareProbe ==
  ASSUME TypeOK, NEW table \in [Rows -> Row], NEW p \in Protocols
  PROVE  \E k \in 1 .. PortSpan : Base(p) + Probe(k) \notin Taken(table, p)
<1> SUFFICES ASSUME \A k \in 1 .. PortSpan : Base(p) + Probe(k) \in Taken(table, p)
             PROVE  FALSE
  OBVIOUS
<1> DEFINE Holder(k) == CHOOSE i \in Rows : table[i].lte_port = Base(p) + Probe(k)
           f == [k \in 1 .. PortSpan |-> Holder(k)]
<1>1. \A k \in 1 .. PortSpan :
        Holder(k) \in Rows /\ table[Holder(k)].lte_port = Base(p) + Probe(k)
  BY DEF Taken
<1>2. f \in [1 .. PortSpan -> Rows]
  BY <1>1
<1>3. MaxRows < PortSpan /\ PortSpan \in Nat
  <2>1. (PortsPerRow - 1) * MaxRows \in Nat
    BY GatewayAssumption
  <2>2. PortsPerRow * MaxRows = (PortsPerRow - 1) * MaxRows + MaxRows
    BY GatewayAssumption
  <2>3. QED
    BY <2>1, <2>2, GatewayAssumption DEF PortSpan
<1>4. /\ IsFiniteSet(1 .. PortSpan) /\ Cardinality(1 .. PortSpan) = PortSpan
      /\ IsFiniteSet(Rows) /\ Cardinality(Rows) = MaxRows
  BY <1>3, GatewayAssumption, FS_Interval DEF Rows
<1>5. PICK j, k \in 1 .. PortSpan : j # k /\ f[j] = f[k]
  <2> HIDE DEF f
  <2>1. QED
    BY <1>2, <1>3, <1>4, FS_PigeonHole
<1>6. Base(p) + Probe(j) = Base(p) + Probe(k)
  BY <1>1, <1>5
<1>7. Probe(j) = Probe(k)
  <2>1. Probe(j) \in Int /\ Probe(k) \in Int /\ Base(p) \in Int
    BY ProbeInRange, SpanPositive, GatewayAssumption DEF TypeOK, Base
  <2>2. QED
    BY <1>6, <2>1
<1>8. QED
  BY <1>5, <1>7, ProbesDiffer DEF TypeOK

\* The search for a free port ends for every size of the table, whatever rows
\* are taken.
THEOREM SearchesEnd == Spec => []GeneratorEnds
<1>1. TypeOK => GeneratorEnds
  <2> SUFFICES ASSUME TypeOK, NEW p \in Protocols
               PROVE  \E k \in 1 .. PortSpan : IsNextSeq(k, Gc(pmap), p)
    BY DEF GeneratorEnds
  <2> DEFINE Free == {k \in 1 .. PortSpan :
                        Base(p) + Probe(k) \notin Taken(Gc(pmap), p)}
  <2>1. Free # {}
    BY SpareProbe, GcKeeps DEF TypeOK
  <2>2. PICK k \in Free : \A j \in Free : k <= j
    BY <2>1, FirstProbe, SpanPositive
  <2>3. \A j \in 1 .. k - 1 : j \in 1 .. PortSpan /\ ~(k <= j)
    BY SpanPositive
  <2>4. IsNextSeq(k, Gc(pmap), p)
    BY <2>2, <2>3 DEF IsNextSeq
  <2>5. QED
    BY <2>4
<1>2. QED
  BY <1>1, TypeCorrect, PTL

-------------------------------------------------------------------------------
\* A mapping that has not expired keeps its host, server and ports, and a TCP
\* mapping its unit, in every step but a restart.
THEOREM MappingsAreStable == Spec => MappingStable
<1> DEFINE Stable == \A i \in Rows :
                       /\ Live(pmap[i])
                       /\ Elapsed(pmap[i].ts, now) < PmapTimeout
                       /\ out'.kind # "restart"
                       => /\ Identity(pmap'[i]) = Identity(pmap[i])
                          /\ pmap[i].ip_protocol = Tcp =>
                               pmap'[i].uart = pmap[i].uart
<1>1. TypeOK /\ [Next]_vars => [Stable]_vars
  <2> SUFFICES ASSUME TypeOK, Next, NEW i \in Rows, Live(pmap[i]),
                      Elapsed(pmap[i].ts, now) < PmapTimeout,
                      out'.kind # "restart"
               PROVE  /\ Identity(pmap'[i]) = Identity(pmap[i])
                      /\ pmap[i].ip_protocol = Tcp =>
                           pmap'[i].uart = pmap[i].uart
    OBVIOUS
  <2>1. ~Expired(pmap[i])
    <3>1. Elapsed(pmap[i].ts, now) \in Nat
      BY ElapsedTick DEF TypeOK, Row
    <3>2. QED
      BY <3>1, GatewayAssumption DEF Expired, IsTimeout
  <2>2. CASE Refreshed(pmap')
    BY <2>1, <2>2 DEF Refreshed
  <2>3. CASE \E n \in Rows, row \in Row : OpensRow(n, row)
    BY <2>1, <2>3, FilledTable DEF OpensRow
  <2>4. QED
    BY <2>2, <2>3, TableStep DEF Restarts
<1>2. QED
  BY <1>1, TypeCorrect, PTL DEF Spec, MappingStable

-------------------------------------------------------------------------------
(* When the table overflows *)

\* Every row is live and younger than PMAP_TIMEOUT_MS, and the rows are those of
\* different flows of the traffic, none of which is f.
Crowded(f) ==
  /\ \A i \in Rows : /\ Live(pmap[i]) /\ ~Expired(pmap[i])
                     /\ FlowOfRow(pmap[i]) \in Traffic \ {f}
  /\ \A i, j \in Rows : i # j => FlowOfRow(pmap[i]) # FlowOfRow(pmap[j])

\* Only a packet of a flow without a row, on a full table, restarts the firmware.
LEMMA RestartStep ==
  ASSUME Next, out'.kind = "restart"
  PROVE  \E p \in Protocols, c \in Clients, e \in EthPorts, s \in Servers :
            /\ [protocol |-> p, client |-> c, eport |-> e, server |-> s] \in Traffic
            /\ Panic(p, c, e, s)
<1>1. ~(IgnoreIcmp \/ Tick \/ LineChange \/ Downlink)
  BY DEF IgnoreIcmp, Tick, LineChange, Downlink, Deliver, Refuse, Idle
<1>2. ASSUME NEW p \in Protocols, NEW c \in Clients, NEW e \in EthPorts,
             NEW s \in Servers, Uplink(p, c, e, s)
      PROVE  Panic(p, c, e, s)
  <2>1. ASSUME KeepTcp(c, e, s) PROVE FALSE
    BY <2>1 DEF KeepTcp, Send
  <2>2. ASSUME Reselect(p, c, e, s) PROVE FALSE
    BY <2>2 DEF Reselect, Send
  <2>3. ASSUME Open(p, c, e, s) PROVE FALSE
    BY <2>3 DEF Open, Send
  <2>4. ASSUME OpenFails(p, c, e, s) PROVE FALSE
    BY <2>4 DEF OpenFails
  <2>5. QED
    BY <1>2, <2>1, <2>2, <2>3, <2>4 DEF Uplink
<1>3. QED
  BY <1>1, <1>2, NextCases

LEMMA PanicNeedsCrowd ==
  ASSUME TypeOK, OneRowPerFlow, RowsOfTraffic,
         NEW p \in Protocols, NEW c \in Clients, NEW e \in EthPorts, NEW s \in Servers,
         Panic(p, c, e, s)
  PROVE  Crowded([protocol |-> p, client |-> c, eport |-> e, server |-> s])
<1> DEFINE f == [protocol |-> p, client |-> c, eport |-> e, server |-> s]
<1>1. \A i \in Rows : Live(Gc(pmap)[i])
  BY DEF Panic, Empty
<1>2. \A i \in Rows : Gc(pmap)[i] = pmap[i] /\ Live(pmap[i]) /\ ~Expired(pmap[i])
  BY <1>1, GcKeeps DEF TypeOK
<1>3. ASSUME NEW i \in Rows, FlowOfRow(pmap[i]) = f PROVE FALSE
  <2>1. /\ pmap[i].ip_protocol = p /\ pmap[i].client_ip = c
        /\ pmap[i].eth_port = e /\ pmap[i].server_ip = s
    BY <1>3 DEF FlowOfRow
  <2>2. i \in ByClient(Gc(pmap), p, c, e) /\ Gc(pmap)[i].server_ip = s
    BY <1>2, <2>1 DEF ByClient
  <2>3. i \in Known(Gc(pmap), p, c, e, s)
    BY <2>2 DEF Known, ForTcp
  <2>4. QED
    BY <2>3 DEF Panic
<1>4. ASSUME NEW i \in Rows, NEW j \in Rows, i # j,
             FlowOfRow(pmap[i]) = FlowOfRow(pmap[j])
      PROVE  FALSE
  <2>1. /\ pmap[i].ip_protocol = pmap[j].ip_protocol
        /\ pmap[i].client_ip = pmap[j].client_ip
        /\ pmap[i].eth_port = pmap[j].eth_port
        /\ pmap[i].server_ip = pmap[j].server_ip
    BY <1>4 DEF FlowOfRow
  <2>2. QED
    BY <1>2, <1>4, <2>1 DEF OneRowPerFlow
<1>5. QED
  BY <1>2, <1>3, <1>4 DEF Crowded, RowsOfTraffic

\* add_pmap comes back with NULL, and the firmware restarts, only while every row
\* serves another flow used within the last PMAP_TIMEOUT_MS: no row is wasted on a
\* flow that has one already, or kept longer (hdr_portmap.cpp:37-45,
\* 199-213, gw_uart.cpp:200-201).
THEOREM RestartNeedsCrowd ==
  Spec => [][out'.kind = "restart" => \E f \in Traffic : Crowded(f)]_vars
<1>1. TypeOK /\ OneRowPerFlow /\ RowsOfTraffic /\ [Next]_vars
        => [out'.kind = "restart" => \E f \in Traffic : Crowded(f)]_vars
  BY RestartStep, PanicNeedsCrowd
<1>2. QED
  BY <1>1, TypeCorrect, FlowsStayUnique, RowsStayOfTraffic, PTL DEF Spec

\* So a table with a row for each flow never overflows, whatever is sent, in
\* whichever order and with whatever delays between the packets.
THEOREM RoomForAllFlows ==
  ASSUME IsFiniteSet(Traffic), Cardinality(Traffic) <= MaxRows
  PROVE  Spec => [][out'.kind # "restart"]_vars
<1>1. ASSUME NEW f \in Traffic, Crowded(f) PROVE FALSE
  <2> DEFINE g == [i \in Rows |-> FlowOfRow(pmap[i])]
             Others == Traffic \ {f}
  <2>1. g \in [Rows -> Others]
    BY <1>1 DEF Crowded
  <2>2. IsFiniteSet(Others) /\ Cardinality(Others) = Cardinality(Traffic) - 1
    BY FS_RemoveElement
  <2>3. Cardinality(Traffic) \in Nat
    BY FS_CardinalityType
  <2>4. IsFiniteSet(Rows) /\ Cardinality(Rows) = MaxRows
    BY GatewayAssumption, FS_Interval DEF Rows
  <2>5. Cardinality(Others) < Cardinality(Rows)
    BY <2>2, <2>3, <2>4, GatewayAssumption
  <2>6. PICK i, j \in Rows : i # j /\ g[i] = g[j]
    <3> HIDE DEF g, Others
    <3>1. QED
      BY <2>1, <2>2, <2>4, <2>5, FS_PigeonHole
  <2>7. QED
    BY <1>1, <2>6 DEF Crowded
<1>2. [out'.kind = "restart" => \E f \in Traffic : Crowded(f)]_vars
        => [out'.kind # "restart"]_vars
  BY <1>1
<1>3. QED
  BY <1>2, RestartNeedsCrowd, PTL

-------------------------------------------------------------------------------
(* The choice of a unit *)

\* The tries reach every unit, wherever they start.
LEMMA TriesReachAll ==
  ASSUME TypeOK, ~SomeTryReady
  PROVE  ready = {}
<1>1. {Preferred, Rotate(Preferred), Rotate(Rotate(Preferred))} = Units
  BY DEF Preferred, Rotate, Units
<1>2. ready \subseteq Units
  BY DEF TypeOK
<1>3. QED
  BY <1>1, <1>2 DEF SomeTryReady

\* Only uplink packets leave an outcome, and a drop means three tries failed.
LEMMA OutcomeStep ==
  ASSUME TypeOK, Next
  PROVE  /\ out'.kind = "dropped" => ~SomeTryReady
         /\ out'.kind \in {"opened", "reselected"} =>
              out'.unit = Selected /\ cntr' = CntrOf(Selected)
         /\ out'.unit # 0 => cntr' = CntrOf(out'.unit)
<1>1. ASSUME NEW p \in Protocols, NEW c \in Clients, NEW e \in EthPorts,
             NEW s \in Servers, Uplink(p, c, e, s)
      PROVE  /\ out'.kind = "dropped" => ~SomeTryReady
             /\ out'.kind \in {"opened", "reselected"} =>
                  out'.unit = Selected /\ cntr' = CntrOf(Selected)
             /\ out'.unit # 0 => cntr' = CntrOf(out'.unit)
  <2>1. CASE KeepTcp(c, e, s)
    BY <2>1 DEF KeepTcp, Send
  <2>2. CASE Reselect(p, c, e, s)
    BY <2>2 DEF Reselect, Send
  <2>3. CASE Open(p, c, e, s)
    BY <2>3 DEF Open, Send
  <2>4. CASE OpenFails(p, c, e, s)
    BY <2>4 DEF OpenFails
  <2>5. CASE Panic(p, c, e, s)
    BY <2>5 DEF Panic
  <2>6. QED
    BY <1>1, <2>1, <2>2, <2>3, <2>4, <2>5 DEF Uplink
<1>2. ASSUME Idle
      PROVE  out'.kind = "idle" /\ out'.unit = 0
  BY <1>2 DEF Idle
<1>3. CASE IgnoreIcmp \/ Tick \/ LineChange \/ Downlink
  BY <1>2, <1>3 DEF IgnoreIcmp, Tick, LineChange, Downlink, Deliver, Refuse
<1>4. QED
  BY <1>1, <1>3, NextCases

\* A packet that is not bound to a unit is dropped only when every status
\* line is high.
THEOREM DropsOnlyIfNoneReady == Spec => DropOnlyIfNoneReady
<1>1. TypeOK /\ [Next]_vars => [out'.kind = "dropped" => ready = {}]_vars
  BY TriesReachAll, OutcomeStep
<1>2. QED
  BY <1>1, TypeCorrect, PTL DEF Spec, DropOnlyIfNoneReady

\* cntr remembers the unit of the last packet.
LastUnit == out.unit # 0 => cntr = CntrOf(out.unit)

LEMMA LastUnitRemembered == Spec => []LastUnit
<1>1. Init => LastUnit
  BY DEF Init, LastUnit
<1>2. TypeOK /\ LastUnit /\ [Next]_vars => LastUnit'
  BY OutcomeStep DEF LastUnit, vars
<1>3. QED
  BY <1>1, <1>2, TypeCorrect, PTL DEF Spec

\* With every unit ready, a packet that is not bound to a unit leaves on
\* another unit than the one before.
THEOREM LoadIsSpread == Spec => SpreadWhenAllReady
<1> DEFINE Spread == /\ ready = Units
                     /\ out.unit # 0
                     /\ out'.kind \in {"opened", "reselected"}
                     => out'.unit # out.unit
<1>1. TypeOK /\ LastUnit /\ [Next]_vars => [Spread]_vars
  <2> SUFFICES ASSUME TypeOK, LastUnit, Next, ready = Units, out.unit # 0,
                      out'.kind \in {"opened", "reselected"}
               PROVE  out'.unit # out.unit
    OBVIOUS
  <2>1. out'.unit = Preferred
    BY OutcomeStep, UnitFacts DEF Selected, Preferred, Units
  <2>2. cntr = CntrOf(out.unit) /\ out.unit \in Units
    BY DEF LastUnit, TypeOK, Out
  <2>3. QED
    BY <2>1, <2>2 DEF Preferred, CntrOf, Units
<1>2. QED
  BY <1>1, TypeCorrect, LastUnitRemembered, PTL DEF Spec, SpreadWhenAllReady

-------------------------------------------------------------------------------
(* The table as a set of bindings *)

\* A binding is as old as its row, up to the expiry.
LEMMA BindingFacts ==
  ASSUME TypeOK, NEW row \in Row
  PROVE  /\ BindingOf(row).age \in 0 .. PmapTimeout
         /\ BindingOf(row).age < PmapTimeout <=> ~Expired(row)
         /\ ~Expired(row) => BindingOf(row).age = Elapsed(row.ts, now)
<1>1. Elapsed(row.ts, now) \in Nat
  BY ElapsedTick DEF TypeOK, Row
<1>2. QED
  BY <1>1, GatewayAssumption DEF BindingOf, Expired, IsTimeout

\* A row that is written anew is its binding used, on the unit of the row.
LEMMA UsedRow ==
  ASSUME TypeOK, NEW row \in Row, NEW new \in Row,
         Identity(new) = Identity(row), new.ts = now
  PROVE  BindingOf(new) = [Mapping!Used(BindingOf(row)) EXCEPT !.unit = new.uart]
<1>1. Elapsed(new.ts, now) = 0 /\ 0 < PmapTimeout
  BY ElapsedTick, GatewayAssumption DEF TypeOK
<1>2. /\ new.ip_protocol = row.ip_protocol /\ new.client_ip = row.client_ip
      /\ new.eth_port = row.eth_port /\ new.server_ip = row.server_ip
      /\ new.lte_port = row.lte_port
  BY DEF Identity
<1>3. BindingOf(new) =
        [protocol |-> row.ip_protocol, client |-> row.client_ip, eport |-> row.eth_port,
         server |-> row.server_ip, port |-> row.lte_port, unit |-> new.uart, age |-> 0]
  BY <1>1, <1>2 DEF BindingOf
<1>4. Mapping!Used(BindingOf(row)) =
        [protocol |-> row.ip_protocol, client |-> row.client_ip, eport |-> row.eth_port,
         server |-> row.server_ip, port |-> row.lte_port, unit |-> row.uart, age |-> 0]
  BY DEF BindingOf, Mapping!Used
<1>5. QED
  BY <1>3, <1>4

\* A binding that is used with its own unit is that binding used.
LEMMA UnitKept ==
  ASSUME NEW row
  PROVE  [Mapping!Used(BindingOf(row)) EXCEPT !.unit = row.uart]
           = Mapping!Used(BindingOf(row))
<1>1. Mapping!Used(BindingOf(row)) =
        [protocol |-> row.ip_protocol, client |-> row.client_ip, eport |-> row.eth_port,
         server |-> row.server_ip, port |-> row.lte_port, unit |-> row.uart, age |-> 0]
  BY DEF BindingOf, Mapping!Used
<1>2. QED
  BY <1>1

\* The bindings that are kept are those of the table after the collection.
LEMMA KeptIsCollected ==
  ASSUME TypeOK PROVE Mapping!Kept = Bindings(Gc(pmap))
<1>1. \A i \in Rows : pmap[i] \in Row
  BY DEF TypeOK
<1>2. \A i \in Rows : Live(pmap[i]) /\ ~Expired(pmap[i]) <=> Live(Gc(pmap)[i])
  BY <1>1, GcKeeps DEF TypeOK
<1>3. ASSUME NEW b \in Mapping!Kept PROVE b \in Bindings(Gc(pmap))
  <2>1. PICK i \in Rows : Live(pmap[i]) /\ b = BindingOf(pmap[i]) /\ b.age < PmapTimeout
    BY DEF Mapping!Kept, Bindings
  <2>2. Live(Gc(pmap)[i]) /\ Gc(pmap)[i] = pmap[i]
    BY <1>1, <1>2, <2>1, BindingFacts, GcKeeps DEF TypeOK
  <2>3. QED
    BY <2>1, <2>2 DEF Bindings
<1>4. ASSUME NEW b \in Bindings(Gc(pmap)) PROVE b \in Mapping!Kept
  <2>1. PICK i \in Rows : Live(Gc(pmap)[i]) /\ b = BindingOf(Gc(pmap)[i])
    BY DEF Bindings
  <2>2. Gc(pmap)[i] = pmap[i] /\ Live(pmap[i]) /\ ~Expired(pmap[i])
    BY <1>2, <2>1, GcKeeps DEF TypeOK
  <2>3. b.age < PmapTimeout
    BY <1>1, <2>1, <2>2, BindingFacts
  <2>4. QED
    BY <2>1, <2>2, <2>3 DEF Mapping!Kept, Bindings
<1>5. QED
  BY <1>3, <1>4

\* Different live rows are different bindings.
LEMMA BindingsDiffer ==
  ASSUME TypeOK, OneRowPerFlow, NEW i \in Rows, NEW j \in Rows, i # j,
         Live(pmap[i]), Live(pmap[j])
  PROVE  BindingOf(pmap[i]) # BindingOf(pmap[j])
<1>1. SUFFICES ASSUME BindingOf(pmap[i]) = BindingOf(pmap[j]) PROVE FALSE
  OBVIOUS
<1>2. /\ pmap[i].ip_protocol = pmap[j].ip_protocol
      /\ pmap[i].client_ip = pmap[j].client_ip
      /\ pmap[i].eth_port = pmap[j].eth_port
      /\ pmap[i].server_ip = pmap[j].server_ip
  BY <1>1 DEF BindingOf
<1>3. QED
  BY <1>2 DEF OneRowPerFlow

\* A handler collects, and then some rows R of the table are written.
LEMMA HandlerUpdates ==
  ASSUME TypeOK, OneRowPerFlow, now' = now, NEW R \in SUBSET Rows,
         \A i \in R : Live(pmap'[i]),
         \A i \in Rows \ R : pmap'[i] = Gc(pmap)[i]
  PROVE  Mapping!Update({BindingOf(Gc(pmap)[i]) : i \in {j \in R : Live(Gc(pmap)[j])}},
                        {BindingOf(pmap'[i]) : i \in R})
<1> DEFINE table == Gc(pmap)
           old == {BindingOf(table[i]) : i \in {j \in R : Live(table[j])}}
           new == {BindingOf(pmap'[i]) : i \in R}
<1>1. Bindings(pmap)' = Bindings(pmap')
  BY DEF Bindings, BindingOf
<1>2. \A i \in Rows : Live(table[i]) => table[i] = pmap[i] /\ Live(pmap[i])
  BY GcKeeps DEF TypeOK
<1>3. ASSUME NEW b \in Bindings(pmap') PROVE b \in (Bindings(table) \ old) \cup new
  <2>1. PICK i \in Rows : Live(pmap'[i]) /\ b = BindingOf(pmap'[i])
    BY DEF Bindings
  <2>2. CASE i \in R
    BY <2>1, <2>2
  <2>3. CASE i \notin R
    <3>1. pmap'[i] = table[i] /\ Live(table[i])
      BY <2>1, <2>3
    <3>2. b \notin old
      BY <1>2, <2>1, <2>3, <3>1, BindingsDiffer
    <3>3. QED
      BY <2>1, <3>1, <3>2 DEF Bindings
  <2>4. QED
    BY <2>2, <2>3
<1>4. ASSUME NEW b \in (Bindings(table) \ old) \cup new PROVE b \in Bindings(pmap')
  <2>1. CASE b \in new
    BY <2>1 DEF Bindings
  <2>2. CASE b \in Bindings(table) \ old
    <3>1. PICK i \in Rows : Live(table[i]) /\ b = BindingOf(table[i])
      BY <2>2 DEF Bindings
    <3>2. i \notin R
      BY <2>2, <3>1
    <3>3. QED
      BY <3>1, <3>2 DEF Bindings
  <2>3. QED
    BY <1>4, <2>1, <2>2
<1>5. QED
  BY <1>1, <1>3, <1>4, KeptIsCollected DEF Mapping!Update

\* A row that is found by a search is a binding that is kept.
LEMMA FoundIsKept ==
  ASSUME TypeOK, NEW i \in Rows, Live(Gc(pmap)[i])
  PROVE  /\ Gc(pmap)[i] \in Row
         /\ BindingOf(Gc(pmap)[i]) \in Mapping!Kept
  BY GcKeeps, KeptIsCollected DEF Bindings, TypeOK

\* A binding serves a flow if its row's columns are those that are compared.
LEMMA ServesFlow ==
  ASSUME NEW p \in Protocols, NEW c, NEW e, NEW s, NEW row
  PROVE  LET f == [protocol |-> p, client |-> c, eport |-> e, server |-> s]
             b == BindingOf(row)
         IN  /\ Mapping!SameSource(b, f) <=> /\ row.ip_protocol = p
                                             /\ row.client_ip = c
                                             /\ row.eth_port = e
             /\ Mapping!Serves(b, f) <=> /\ Mapping!SameSource(b, f)
                                         /\ p = Tcp => row.server_ip = s
  BY DEF BindingOf, Mapping!SameSource, Mapping!Serves, Mapping!Tcp, Tcp

\* A packet of a known TCP connection continues its binding.
LEMMA ContinueStep ==
  ASSUME TypeOK, OneRowPerFlow, NEW c \in Clients, NEW e \in EthPorts,
         NEW s \in Servers, KeepTcp(c, e, s)
  PROVE  Mapping!Continue([protocol |-> Tcp, client |-> c, eport |-> e, server |-> s])
<1> DEFINE table == Gc(pmap)
           f == [protocol |-> Tcp, client |-> c, eport |-> e, server |-> s]
<1>1. PICK i \in Rows, j \in Rows :
        /\ i \in ForTcp(table, c, s, e)
        /\ j \in ByClient(table, Tcp, c, e)
        /\ pmap' = Touch(Touch(table, i), j)
        /\ now' = now
  BY DEF KeepTcp, IsFirst
<1>2. /\ table \in [Rows -> Row] /\ now \in Clock
      /\ table[i].ip_protocol = Tcp /\ table[i].client_ip = c
      /\ table[i].eth_port = e /\ table[i].server_ip = s
      /\ table[j].ip_protocol = Tcp /\ table[j].client_ip = c
      /\ table[j].eth_port = e
      /\ Tcp \in Protocols
  BY <1>1, GcKeeps DEF ForTcp, ByClient, TypeOK, Protocols
<1>3. Live(table[i]) /\ Live(table[j])
  BY <1>2 DEF Live, Tcp
<1> DEFINE one == Touch(table, i)
<1>4. /\ one \in [Rows -> Row]
      /\ \A k \in Rows : one[k] = IF k = i THEN [table[k] EXCEPT !.ts = now] ELSE table[k]
      /\ pmap' \in [Rows -> Row]
      /\ \A k \in Rows : pmap'[k] = IF k = j THEN [one[k] EXCEPT !.ts = now] ELSE one[k]
  <2>1. /\ one \in [Rows -> Row]
        /\ \A k \in Rows : one[k] = IF k = i THEN [table[k] EXCEPT !.ts = now] ELSE table[k]
    BY <1>2, TouchKeeps
  <2>2. pmap' = Touch(one, j)
    BY <1>1
  <2> HIDE DEF one
  <2>3. /\ Touch(one, j) \in [Rows -> Row]
        /\ \A k \in Rows : Touch(one, j)[k] =
                              IF k = j THEN [one[k] EXCEPT !.ts = now] ELSE one[k]
    BY <1>2, <2>1, TouchKeeps
  <2>4. QED
    BY <2>1, <2>2, <2>3
<1>5. \A k \in {i, j} : /\ pmap'[k].ts = now
                        /\ Identity(pmap'[k]) = Identity(table[k])
                        /\ pmap'[k].uart = table[k].uart
                        /\ Live(pmap'[k])
  <2>1. ASSUME NEW k \in {i, j} PROVE pmap'[k] = [table[k] EXCEPT !.ts = now]
    BY <1>2, <1>4 DEF Row
  <2>2. QED
    BY <1>2, <1>3, <2>1 DEF Row, Identity, Live
<1>6. \A k \in {i, j} : BindingOf(pmap'[k]) = Mapping!Used(BindingOf(table[k]))
  <2>1. ASSUME NEW k \in {i, j}
        PROVE  BindingOf(pmap'[k]) = Mapping!Used(BindingOf(table[k]))
    <3>1. BindingOf(pmap'[k]) =
            [Mapping!Used(BindingOf(table[k])) EXCEPT !.unit = table[k].uart]
      BY <1>2, <1>4, <1>5, UsedRow
    <3>2. QED
      BY <3>1, UnitKept
  <2>2. QED
    BY <2>1
<1> HIDE DEF one
<1>7. \A k \in Rows \ {i, j} : pmap'[k] = table[k]
  BY <1>4
<1>8. Mapping!Update({BindingOf(table[k]) : k \in {n \in {i, j} : Live(table[n])}},
                     {BindingOf(pmap'[k]) : k \in {i, j}})
  BY <1>1, <1>5, <1>7, HandlerUpdates
<1> DEFINE b == BindingOf(table[i])
           other == BindingOf(table[j])
<1>9. /\ {BindingOf(table[k]) : k \in {n \in {i, j} : Live(table[n])}} = {b, other}
      /\ {BindingOf(pmap'[k]) : k \in {i, j}} = {Mapping!Used(b), Mapping!Used(other)}
  BY <1>3, <1>6
<1>10. b \in Mapping!Kept /\ other \in Mapping!Kept
  BY <1>3, FoundIsKept
<1>11. Mapping!Serves(b, f) /\ Mapping!SameSource(other, f)
  BY <1>2, ServesFlow
<1> HIDE DEF b, other, table
<1>12. f.protocol = Mapping!Tcp
  BY DEF Mapping!Tcp, Tcp
<1>13. QED
  BY <1>8, <1>9, <1>10, <1>11, <1>12 DEF Mapping!Continue

\* There are as many bindings as live rows.
LEMMA CountBindings ==
  ASSUME TypeOK, OneRowPerFlow
  PROVE  /\ Empty(Gc(pmap)) # {} => Cardinality(Mapping!Kept) < MaxRows
         /\ Empty(Gc(pmap)) = {} => Cardinality(Mapping!Kept) = MaxRows
<1> DEFINE table == Gc(pmap)
           L == {j \in Rows : Live(table[j])}
           B == Bindings(table)
           g == [i \in L |-> BindingOf(table[i])]
<1>1. \A i \in L : table[i] = pmap[i] /\ Live(pmap[i])
  BY GcKeeps DEF TypeOK
<1>2. g \in Surjection(L, B)
  BY DEF Surjection, Bindings
<1>3. g \in Injection(L, B)
  <2>1. \A i, j \in L : i # j => g[i] # g[j]
    BY <1>1, BindingsDiffer
  <2>2. g \in [L -> B] /\ DOMAIN g = L
    BY <1>2 DEF Surjection
  <2> HIDE DEF g, L, B
  <2>3. QED
    BY <2>1, <2>2 DEF Injection, IsInjective
<1>4. IsFiniteSet(Rows) /\ Cardinality(Rows) = MaxRows
  BY GatewayAssumption, FS_Interval DEF Rows
<1>5. /\ IsFiniteSet(L) /\ Cardinality(L) \in Nat
      /\ Cardinality(L) <= Cardinality(Rows)
      /\ Cardinality(Rows) = Cardinality(L) => Rows = L
  <2>1. L \in SUBSET Rows
    OBVIOUS
  <2> HIDE DEF L
  <2>2. QED
    BY <1>4, <2>1, FS_Subset, FS_CardinalityType
<1>6. Cardinality(B) = Cardinality(L)
  <2> HIDE DEF g, L, B
  <2>1. QED
    BY <1>2, <1>3, <1>5, FS_Surjection
<1>7. Empty(table) = Rows \ L
  BY DEF Empty
<1>8. Cardinality(B) < MaxRows <=> Empty(table) # {}
  <2>1. L \subseteq Rows
    OBVIOUS
  <2>2. Cardinality(B) = MaxRows <=> Rows = L
    BY <1>4, <1>5, <1>6
  <2> HIDE DEF L, B, table
  <2>3. QED
    BY <1>4, <1>5, <1>6, <1>7, <2>1, <2>2, GatewayAssumption
<1>9. Empty(table) = {} => Rows = L
  BY <1>7
<1>10. B = Mapping!Kept
  BY KeptIsCollected
<1> HIDE DEF L, B, table
<1>11. QED
  BY <1>4, <1>6, <1>8, <1>9, <1>10 DEF table

\* A packet of another known flow repeats its binding, on some unit.
LEMMA RepeatStep ==
  ASSUME TypeOK, OneRowPerFlow, NEW p \in Protocols, NEW c \in Clients,
         NEW e \in EthPorts, NEW s \in Servers, Reselect(p, c, e, s)
  PROVE  Mapping!Repeat([protocol |-> p, client |-> c, eport |-> e, server |-> s])
<1> DEFINE table == Gc(pmap)
           f == [protocol |-> p, client |-> c, eport |-> e, server |-> s]
<1>1. PICK i \in Rows :
        /\ p # Tcp
        /\ i \in ByClient(table, p, c, e)
        /\ \/ pmap' = [Touch(table, i) EXCEPT ![i].uart = Selected]
           \/ pmap' = Touch(table, i)
        /\ now' = now
  BY DEF Reselect, IsFirst
<1>2. /\ table \in [Rows -> Row] /\ now \in Clock
      /\ table[i].ip_protocol = p /\ table[i].client_ip = c
      /\ table[i].eth_port = e /\ Live(table[i])
  BY <1>1, GcKeeps DEF ByClient, TypeOK, Protocols, Live, Icmp, Tcp, Udp
<1> DEFINE one == Touch(table, i)
<1>3. /\ one \in [Rows -> Row]
      /\ \A k \in Rows : one[k] = IF k = i THEN [table[k] EXCEPT !.ts = now] ELSE table[k]
  BY <1>2, TouchKeeps
<1>4. PICK u \in Units \cup {table[i].uart} :
        /\ pmap'[i] = [one[i] EXCEPT !.uart = u]
        /\ \A k \in Rows : k # i => pmap'[k] = table[k]
  <2> HIDE DEF one, table
  <2>1. CASE pmap' = [one EXCEPT ![i].uart = Selected]
    BY <1>3, <2>1, UnitFacts
  <2>2. CASE pmap' = one
    <3>1. one[i].uart = table[i].uart
      BY <1>2, <1>3 DEF Row
    <3>2. one[i] = [one[i] EXCEPT !.uart = table[i].uart]
      BY <1>3, <3>1 DEF Row
    <3>3. QED
      BY <1>3, <2>2, <3>2
  <2>3. QED
    BY <1>1, <2>1, <2>2 DEF one
<1>5. /\ pmap'[i] \in Row
      /\ pmap'[i].ts = now /\ pmap'[i].uart = u
      /\ Identity(pmap'[i]) = Identity(table[i])
      /\ Live(pmap'[i])
  BY <1>2, <1>3, <1>4 DEF Row, Identity, Live
<1> HIDE DEF one, table
<1>6. BindingOf(pmap'[i]) = [Mapping!Used(BindingOf(table[i])) EXCEPT !.unit = u]
  BY <1>2, <1>5, UsedRow
<1>7. Mapping!Update({BindingOf(table[k]) : k \in {n \in {i} : Live(table[n])}},
                     {BindingOf(pmap'[k]) : k \in {i}})
  BY <1>1, <1>4, <1>5, HandlerUpdates DEF table
<1> DEFINE b == BindingOf(table[i])
<1>8. /\ {BindingOf(table[k]) : k \in {n \in {i} : Live(table[n])}} = {b}
      /\ {BindingOf(pmap'[k]) : k \in {i}} = {[Mapping!Used(b) EXCEPT !.unit = u]}
  BY <1>2, <1>6
<1>9. b \in Mapping!Kept
  BY <1>2, FoundIsKept DEF table
<1>10. Mapping!Serves(b, f)
  BY <1>1, <1>2, ServesFlow
<1>11. f.protocol # Mapping!Tcp /\ u \in Units \cup {b.unit}
  BY <1>1 DEF Mapping!Tcp, Tcp, BindingOf
<1> HIDE DEF b
<1>12. QED
  BY <1>7, <1>8, <1>9, <1>10, <1>11 DEF Mapping!Repeat

\* A packet of the server that finds a row answers to its binding.
LEMMA AnswerStep ==
  ASSUME TypeOK, OneRowPerFlow, NEW p \in Protocols, NEW s, NEW l, Deliver(p, s, l)
  PROVE  Mapping!Answer
<1> DEFINE table == Gc(pmap)
<1>1. PICK i \in Rows : /\ i \in ByServer(table, p, s, l)
                        /\ pmap' = Touch(table, i)
                        /\ now' = now
  BY DEF Deliver, IsFirst
<1>2. table \in [Rows -> Row] /\ now \in Clock /\ Live(table[i])
  BY <1>1, GcKeeps DEF ByServer, TypeOK, Protocols, Live, Icmp, Tcp, Udp
<1>3. /\ pmap' \in [Rows -> Row]
      /\ \A k \in Rows : pmap'[k] = IF k = i THEN [table[k] EXCEPT !.ts = now] ELSE table[k]
  BY <1>1, <1>2, TouchKeeps
<1> HIDE DEF table
<1>4. /\ pmap'[i].ts = now /\ pmap'[i].uart = table[i].uart
      /\ Identity(pmap'[i]) = Identity(table[i])
      /\ Live(pmap'[i])
  BY <1>2, <1>3 DEF Row, Identity, Live
<1>5. BindingOf(pmap'[i]) = Mapping!Used(BindingOf(table[i]))
  <2>1. BindingOf(pmap'[i])
          = [Mapping!Used(BindingOf(table[i])) EXCEPT !.unit = table[i].uart]
    BY <1>2, <1>3, <1>4, UsedRow
  <2>2. QED
    BY <2>1, UnitKept
<1>6. Mapping!Update({BindingOf(table[k]) : k \in {n \in {i} : Live(table[n])}},
                     {BindingOf(pmap'[k]) : k \in {i}})
  BY <1>1, <1>3, <1>4, HandlerUpdates DEF table
<1> DEFINE b == BindingOf(table[i])
<1>7. /\ {BindingOf(table[k]) : k \in {n \in {i} : Live(table[n])}} = {b}
      /\ {BindingOf(pmap'[k]) : k \in {i}} = {Mapping!Used(b)}
  BY <1>2, <1>5
<1>8. b \in Mapping!Kept
  BY <1>2, FoundIsKept DEF table
<1> HIDE DEF b
<1>9. QED
  BY <1>6, <1>7, <1>8 DEF Mapping!Answer

\* A handler that only collects.
LEMMA CollectStep ==
  ASSUME TypeOK, OneRowPerFlow, pmap' = Gc(pmap), now' = now
  PROVE  Mapping!Collect
<1>1. Mapping!Update({BindingOf(Gc(pmap)[k]) : k \in {n \in {} : Live(Gc(pmap)[n])}},
                     {BindingOf(pmap'[k]) : k \in {}})
  BY HandlerUpdates
<1>2. QED
  BY <1>1 DEF Mapping!Collect

\* The search for a flow's row finds none: no binding that is kept serves it.
LEMMA UnknownIsUnbound ==
  ASSUME TypeOK, NEW p \in Protocols, NEW c, NEW e, NEW s,
         Known(Gc(pmap), p, c, e, s) = {}
  PROVE  Mapping!Unbound([protocol |-> p, client |-> c, eport |-> e, server |-> s])
<1> DEFINE f == [protocol |-> p, client |-> c, eport |-> e, server |-> s]
<1>1. ASSUME NEW b \in Mapping!Kept, Mapping!Serves(b, f) PROVE FALSE
  <2>1. PICK i \in Rows : b = BindingOf(Gc(pmap)[i])
    BY KeptIsCollected DEF Bindings
  <2>2. /\ Gc(pmap)[i].ip_protocol = p /\ Gc(pmap)[i].client_ip = c
        /\ Gc(pmap)[i].eth_port = e
        /\ p = Tcp => Gc(pmap)[i].server_ip = s
    BY <1>1, <2>1, ServesFlow
  <2>3. i \in ByClient(Gc(pmap), p, c, e)
    BY <2>1, <2>2 DEF ByClient
  <2>4. i \in Known(Gc(pmap), p, c, e, s)
    BY <2>1, <2>2, <2>3 DEF Known, ForTcp
  <2>5. QED
    BY <2>4
<1>2. QED
  BY <1>1 DEF Mapping!Unbound

\* PortMapping counts as the table does.
LEMMA SameCardinality ==
  \A S : Mapping!Cardinality(S) = Cardinality(S)
BY DEF Mapping!Cardinality, Cardinality, Mapping!IsFiniteSet, IsFiniteSet

\* The first packet of a flow binds it to a port that no binding has.
LEMMA BindStep ==
  ASSUME TypeOK, OneRowPerFlow, NEW p \in Protocols, NEW c \in Clients,
         NEW e \in EthPorts, NEW s \in Servers, Open(p, c, e, s)
  PROVE  Mapping!Bind([protocol |-> p, client |-> c, eport |-> e, server |-> s])
<1> DEFINE table == Gc(pmap)
           f == [protocol |-> p, client |-> c, eport |-> e, server |-> s]
<1>1. PICK k \in 1 .. PortSpan, i \in Rows :
        /\ Base(p) + Probe(k) \notin Taken(table, p)
        /\ i \in Empty(table)
        /\ pmap' = [table EXCEPT ![i] =
                      [ip_protocol |-> p, client_ip |-> c, eth_port |-> e,
                       server_ip |-> s, lte_port |-> Base(p) + Probe(k),
                       uart |-> Selected, ts |-> now]]
        /\ now' = now
  BY DEF Open, IsNextSeq, IsFirst
<1> DEFINE port == Base(p) + Probe(k)
           row == [ip_protocol |-> p, client_ip |-> c, eth_port |-> e, server_ip |-> s,
                   lte_port |-> port, uart |-> Selected, ts |-> now]
           b == [protocol |-> p, client |-> c, eport |-> e, server |-> s,
                 port |-> port, unit |-> Selected, age |-> 0]
<1>2. Probe(k) \in 0 .. PortSpan - 1
  BY ProbeInRange, SpanPositive DEF TypeOK
<1>3. table \in [Rows -> Row] /\ ~Live(table[i]) /\ now \in Clock
  BY <1>1, GcKeeps DEF Empty, TypeOK
<1>4. pmap'[i] = row /\ \A n \in Rows \ {i} : pmap'[n] = table[n]
  BY <1>1, <1>3
<1>5. Live(row)
  BY DEF Live, Protocols, Icmp, Tcp, Udp
<1>6. BindingOf(row) = b
  <2>1. Elapsed(now, now) = 0
    BY <1>3, ElapsedTick
  <2>2. 0 < PmapTimeout /\ Elapsed(row.ts, now) = 0
    BY <2>1, GatewayAssumption
  <2>3. QED
    BY <2>2 DEF BindingOf
<1> HIDE DEF table, row
<1>7. Mapping!Update({BindingOf(table[n]) : n \in {m \in {i} : Live(table[m])}},
                     {BindingOf(pmap'[n]) : n \in {i}})
  BY <1>1, <1>4, <1>5, HandlerUpdates DEF table
<1>8. /\ {BindingOf(table[n]) : n \in {m \in {i} : Live(table[m])}} = {}
      /\ {BindingOf(pmap'[n]) : n \in {i}} = {b}
  BY <1>3, <1>4, <1>6
<1>9. Mapping!Unbound(f)
  BY UnknownIsUnbound DEF Open
<1>10. Cardinality(Mapping!Kept) < MaxRows
  BY <1>1, CountBindings DEF table
<1>11. port \in PortsFor(p)
  BY <1>2 DEF PortsFor
<1>12. port \notin Mapping!Bound(p)
  <2>1. SUFFICES ASSUME NEW k2 \in Mapping!Kept, k2.port = port,
                        (k2.protocol = Mapping!Icmp) <=> (p = Mapping!Icmp)
                 PROVE  FALSE
    BY DEF Mapping!Bound
  <2>2. PICK j \in Rows : Live(table[j]) /\ k2 = BindingOf(table[j])
    BY KeptIsCollected DEF Bindings, table
  <2>3. table[j].lte_port = port /\ SameClass(table[j].ip_protocol, p)
    BY <2>1, <2>2 DEF BindingOf, SameClass, Mapping!Icmp, Icmp
  <2>4. QED
    BY <1>1, <2>2, <2>3 DEF Taken
<1>13. /\ f.protocol = p /\ f.client = c /\ f.eport = e /\ f.server = s
       /\ [q \in Protocols |-> PortsFor(q)][p] = PortsFor(p)
  OBVIOUS
<1>14. Mapping!Update({}, {[protocol |-> f.protocol, client |-> f.client,
                            eport |-> f.eport, server |-> f.server,
                            port |-> port, unit |-> Selected, age |-> 0]})
  BY <1>7, <1>8, <1>13
<1>15. port \in [q \in Protocols |-> PortsFor(q)][f.protocol] \ Mapping!Bound(f.protocol)
  BY <1>11, <1>12, <1>13
<1>16. Mapping!Cardinality(Mapping!Kept) < MaxRows
  BY <1>10, SameCardinality
<1> HIDE DEF port, f
<1>17. Mapping!Bind(f)
  BY <1>9, <1>14, <1>15, <1>16, UnitFacts DEF Mapping!Bind
<1>18. QED
  BY <1>17 DEF f

\* The restart on a full table forgets every binding.
LEMMA OverflowStep ==
  ASSUME TypeOK, OneRowPerFlow, NEW p \in Protocols, NEW c \in Clients,
         NEW e \in EthPorts, NEW s \in Servers, Panic(p, c, e, s)
  PROVE  Mapping!Overflow([protocol |-> p, client |-> c, eport |-> e, server |-> s])
<1>1. Cardinality(Mapping!Kept) = MaxRows
  BY CountBindings DEF Panic
<1>2. Bindings(pmap)' = {}
  BY BlankIsRow DEF Panic, Bindings, Live, Blank
<1>3. Mapping!Unbound([protocol |-> p, client |-> c, eport |-> e, server |-> s])
  BY UnknownIsUnbound DEF Panic
<1>4. QED
  BY <1>1, <1>2, <1>3, SameCardinality DEF Mapping!Overflow

\* Behind the last reading of a turn of the clock an age starts again.
LEMMA ElapsedTurn ==
  ASSUME NEW s \in Clock, NEW c \in Clock, Elapsed(s, c) = ClockMod - 1
  PROVE  Elapsed(s, NextTick(c)) = 0
  BY ClockModAssumption DEF Clock, NextTick, Elapsed

\* The tick of the clock ages the bindings; those at the end of its turn return.
LEMMA PassStep ==
  ASSUME TypeOK, OneRowPerFlow, Tick
  PROVE  Mapping!Pass
<1> DEFINE L == {i \in Rows : Live(pmap[i])}
           b(i) == BindingOf(pmap[i])
           back == {b(i) : i \in {j \in L : Elapsed(pmap[j].ts, now) = ClockMod - 1}}
<1>1. pmap' = pmap /\ now' = NextTick(now) /\ now \in Clock /\ now' \in Clock
  BY ElapsedTick DEF Tick, TypeOK
<1>2. \A i \in L : pmap[i] \in Row /\ pmap[i].ts \in Clock
  BY DEF TypeOK, Row
<1>3. ASSUME NEW i \in L
      PROVE  BindingOf(pmap[i])' = Mapping!Aged(b(i), back)
  <2> DEFINE e == Elapsed(pmap[i].ts, now)
             e1 == Elapsed(pmap[i].ts, now')
  <2>1. e \in 0 .. ClockMod - 1 /\ e1 \in Nat
    BY <1>1, <1>2, ElapsedTick DEF Clock
  <2>2. e + 1 < ClockMod => e1 = e + 1
    BY <1>1, <1>2, ElapsedTick
  <2>3. e = ClockMod - 1 => e1 = 0
    BY <1>1, <1>2, ElapsedTurn
  <2>4. b(i) \in back <=> e = ClockMod - 1
    BY BindingsDiffer
  <2>5. b(i).age = IF e < PmapTimeout THEN e ELSE PmapTimeout
    BY DEF BindingOf
  <2>6. BindingOf(pmap[i])' =
          [b(i) EXCEPT !.age = IF e1 < PmapTimeout THEN e1 ELSE PmapTimeout]
    BY <1>1 DEF BindingOf
  <2> HIDE DEF e, e1, back
  <2>7. CASE e < PmapTimeout
    <3>1. b(i).age = e /\ e1 = e + 1
      BY <2>1, <2>2, <2>5, <2>7, GatewayAssumption, ClockModAssumption
    <3>2. (IF e1 < PmapTimeout THEN e1 ELSE PmapTimeout) = b(i).age + 1
      BY <2>1, <2>7, <3>1, GatewayAssumption
    <3>3. QED
      BY <2>6, <2>7, <3>1, <3>2 DEF Mapping!Aged
  <2>8. CASE e >= PmapTimeout
    <3>1. b(i).age = PmapTimeout
      BY <2>1, <2>5, <2>8, GatewayAssumption
    <3>2. (IF e1 < PmapTimeout THEN e1 ELSE PmapTimeout)
            = IF b(i) \in back THEN 0 ELSE PmapTimeout
      BY <2>1, <2>2, <2>3, <2>4, <2>8, GatewayAssumption, ClockModAssumption
    <3>3. ~(b(i).age < PmapTimeout)
      BY <3>1, GatewayAssumption
    <3>4. QED
      BY <2>6, <3>2, <3>3 DEF Mapping!Aged
  <2>9. QED
    BY <2>1, <2>7, <2>8, GatewayAssumption
<1>4. Bindings(pmap)' = {BindingOf(pmap[i])' : i \in L}
  BY <1>1 DEF Bindings
<1>5. Bindings(pmap) = {b(i) : i \in L}
  BY DEF Bindings
<1>6. Bindings(pmap)' = {Mapping!Aged(x, back) : x \in Bindings(pmap)}
  <2> HIDE DEF b, back, L
  <2>1. \A i \in L : BindingOf(pmap[i])' = Mapping!Aged(b(i), back)
    BY <1>3
  <2>2. QED
    BY <1>4, <1>5, <2>1
<1>7. back \in SUBSET (Bindings(pmap) \ Mapping!Kept)
  <2>1. SUFFICES ASSUME NEW i \in L, Elapsed(pmap[i].ts, now) = ClockMod - 1
                 PROVE  b(i) \in Bindings(pmap) \ Mapping!Kept
    OBVIOUS
  <2>2. Expired(pmap[i])
    BY <2>1, GatewayAssumption, ClockModAssumption DEF Expired, IsTimeout
  <2>3. ~(b(i).age < PmapTimeout)
    BY <1>2, <2>2, BindingFacts
  <2>4. QED
    BY <1>5, <2>3 DEF Mapping!Kept
<1> HIDE DEF back
<1>8. QED
  BY <1>6, <1>7 DEF Mapping!Pass

\* The port map is the set of bindings that PortMapping describes, for every size
\* of the table, every range of ports, every expiry and clock: each step of the
\* gateway is a step of the bindings or leaves them alone.
THEOREM TableIsMapping == Spec => IsPortMapping
<1>1. Init => Mapping!Init
  BY BlankIsRow DEF Init, Mapping!Init, Bindings
<1>2. TypeOK /\ OneRowPerFlow /\ [Next]_vars => [Mapping!Next]_(Bindings(pmap))
  <2> SUFFICES ASSUME TypeOK, OneRowPerFlow, [Next]_vars
               PROVE  Mapping!Next \/ Bindings(pmap)' = Bindings(pmap)
    OBVIOUS
  <2>1. ASSUME NEW p \in Protocols, NEW c \in Clients, NEW e \in EthPorts,
               NEW s \in Servers, Uplink(p, c, e, s),
               [protocol |-> p, client |-> c, eport |-> e, server |-> s] \in Traffic
        PROVE  Mapping!Next
    <3> DEFINE f == [protocol |-> p, client |-> c, eport |-> e, server |-> s]
    <3>1. CASE p = Tcp /\ KeepTcp(c, e, s)
      BY <2>1, <3>1, ContinueStep DEF Mapping!Next
    <3>2. CASE Reselect(p, c, e, s)
      BY <2>1, <3>2, RepeatStep DEF Mapping!Next
    <3>3. CASE Open(p, c, e, s)
      BY <2>1, <3>3, BindStep DEF Mapping!Next
    <3>4. CASE OpenFails(p, c, e, s)
      BY <3>4, CollectStep DEF OpenFails, Mapping!Next
    <3>5. CASE Panic(p, c, e, s)
      BY <2>1, <3>5, OverflowStep DEF Mapping!Next
    <3>6. QED
      BY <2>1, <3>1, <3>2, <3>3, <3>4, <3>5 DEF Uplink
  <2>2. CASE Downlink
    <3>1. CASE Refuse
      BY <3>1, CollectStep DEF Refuse, Mapping!Next
    <3>2. ASSUME NEW i \in Rows, Live(pmap[i]),
                 Deliver(pmap[i].ip_protocol, pmap[i].server_ip, pmap[i].lte_port)
          PROVE  Mapping!Next
      <4>1. pmap[i].ip_protocol \in Protocols
        BY <3>2 DEF TypeOK, Row, Live
      <4>2. QED
        BY <3>2, <4>1, AnswerStep DEF Mapping!Next
    <3>3. QED
      BY <2>2, <3>1, <3>2 DEF Downlink
  <2>3. CASE Tick
    BY <2>3, PassStep DEF Mapping!Next
  <2>4. CASE IgnoreIcmp \/ LineChange \/ UNCHANGED vars
    BY <2>4 DEF IgnoreIcmp, LineChange, vars, Bindings, BindingOf
  <2>5. QED
    BY <2>1, <2>2, <2>3, <2>4, NextCases
<1>3. QED
  BY <1>1, <1>2, TypeCorrect, FlowsStayUnique, PTL DEF Spec, IsPortMapping, Mapping!Spec

===============================================================================
