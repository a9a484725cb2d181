----------------------------- MODULE NatGateway -----------------------------
(***************************************************************************)
(* The address and port translation of the ESP32: hosts on the Ethernet    *)
(* side share three LTE units.  Uplink packets are handled one at a time   *)
(* by task_gw_uart_tx (gw_uart.cpp), which finds or opens a row of the     *)
(* port map (hdr_portmap.cpp) and picks the LTE unit that carries the      *)
(* packet; downlink packets are handled by forward_downlink_packet         *)
(* (gw_eth.cpp), which looks the row up by server and port and restores    *)
(* the host's address and port.                                            *)
(*                                                                         *)
(* Each handler is one action, and the clock is read once in it: the       *)
(* collection of expired rows that every search and every insertion starts *)
(* with is then the same collection.  The status lines are read together.  *)
(*                                                                         *)
(* `due' and `out' are observations: the requests a reply can still be     *)
(* expected for, and what became of the packet of the last step.           *)
(***************************************************************************)
EXTENDS Timeout, FiniteSets

CONSTANTS
  Clients,        \* hosts on the Ethernet side (source addresses)
  EthPorts,       \* their source ports, or ICMP echo identifiers
  Servers,        \* hosts on the LTE side
  Traffic,        \* the flows that the hosts' packets belong to
  MaxRows,        \* MAX_PMAP_ROWS, 1800 in the code
  PortsPerRow,    \* factor of the port range, 4 in the code
  PortBase,       \* PMAP_BASE_PORT, 32768 in the code
  PmapTimeout,    \* PMAP_TIMEOUT_MS, 20000 in the code
  ReadySets,      \* the sets of LTE units whose status line may be low
  MaxDue          \* bound on the number of requests that are observed

Units == 1 .. 3                     \* GW_UART1, GW_UART2, GW_UART3

ASSUME GatewayAssumption ==
  /\ MaxRows \in Nat \ {0}
  /\ PortsPerRow \in Nat \ {0}
  /\ PortBase \in Nat \ {0}
  /\ PmapTimeout \in Nat \ {0}
  /\ PmapTimeout < ClockMod         \* 20 s against a turn of 49.7 days
  /\ ReadySets \subseteq SUBSET Units
  /\ ReadySets # {}
  /\ MaxDue \in Nat

\* Hosts and servers have addresses other than 0.0.0.0.
ASSUME AddressAssumption == 0 \notin Clients /\ 0 \notin Servers

Icmp == 1
Tcp  == 6
Udp  == 17
Protocols == {Icmp, Tcp, Udp}

Flow == [protocol : Protocols, client : Clients, eport : EthPorts,
         server : Servers]

ASSUME TrafficAssumption == Traffic \subseteq Flow

VARIABLES
  pmap,           \* the table: row number -> row
  port_seq,       \* the generator's last value
  cntr,           \* remembers the unit of the last packet, 0 after start
  ready,          \* units whose status line is low
  now,            \* millis()
  due,            \* requests sent less than PmapTimeout ago
  out             \* what the last step did with an uplink packet

vars == <<pmap, port_seq, cntr, ready, now, due, out>>

-------------------------------------------------------------------------------
(* Rows *)

Rows == 1 .. MaxRows

\* Faulty: the range holds no more ports than the table has rows.
PortSpan_NoSpare == MaxRows

\* port_seq runs through 0 .. PortsPerRow * MaxRows.
PortSpan == PortsPerRow * MaxRows + 1

\* ICMP identifiers are taken from the bottom of the range, ports from
\* PortBase up: ICMP has its own generator.
Base(protocol) == IF protocol = Icmp THEN 0 ELSE PortBase

LtePorts == (0 .. PortSpan - 1) \cup (PortBase .. PortBase + PortSpan - 1)

Row == [ip_protocol : Protocols \cup {0}, client_ip : Clients \cup {0},
        eth_port : EthPorts \cup {0}, server_ip : Servers \cup {0},
        lte_port : LtePorts, uart : Units \cup {0}, ts : Clock]

Live(row) == row.ip_protocol # 0

\* The time stamp of a row that is given up stays behind.
Cleared(row) == [ip_protocol |-> 0, client_ip |-> 0, eth_port |-> 0,
                 server_ip |-> 0, lte_port |-> 0, uart |-> 0, ts |-> row.ts]

\* Faulty: one unit too early.
Expired_Early(row) == IsTimeout(PmapTimeout - 1, row.ts, now)

Expired(row) == IsTimeout(PmapTimeout, row.ts, now)

Gc(table) == [i \in Rows |-> IF Live(table[i]) /\ Expired(table[i])
                             THEN Cleared(table[i]) ELSE table[i]]

Touch(table, i) == [table EXCEPT ![i].ts = now]

ByServer(table, protocol, server, lport) ==
  {i \in Rows : /\ table[i].ip_protocol = protocol
                /\ table[i].server_ip = server
                /\ table[i].lte_port = lport}

ByClient(table, protocol, client, eport) ==
  {i \in Rows : /\ table[i].ip_protocol = protocol
                /\ table[i].client_ip = client
                /\ table[i].eth_port = eport}

\* Faulty: connections on a unit that is down are not found, or the server
\* is not compared.
ForTcp_OnReadyUnit(table, client, server, eport) ==
  {i \in ByClient(table, Tcp, client, eport) :
     table[i].server_ip = server /\ table[i].uart \in ready}

ForTcp_AnyServer(table, client, server, eport) ==
  ByClient(table, Tcp, client, eport)

ForTcp(table, client, server, eport) ==
  {i \in ByClient(table, Tcp, client, eport) : table[i].server_ip = server}

Empty(table) == {i \in Rows : ~Live(table[i])}

\* Every search is a scan from row 0 that stops at the first hit.
IsFirst(i, rows) == i \in rows /\ \A j \in rows : i <= j

SameClass(p, q) == (p = Icmp) <=> (q = Icmp)

\* Faulty: TCP and UDP do not step over each other's ports, or no port is
\* stepped over.
Taken_SameProtocol(table, protocol) ==
  {table[i].lte_port : i \in {j \in Rows : table[j].ip_protocol = protocol}}

Taken_Never(table, protocol) == {}

\* Ports that the generator for this protocol has to step over.
Taken(table, protocol) ==
  {table[i].lte_port : i \in
     {j \in Rows : Live(table[j]) /\ SameClass(table[j].ip_protocol, protocol)}}

\* Faulty: the sequence does not wrap.
Probe_NoWrap(k) == port_seq + k

Probe(k) == (port_seq + k) % PortSpan

\* The k-th probe is the first one that no row holds.
IsNextSeq(k, table, protocol) ==
  /\ Base(protocol) + Probe(k) \notin Taken(table, protocol)
  /\ \A j \in 1 .. k - 1 : Base(protocol) + Probe(j) \in Taken(table, protocol)

-------------------------------------------------------------------------------
(* LTE units *)

Preferred == IF cntr % 3 = 0 THEN 3 ELSE IF cntr % 3 = 2 THEN 2 ELSE 1

\* Faulty: the tries never come to unit 2.
Rotate_TwoUnits(u) == IF u = 3 THEN 1 ELSE 3

Rotate(u) == IF u = 3 THEN 1 ELSE IF u = 2 THEN 3 ELSE 2

\* A packet that is not bound to a unit is dropped when none of three tries
\* finds a low status line.
SomeTryReady ==
  {Preferred, Rotate(Preferred), Rotate(Rotate(Preferred))} \cap ready # {}

\* The unit for a packet that is not bound to one.  If the preferred unit is
\* not ready, the one used is the one after the first that is.
Selected ==
  LET other == Rotate(Preferred)
  IN  IF Preferred \in ready THEN Preferred
      ELSE IF other \in ready THEN Rotate(other)
      ELSE Rotate(Rotate(other))

\* Faulty: the unit is not remembered.
CntrOf_Stuck(u) == 0

CntrOf(u) == IF u = 3 THEN 2 ELSE IF u = 2 THEN 1 ELSE 0

-------------------------------------------------------------------------------
(* Observations *)

Request == [protocol : Protocols, client : Clients, eport : EthPorts,
            server : Servers, lport : LtePorts, age : 0 .. PmapTimeout - 1]

SameFlow(q, r) == /\ q.protocol = r.protocol /\ q.client = r.client
                  /\ q.eport = r.eport /\ q.server = r.server

\* The packet leaves on a unit with the port of its row; its reply may be
\* waited for, or the packet or its reply is lost.
Send(kind, unit, protocol, c, e, s, lport) ==
  LET q    == [protocol |-> protocol, client |-> c, eport |-> e,
               server |-> s, lport |-> lport, age |-> 0]
      rest == {r \in due : ~SameFlow(q, r)}
  IN  /\ out' = [kind |-> kind, unit |-> unit]
      /\ \/ due' = rest
         \/ due' = rest \cup {q} /\ Cardinality(due') <= MaxDue

Idle == out' = [kind |-> "idle", unit |-> 0]

-------------------------------------------------------------------------------
(* Initial state: setup() clears the table, the clock starts at 0. *)

Blank == [ip_protocol |-> 0, client_ip |-> 0, eth_port |-> 0, server_ip |-> 0,
          lte_port |-> 0, uart |-> 0, ts |-> 0]

Init == /\ pmap = [i \in Rows |-> Blank]
        /\ port_seq = 0
        /\ cntr = 0
        /\ ready \in ReadySets
        /\ now = 0
        /\ due = {}
        /\ out = [kind |-> "idle", unit |-> 0]

-------------------------------------------------------------------------------
(* Uplink: one turn of the loop of task_gw_uart_tx with a packet from       *)
(* client c, port or echo identifier e, to server s.                        *)

\* The rows the handler takes for the packet's flow: TCP looks for client,
\* port and server, UDP and ICMP only for client and port.
Known(table, protocol, c, e, s) ==
  IF protocol = Tcp THEN ForTcp(table, c, s, e)
                    ELSE ByClient(table, protocol, c, e)

\* A known TCP connection stays on the unit of its row, ready or not.  The
\* second refresh goes to the first row of the same client and port.
KeepTcp(c, e, s) ==
  LET table == Gc(pmap)
  IN  \E i, j \in Rows :
        /\ IsFirst(i, ForTcp(table, c, s, e))
        /\ IsFirst(j, ByClient(table, Tcp, c, e))
        /\ pmap' = Touch(Touch(table, i), j)
        /\ cntr' = CntrOf(table[i].uart)
        /\ Send("kept", table[i].uart, Tcp, c, e, s, table[i].lte_port)
        /\ UNCHANGED <<port_seq, ready, now>>

\* A known UDP or ICMP flow takes a new unit with every packet.  The row is
\* refreshed by the search, before the unit is looked for.
Reselect(protocol, c, e, s) ==
  LET table == Gc(pmap)
  IN  \E i \in Rows :
        /\ protocol # Tcp
        /\ IsFirst(i, ByClient(table, protocol, c, e))
        /\ IF SomeTryReady
           THEN /\ pmap' = [Touch(table, i) EXCEPT ![i].uart = Selected]
                /\ cntr' = CntrOf(Selected)
                /\ Send("reselected", Selected, protocol, c, e, s,
                        table[i].lte_port)
           ELSE /\ pmap' = Touch(table, i)
                /\ out' = [kind |-> "dropped", unit |-> 0]
                /\ UNCHANGED <<cntr, due>>
        /\ UNCHANGED <<port_seq, ready, now>>

\* The first packet of a flow opens a row with the next free port.
Open(protocol, c, e, s) ==
  LET table == Gc(pmap)
  IN  /\ Known(table, protocol, c, e, s) = {}
      /\ SomeTryReady
      /\ \E k \in 1 .. PortSpan, i \in Rows :
           /\ IsNextSeq(k, table, protocol)
           /\ IsFirst(i, Empty(table))
           /\ port_seq' = Probe(k)
           /\ pmap' = [table EXCEPT ![i] =
                         [ip_protocol |-> protocol, client_ip |-> c,
                          eth_port |-> e, server_ip |-> s,
                          lte_port |-> Base(protocol) + Probe(k),
                          uart |-> Selected, ts |-> now]]
           /\ Send("opened", Selected, protocol, c, e, s,
                   Base(protocol) + Probe(k))
      /\ cntr' = CntrOf(Selected)
      /\ UNCHANGED <<ready, now>>

\* The first packet of a flow with every status line high goes nowhere.
OpenFails(protocol, c, e, s) ==
  /\ Known(Gc(pmap), protocol, c, e, s) = {}
  /\ ~SomeTryReady
  /\ pmap' = Gc(pmap)
  /\ out' = [kind |-> "dropped", unit |-> 0]
  /\ UNCHANGED <<port_seq, cntr, ready, now, due>>

\* The table is full: add_pmap returns NULL, the next line reads row->uart,
\* the processor traps and the firmware starts over with an empty table.
Panic(protocol, c, e, s) ==
  /\ Known(Gc(pmap), protocol, c, e, s) = {}
  /\ SomeTryReady
  /\ Empty(Gc(pmap)) = {}
  /\ pmap' = [i \in Rows |-> Blank]
  /\ port_seq' = 0
  /\ cntr' = 0
  /\ now' = 0
  /\ due' = {}
  /\ out' = [kind |-> "restart", unit |-> 0]
  /\ UNCHANGED ready

\* ICMP packets other than echo and echo reply are taken off the ring and
\* not sent; no search is made for them.
IgnoreIcmp == Idle /\ UNCHANGED <<pmap, port_seq, cntr, ready, now, due>>

Uplink(protocol, c, e, s) ==
  \/ protocol = Tcp /\ KeepTcp(c, e, s)
  \/ Reselect(protocol, c, e, s)
  \/ Open(protocol, c, e, s)
  \/ OpenFails(protocol, c, e, s)
  \/ Panic(protocol, c, e, s)

-------------------------------------------------------------------------------
(* Downlink: the look-up of forward_downlink_packet, for a packet that the  *)
(* server sends to port lport, asked for or not.                            *)

Deliver(protocol, s, lport) ==
  LET table == Gc(pmap)
  IN  /\ \E i \in Rows : /\ IsFirst(i, ByServer(table, protocol, s, lport))
                         /\ pmap' = Touch(table, i)
      /\ Idle
      /\ UNCHANGED <<port_seq, cntr, ready, now, due>>

\* A packet that no row is found for is not passed on.
Refuse ==
  LET table == Gc(pmap)
  IN  /\ ~\A p \in Protocols, s \in Servers, l \in LtePorts :
            ByServer(table, p, s, l) # {}
      /\ pmap' = table
      /\ Idle
      /\ UNCHANGED <<port_seq, cntr, ready, now, due>>

\* Only what names protocol, server and port of a row can find one.
Downlink ==
  \/ \E i \in Rows :
       /\ Live(pmap[i])
       /\ Deliver(pmap[i].ip_protocol, pmap[i].server_ip, pmap[i].lte_port)
  \/ Refuse

-------------------------------------------------------------------------------
(* Environment *)

Tick == /\ now' = NextTick(now)
        /\ due' = {[q EXCEPT !.age = q.age + 1] :
                      q \in {r \in due : r.age + 1 < PmapTimeout}}
        /\ Idle
        /\ UNCHANGED <<pmap, port_seq, cntr, ready>>

\* LTE units come and go.
LineChange == /\ ready' \in ReadySets
              /\ ready' # ready
              /\ Idle
              /\ UNCHANGED <<pmap, port_seq, cntr, now, due>>

Next ==
  \/ \E f \in Traffic : Uplink(f.protocol, f.client, f.eport, f.server)
  \/ IgnoreIcmp
  \/ Downlink
  \/ Tick
  \/ LineChange

Spec == Init /\ [][Next]_vars

-------------------------------------------------------------------------------
(* Properties *)

Out == [kind : {"idle", "kept", "reselected", "opened", "dropped", "restart"},
        unit : Units \cup {0}]

TypeOK == /\ pmap \in [Rows -> Row]
          /\ port_seq \in 0 .. PortSpan - 1
          /\ cntr \in 0 .. 2
          /\ ready \in SUBSET Units
          /\ now \in Clock
          /\ due \subseteq Request
          /\ out \in Out

\* No two live rows hold the same port: TCP and UDP rows share one range,
\* ICMP rows have another (lte_port_genarator, hdr_portmap.cpp:230-280).  A
\* row left over from an earlier turn of port_seq must be stepped over.
PortsUnique ==
  \A i, j \in Rows :
    /\ i # j
    /\ Live(pmap[i]) /\ Live(pmap[j])
    /\ SameClass(pmap[i].ip_protocol, pmap[j].ip_protocol)
    => pmap[i].lte_port # pmap[j].lte_port

\* A flow never holds two rows of the table, however searches, expiries and
\* insertions follow each other: a TCP connection is known by client, port
\* and server, a UDP or ICMP flow by client and port (gw_uart.cpp:173,221,286).
OneRowPerFlow ==
  \A i, j \in Rows :
    /\ i # j
    /\ Live(pmap[i]) /\ pmap[i].ip_protocol = pmap[j].ip_protocol
    /\ pmap[i].client_ip = pmap[j].client_ip
    /\ pmap[i].eth_port = pmap[j].eth_port
    => pmap[i].ip_protocol = Tcp /\ pmap[i].server_ip # pmap[j].server_ip

\* The rows that forward_downlink_packet would find for the reply to q.
ReplyRows(q) == ByServer(Gc(pmap), q.protocol, q.server, q.lport)

\* The reply to a request that was sent less than PMAP_TIMEOUT_MS ago goes to
\* the host and port that sent the request and to no other, although rows
\* expire and ports are handed out again in between (gw_eth.cpp:167-180).
NoCrossTalk ==
  \A q \in due : \A i \in ReplyRows(q) :
    pmap[i].client_ip = q.client /\ pmap[i].eth_port = q.eport

\* A request that a reply is due for has its row, refreshed no earlier than
\* the request was sent: what the two properties about replies rest on.
Holds(row, q) == /\ row.ip_protocol = q.protocol
                 /\ row.client_ip = q.client
                 /\ row.eth_port = q.eport
                 /\ row.lte_port = q.lport
                 /\ q.protocol = Tcp => row.server_ip = q.server
                 /\ Elapsed(row.ts, now) <= q.age

DueHeld == \A q \in due : \E i \in Rows : Holds(pmap[i], q)

\* TCP flows have a row each.  A UDP or ICMP row is found by client and port
\* and keeps the first server's address (gw_uart.cpp:221-279).
HasOwnRow(q) ==
  \/ q.protocol = Tcp
  \/ \A f \in Traffic : /\ f.protocol = q.protocol
                         /\ f.client = q.client
                         /\ f.eport = q.eport
                         => f.server = q.server

\* The reply to a request sent less than PMAP_TIMEOUT_MS ago finds a row, for
\* TCP also when the client talks to several servers from one port, for UDP
\* and ICMP while each client port or identifier is used towards one server.
Answerable == \A q \in due : HasOwnRow(q) => ReplyRows(q) # {}

\* The search for a free port ends, also with every row taken: its loop has
\* no other exit (lte_port_genarator and lte_port_genarator_icmp_echo,
\* hdr_portmap.cpp:233,259), and add_pmap's test for a full table comes later.
GeneratorEnds ==
  LET table == Gc(pmap)
  IN  \A p \in Protocols : \E k \in 1 .. PortSpan : IsNextSeq(k, table, p)

\* A mapping younger than PMAP_TIMEOUT_MS keeps its host, server and ports,
\* and a TCP mapping keeps its unit, until the firmware restarts: a server
\* never sees a connection move to another address or port.
Identity(row) == <<row.ip_protocol, row.client_ip, row.eth_port,
                   row.server_ip, row.lte_port>>

MappingStable ==
  [][ \A i \in Rows :
        /\ Live(pmap[i])
        /\ Elapsed(pmap[i].ts, now) < PmapTimeout
        /\ out'.kind # "restart"
        => /\ Identity(pmap'[i]) = Identity(pmap[i])
           /\ pmap[i].ip_protocol = Tcp => pmap'[i].uart = pmap[i].uart ]_vars

\* Packets that are not bound to a unit are dropped only when no status line
\* is low (gw_uart.cpp:181-191, "ALL UART DISABLED"): the tries reach every
\* unit wherever they start.
DropOnlyIfNoneReady == [][out'.kind = "dropped" => ready = {}]_vars

\* With every unit ready, a packet that is not bound to a unit goes to
\* another unit than the packet sent in the step before, whatever that one
\* was: the load is spread over the three LTE links (gw_uart.cpp:180,201).
SpreadWhenAllReady ==
  [][ /\ ready = Units
      /\ out.unit # 0
      /\ out'.kind \in {"opened", "reselected"}
      => out'.unit # out.unit ]_vars

\* Packets that are not bound to a unit go to a unit whose status line is
\* low: that is what the lines are for (README.md:8-9).
SentToReady ==
  [][out'.kind \in {"opened", "reselected"} => out'.unit \in ready]_vars

\* The live rows as the bindings they stand for.  A row whose time stamp is a
\* turn of the clock old passes for a young one.
BindingOf(row) ==
  [protocol |-> row.ip_protocol, client |-> row.client_ip, eport |-> row.eth_port,
   server |-> row.server_ip, port |-> row.lte_port, unit |-> row.uart,
   age |-> IF Elapsed(row.ts, now) < PmapTimeout THEN Elapsed(row.ts, now)
                                                 ELSE PmapTimeout]

Bindings(table) == {BindingOf(table[i]) : i \in {j \in Rows : Live(table[j])}}

PortsFor(protocol) == {Base(protocol) + n : n \in 0 .. PortSpan - 1}

Mapping == INSTANCE PortMapping
             WITH Flows <- Traffic, Lease <- PmapTimeout, Size <- MaxRows,
                  PortsOf <- [p \in Protocols |-> PortsFor(p)],
                  bindings <- Bindings(pmap)

\* The table with its scans, time stamps and sequence of ports is a set of
\* bindings: a flow is bound to a free port once, keeps it and its host until it
\* was unused for PMAP_TIMEOUT_MS, a TCP flow keeps its unit as well, nobody
\* else's packets change that, and bindings are lost earlier only by a restart,
\* when MAX_PMAP_ROWS of them are in use (hdr_portmap.cpp:15-281,
\* gw_uart.cpp:168-300, gw_eth.cpp:165-180).
IsPortMapping == Mapping!Spec

===============================================================================
