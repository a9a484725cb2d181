----------------------------- MODULE PortMapRace -----------------------------
(***************************************************************************)
(* The port map of the ESP32 as its tasks really share it: the task of the *)
(* uplink on one core and the receive tasks on the other use the table of  *)
(* hdr_portmap.cpp without a lock.  Every search and every insertion first *)
(* collects expired rows, a row is cleared and filled field by field, and  *)
(* a search returns a pointer through which the row is read later.  Here   *)
(* every field written and every row looked at by a collection is a step;  *)
(* a scan of the table is one step.                                        *)
(*                                                                         *)
(* The rows are those of one protocol that is found by client and port:    *)
(* UDP, or ICMP apart from the identifier 0, which a row that is not yet   *)
(* filled holds as well.  NatGateway has all protocols, the sequence of    *)
(* the ports and the units.  A port that is handed out is any that no      *)
(* live row holds.                                                         *)
(* The age of a row is a flag: 20 s may pass at any time, but not while a  *)
(* task holds a row that it has just refreshed, which takes milliseconds;  *)
(* and a row may look young again when millis() has wrapped.               *)
(*                                                                         *)
(* `owner', `alone' and `disputed' are observations.                       *)
(***************************************************************************)
EXTENDS Integers

CONSTANTS
  Clients, EthPorts, Servers,
  Traffic,        \* the flows: client, its port, server
  Ports,          \* what the port generator can return
  Sender,         \* task_gw_uart_tx
  Receivers,      \* task_gw_uart1_rx .. task_gw_uart3_rx
  MAX_PMAP_ROWS

Flow == [client : Clients, eport : EthPorts, server : Servers]

ASSUME RaceAssumption ==
  /\ 0 \notin Clients /\ 0 \notin EthPorts /\ 0 \notin Servers
  /\ 0 \notin Ports
  /\ Traffic \subseteq Flow
  /\ Sender \notin Receivers
  /\ MAX_PMAP_ROWS \in Nat \ {0}

Tasks == Receivers \cup {Sender}
Rows  == 1 .. MAX_PMAP_ROWS
NoRow == 0
NoFlow == [client |-> 0, eport |-> 0, server |-> 0]
Udp   == 17

VARIABLES
  pmap,           \* the rows
  task,           \* where each task is
  packet,         \* the flow of the packet the sender handles
  owner,          \* the flow each port was last handed out for
  alone,          \* tasks whose work on a row no other task has crossed
  disputed        \* rows that one task took while another worked on them

vars == <<pmap, task, packet, owner, alone, disputed>>

-------------------------------------------------------------------------------
(* Rows and tasks *)

Row == [ip_protocol : {0, Udp}, client_ip : Clients \cup {0},
        eth_port : EthPorts \cup {0}, server_ip : Servers \cup {0},
        lte_port : Ports \cup {0}, old : BOOLEAN]

Blank == [ip_protocol |-> 0, client_ip |-> 0, eth_port |-> 0, server_ip |-> 0,
          lte_port |-> 0, old |-> FALSE]

Live(i) == pmap[i].ip_protocol # 0

\* A task collects row `at', or clears it and has written `wr' of its fields;
\* then it goes on with `goal'.  It fills or holds the row `row'.
Idle == [step |-> "idle", goal |-> "idle", at |-> NoRow, wr |-> 0,
         row |-> NoRow, port |-> 0]

Collect(goal, row, port) ==
  [step |-> "collect", goal |-> goal, at |-> 1, wr |-> 0, row |-> row, port |-> port]

\* Faulty: one row too many.
Advanced_PastEnd(job) ==
  IF job.at > MAX_PMAP_ROWS
  THEN [step |-> job.goal, goal |-> "idle", at |-> NoRow, wr |-> 0,
        row |-> job.row, port |-> job.port]
  ELSE [step |-> "collect", goal |-> job.goal, at |-> job.at + 1, wr |-> 0,
        row |-> job.row, port |-> job.port]

\* To the next row of the collection, or on to what it was made for.
Advanced(job) ==
  IF job.at = MAX_PMAP_ROWS
  THEN [step |-> job.goal, goal |-> "idle", at |-> NoRow, wr |-> 0,
        row |-> job.row, port |-> job.port]
  ELSE [step |-> "collect", goal |-> job.goal, at |-> job.at + 1, wr |-> 0,
        row |-> job.row, port |-> job.port]

\* One more field of the row is written.
Written(job) ==
  [step |-> job.step, goal |-> job.goal, at |-> job.at, wr |-> job.wr + 1,
   row |-> job.row, port |-> job.port]

Clears(t, i) == task[t].step = "clear" /\ task[t].at = i
Fills(t, i)  == task[t].step = "fill" /\ task[t].row = i
Holds(t, i)  == task[t].step # "fill" /\ task[t].row = i

Others(t) == Tasks \ {t}
Clearing(t, i) == {u \in Others(t) : Clears(u, i)}
Working(t, i)  == {u \in Others(t) : Clears(u, i) \/ task[u].row = i}

\* Task t takes row i to write it.
Take(t, i) ==
  IF Working(t, i) = {}
  THEN alone' = alone \cup {t} /\ UNCHANGED disputed
  ELSE /\ alone' = alone \ {u \in Tasks : Clears(u, i) \/ Fills(u, i)}
       /\ disputed' = disputed \cup {i}

\* Task t takes row i to read it.
Hold(t, i) ==
  IF Clearing(t, i) = {}
  THEN UNCHANGED <<alone, disputed>>
  ELSE /\ alone' = alone \ Clearing(t, i)
       /\ disputed' = disputed \cup {i}

\* Task t has written every field of row i: if it was alone nothing is left of
\* a dispute.
Settle(t, i) ==
  /\ alone' = alone \ {t}
  /\ disputed' = IF t \in alone /\ Working(t, i) = {} THEN disputed \ {i}
                                                    ELSE disputed

IsFirst(i, rows) == i \in rows /\ \A j \in rows : i <= j

Init == /\ pmap = [i \in Rows |-> Blank]
        /\ task = [t \in Tasks |-> Idle]
        /\ packet = NoFlow
        /\ owner = [p \in Ports |-> NoFlow]
        /\ alone = {}
        /\ disputed = {}

-------------------------------------------------------------------------------
(* __gc_pmap, by every task *)

\* A receive task has a packet from the line, the sender one from the ring.
Begin(t) ==
  /\ task[t].step = "idle"
  /\ task' = [task EXCEPT ![t] =
                Collect(IF t = Sender THEN "find" ELSE "search", NoRow, 0)]
  /\ UNCHANGED <<pmap, packet, owner, alone, disputed>>

\* The task sees that the row has expired.
Condemn(t) ==
  LET i == task[t].at
  IN  /\ task[t].step = "collect"
      /\ Live(i) /\ pmap[i].old
      /\ task' = [task EXCEPT ![t] = [step |-> "clear", goal |-> @.goal, at |-> i,
                                      wr |-> 0, row |-> @.row, port |-> @.port]]
      /\ Take(t, i)
      /\ UNCHANGED <<pmap, packet, owner>>

Spare(t) ==
  LET i == task[t].at
  IN  /\ task[t].step = "collect"
      /\ ~(Live(i) /\ pmap[i].old)
      /\ task' = [task EXCEPT ![t] = Advanced(@)]
      /\ UNCHANGED <<pmap, packet, owner, alone, disputed>>

\* The k-th assignment; the time stamp is left.
Cleared(row, k) ==
  [ip_protocol |-> IF k = 1 THEN 0 ELSE row.ip_protocol,
   server_ip   |-> IF k = 2 THEN 0 ELSE row.server_ip,
   client_ip   |-> IF k = 3 THEN 0 ELSE row.client_ip,
   lte_port    |-> IF k = 4 THEN 0 ELSE row.lte_port,
   eth_port    |-> IF k = 5 THEN 0 ELSE row.eth_port,
   old         |-> row.old]

Clear(t) ==
  LET i == task[t].at
      k == task[t].wr + 1
  IN  /\ task[t].step = "clear"
      /\ pmap' = [pmap EXCEPT ![i] = Cleared(@, k)]
      /\ IF k < 5
         THEN /\ task' = [task EXCEPT ![t] = Written(@)]
              /\ UNCHANGED <<alone, disputed>>
         ELSE /\ task' = [task EXCEPT ![t] = Advanced(@)]
              /\ Settle(t, i)
      /\ UNCHANGED <<packet, owner>>

-------------------------------------------------------------------------------
(* The sender *)

ByClient(f) == {i \in Rows : /\ Live(i)
                             /\ pmap[i].client_ip = f.client
                             /\ pmap[i].eth_port = f.eport}

\* Faulty: a hit does not renew the time stamp.
Fresh_NoStamp(i) == UNCHANGED pmap

Fresh(i) == pmap' = [pmap EXCEPT ![i].old = FALSE]

\* search_pmap_by_client_info finds the flow's row; the packet is dropped when
\* no unit is ready.
Find(f) ==
  \E i \in Rows :
    /\ task[Sender].step = "find"
    /\ IsFirst(i, ByClient(f))
    /\ Fresh(i)
    /\ \/ /\ task' = [task EXCEPT ![Sender] = Collect("renew", i, 0)]
          /\ packet' = f
          /\ Hold(Sender, i)
       \/ /\ task' = [task EXCEPT ![Sender] = Idle]
          /\ UNCHANGED <<packet, alone, disputed>>
    /\ UNCHANGED owner

\* update_pmap_by_client_info: its result is not used.
Renew ==
  /\ task[Sender].step = "renew"
  /\ \/ \E i \in Rows : IsFirst(i, ByClient(packet)) /\ Fresh(i)
     \/ ByClient(packet) = {} /\ UNCHANGED pmap
  /\ task' = [task EXCEPT ![Sender] = [step |-> "send", goal |-> "idle", at |-> NoRow,
                                       wr |-> 0, row |-> @.row, port |-> 0]]
  /\ UNCHANGED <<packet, owner, alone, disputed>>

\* Faulty: only one row is looked at.
Taken_First == IF Live(1) THEN {pmap[1].lte_port} ELSE {}

Taken == {pmap[i].lte_port : i \in {j \in Rows : Live(j)}}

\* Ports that a row or a task still names; who had the others is forgotten.
Named == {pmap[i].lte_port : i \in Rows} \cup {task[t].port : t \in Tasks}

\* No row: a port is generated for a new one, unless no unit is ready.
Open(f) ==
  /\ task[Sender].step = "find"
  /\ ByClient(f) = {}
  /\ \/ \E p \in Ports \ Taken :
          /\ task' = [task EXCEPT ![Sender] = Collect("add", NoRow, p)]
          /\ packet' = f
          /\ owner' = [q \in Ports |-> IF q = p THEN f
                                      ELSE IF q \in Named THEN owner[q]
                                      ELSE NoFlow]
     \/ /\ task' = [task EXCEPT ![Sender] = Idle]
        /\ UNCHANGED <<packet, owner>>
  /\ UNCHANGED <<pmap, alone, disputed>>

\* add_pmap collects, and search_pmap_empty collects again.
Again ==
  /\ task[Sender].step = "add"
  /\ task' = [task EXCEPT ![Sender] = Collect("empty", NoRow, @.port)]
  /\ UNCHANGED <<pmap, packet, owner, alone, disputed>>

Empty == {i \in Rows : ~Live(i)}

ChooseEmpty ==
  \E i \in Rows :
    /\ task[Sender].step = "empty"
    /\ IsFirst(i, Empty)
    /\ task' = [task EXCEPT ![Sender] =
                  [step |-> "fill", goal |-> "idle", at |-> NoRow, wr |-> 0,
                   row |-> i, port |-> @.port]]
    /\ Take(Sender, i)
    /\ UNCHANGED <<pmap, packet, owner>>

\* The table is full: the sender reads through NULL and the firmware restarts.
Panic ==
  /\ task[Sender].step = "empty"
  /\ Empty = {}
  /\ pmap' = [i \in Rows |-> Blank]
  /\ task' = [t \in Tasks |-> Idle]
  /\ packet' = NoFlow
  /\ owner' = [p \in Ports |-> NoFlow]
  /\ alone' = {}
  /\ disputed' = {}

\* Faulty: the row can be found before the client is in it.
Filled_ClientLast(row, f, p, k) ==
  [ip_protocol |-> IF k = 1 THEN Udp ELSE row.ip_protocol,
   server_ip   |-> IF k = 2 THEN f.server ELSE row.server_ip,
   lte_port    |-> IF k = 3 THEN p ELSE row.lte_port,
   client_ip   |-> IF k = 4 THEN f.client ELSE row.client_ip,
   eth_port    |-> IF k = 5 THEN f.eport ELSE row.eth_port,
   old         |-> IF k = 6 THEN FALSE ELSE row.old]

\* The k-th assignment of add_pmap.
Filled(row, f, p, k) ==
  [ip_protocol |-> IF k = 1 THEN Udp ELSE row.ip_protocol,
   client_ip   |-> IF k = 2 THEN f.client ELSE row.client_ip,
   eth_port    |-> IF k = 3 THEN f.eport ELSE row.eth_port,
   server_ip   |-> IF k = 4 THEN f.server ELSE row.server_ip,
   lte_port    |-> IF k = 5 THEN p ELSE row.lte_port,
   old         |-> IF k = 6 THEN FALSE ELSE row.old]

Fill ==
  LET i == task[Sender].row
      k == task[Sender].wr + 1
  IN  /\ task[Sender].step = "fill"
      /\ pmap' = [pmap EXCEPT ![i] = Filled(@, packet, task[Sender].port, k)]
      /\ IF k < 6
         THEN /\ task' = [task EXCEPT ![Sender] = Written(@)]
              /\ UNCHANGED <<alone, disputed>>
         ELSE /\ task' = [task EXCEPT ![Sender] =
                            [step |-> "send", goal |-> "idle", at |-> NoRow,
                             wr |-> 0, row |-> i, port |-> 0]]
              /\ Settle(Sender, i)
      /\ UNCHANGED <<packet, owner>>

\* The port is read from the row and written into the packet.
Send ==
  /\ task[Sender].step = "send"
  /\ task' = [task EXCEPT ![Sender] = Idle]
  /\ packet' = NoFlow
  /\ UNCHANGED <<pmap, owner, alone, disputed>>

-------------------------------------------------------------------------------
(* The receive tasks: forward_downlink_packet *)

ByServer(s, p) == {i \in Rows : /\ Live(i)
                                /\ pmap[i].lte_port = p
                                /\ pmap[i].server_ip = s}

Search(t, s, p) ==
  \E i \in Rows :
    /\ task[t].step = "search"
    /\ IsFirst(i, ByServer(s, p))
    /\ Fresh(i)
    /\ task' = [task EXCEPT ![t] = [step |-> "read", goal |-> "idle", at |-> NoRow,
                                    wr |-> 0, row |-> i, port |-> p]]
    /\ Hold(t, i)
    /\ UNCHANGED <<packet, owner>>

Refuse(t) ==
  /\ task[t].step = "search"
  /\ ~\A s \in Servers, p \in Ports : ByServer(s, p) # {}
  /\ task' = [task EXCEPT ![t] = Idle]
  /\ UNCHANGED <<pmap, packet, owner, alone, disputed>>

\* Client and port have been read from the row.
Forward(t) ==
  /\ task[t].step = "read"
  /\ task' = [task EXCEPT ![t] = Idle]
  /\ UNCHANGED <<pmap, packet, owner, alone, disputed>>

-------------------------------------------------------------------------------
\* Time passes; nobody asks how old a row is that is not live.
Age ==
  /\ \E i \in Rows :
       /\ Live(i)
       /\ {t \in Tasks : Holds(t, i)} = {}
       /\ pmap' = [pmap EXCEPT ![i].old = ~@]
  /\ UNCHANGED <<task, packet, owner, alone, disputed>>

Gc(t) == Begin(t) \/ Condemn(t) \/ Spare(t) \/ Clear(t)

SenderStep ==
  \/ \E f \in Traffic : Find(f) \/ Open(f)
  \/ Renew \/ Again \/ ChooseEmpty \/ Panic \/ Fill \/ Send

ReceiverStep(t) ==
  \/ \E s \in Servers, p \in Ports : Search(t, s, p)
  \/ Refuse(t) \/ Forward(t)

Next == \/ \E t \in Tasks : Gc(t)
        \/ SenderStep
        \/ \E t \in Receivers : ReceiverStep(t)
        \/ Age

Spec == Init /\ [][Next]_vars

-------------------------------------------------------------------------------
(* Properties *)

Job == [step : {"idle", "collect", "clear", "find", "renew", "add", "empty",
                "fill", "send", "search", "read"},
        goal : {"idle", "find", "renew", "add", "empty", "search"},
        at : Rows \cup {NoRow}, wr : 0 .. 5, row : Rows \cup {NoRow},
        port : Ports \cup {0}]

TypeOK == /\ pmap \in [Rows -> Row]
          /\ task \in [Tasks -> Job]
          /\ packet \in Traffic \cup {NoFlow}
          /\ owner \in [Ports -> Traffic \cup {NoFlow}]
          /\ alone \in SUBSET Tasks
          /\ disputed \in SUBSET Rows

\* What a receive task reads through the pointer its search returned are
\* client and port of the flow that the port was handed out for, although the
\* row may be half filled when it is found, and may be collected, refreshed and
\* filled by other tasks before it is read, unless a collection of the row had
\* begun when the search found it (gw_eth.cpp:168-180, hdr_portmap.cpp:205-211).
ReadsRight ==
  \A t \in Receivers : \A i \in Rows \ disputed :
    Holds(t, i) => /\ pmap[i].client_ip = owner[task[t].port].client
                   /\ pmap[i].eth_port = owner[task[t].port].eport

\* The port that the sender reads back from its row and puts into the packet
\* is one handed out for this client and port, and the reply will find the row
\* (gw_uart.cpp:275).
SentRight ==
  task[Sender].step = "send" =>
    LET i == task[Sender].row
        p == pmap[i].lte_port
    IN  i \notin disputed => /\ Live(i)
                             /\ p \in Ports
                             /\ owner[p].client = packet.client
                             /\ owner[p].eport = packet.eport

\* No port is in two live rows (hdr_portmap.cpp:238-247).
PortsApart ==
  \A i, j \in Rows \ disputed :
    i # j /\ Live(i) /\ Live(j) /\ pmap[i].lte_port # 0
      => pmap[i].lte_port # pmap[j].lte_port

\* No host's port is in two live rows that are filled (gw_uart.cpp:216-225): the
\* row being filled may still hold what was in it.
FlowsApart ==
  \A i, j \in Rows \ disputed :
    /\ i # j
    /\ Live(i) /\ ~Fills(Sender, i)
    /\ Live(j) /\ ~Fills(Sender, j)
    => \/ pmap[i].client_ip # pmap[j].client_ip
       \/ pmap[i].eth_port # pmap[j].eth_port

\* However collections and insertions interleave, what a search stops at is the
\* only row it could have found, from the side of the hosts and from that of the
\* servers (hdr_portmap.cpp:238-247, gw_uart.cpp:216-225).
RowsApart == PortsApart /\ FlowsApart
===============================================================================
