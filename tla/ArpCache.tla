------------------------------- MODULE ArpCache -------------------------------
(***************************************************************************)
(* The ARP cache of the ESP32 (hdr_arp.cpp): a table without a lock that   *)
(* the Ethernet driver's task and the uplink task write and the receive    *)
(* tasks read.  A writer collects old rows and picks a row, writes the MAC *)
(* address, then the time stamp and the IP address; the tasks run          *)
(* interleaved between these steps.  One scan of the table is one step.    *)
(*                                                                         *)
(* Every host keeps its MAC address, so a MAC address is named by its      *)
(* host.  A row's age is a flag: twenty minutes may pass at any time, and  *)
(* a row nobody collects looks young again when millis() has wrapped.      *)
(***************************************************************************)
EXTENDS Integers

CONSTANTS
  Hosts,          \* hosts of the segment
  NoHost,         \* 0, no address
  Writers,        \* tasks that call update_arp_cache_by_ip
  Readers,        \* tasks that call resolve_arp
  MAX_ARP_CACHE_ROWS

ASSUME ArpAssumption == /\ NoHost \notin Hosts
                        /\ Writers \cap Readers = {}
                        /\ MAX_ARP_CACHE_ROWS \in Nat \ {0}

Rows == 1 .. MAX_ARP_CACHE_ROWS
NoRow == 0

VARIABLES
  arp_cache,      \* the rows: IP address, MAC address, older than 20 min
  job,            \* what each writer is doing, in which row, and whether alone
  reading,        \* the row each reader is about to copy from, and for which host
  disputed        \* rows taken by a task while another worked on them

arpvars == <<arp_cache, job, reading, disputed>>

Idle == [step |-> "idle", host |-> NoHost, row |-> NoRow, new |-> FALSE, alone |-> FALSE]

Nothing == [row |-> NoRow, ip |-> NoHost]

ArpInit == /\ arp_cache = [i \in Rows |-> [ip |-> NoHost, mac |-> NoHost, old |-> FALSE]]
           /\ job = [w \in Writers |-> Idle]
           /\ reading = [t \in Readers |-> Nothing]
           /\ disputed = {}

-------------------------------------------------------------------------------
(* Collecting and searching *)

\* __gc_arp_cache; it clears the IP address only.
Collected == [i \in Rows |-> IF arp_cache[i].old /\ arp_cache[i].ip # NoHost
                             THEN [arp_cache[i] EXCEPT !.ip = NoHost]
                             ELSE arp_cache[i]]

\* Faulty: the row after it.
FirstRow_OffByOne(table, ip) ==
  LET found == {i \in Rows : table[i].ip = ip}
  IN  IF found = {} THEN NoRow
      ELSE (CHOOSE i \in found : \A j \in found : i <= j) + 1

\* The first row of the table with this IP address, or none.
FirstRow(table, ip) ==
  LET found == {i \in Rows : table[i].ip = ip}
  IN  IF found = {} THEN NoRow ELSE CHOOSE i \in found : \A j \in found : i <= j

-------------------------------------------------------------------------------
(* update_arp_cache_by_ip *)

Writing(i) == {w \in Writers : job[w].row = i}
Reading(i) == {t \in Readers : reading[t].row = i}

\* Faulty: without room the first row is taken from its host.
RowFor_Evict(table, h) ==
  LET held  == FirstRow(table, h)
      empty == FirstRow(table, NoHost)
  IN  IF held # NoRow THEN held ELSE IF empty # NoRow THEN empty ELSE 1

\* The host's row, or else the first empty one, or none.
RowFor(table, h) ==
  LET held == FirstRow(table, h)
  IN  IF held # NoRow THEN held ELSE FirstRow(table, NoHost)

\* Which rows are disputed, and who works alone, is remembered for the
\* properties: a row is disputed from when a task takes it as empty while
\* others work on it until one task alone has written it anew.
Choose(w, h) ==
  LET row   == RowFor(Collected, h)
      new   == FirstRow(Collected, h) = NoRow
      alone == Writing(row) \cup Reading(row) = {}
  IN  /\ job[w].step = "idle"
      /\ arp_cache' = Collected
      /\ IF row = NoRow    \* no room: the host is not learnt
         THEN UNCHANGED <<job, disputed>>
         ELSE /\ job' = [v \in Writers |->
                   IF v = w THEN [step |-> "mac", host |-> h, row |-> row,
                                  new |-> new, alone |-> alone]
                   ELSE IF v \in Writing(row) THEN [job[v] EXCEPT !.alone = FALSE]
                   ELSE job[v]]
              /\ disputed' = IF alone \/ ~new THEN disputed
                             ELSE disputed \cup {row}
      /\ UNCHANGED reading

\* Faulty: a host that is known keeps the MAC address learnt first.
WriteMac_NewOnly(w) ==
  /\ job[w].step = "mac"
  /\ arp_cache' = IF job[w].new
                  THEN [arp_cache EXCEPT ![job[w].row].mac = job[w].host]
                  ELSE arp_cache
  /\ job' = [job EXCEPT ![w].step = "ip"]
  /\ UNCHANGED <<reading, disputed>>

WriteMac(w) == /\ job[w].step = "mac"
               /\ arp_cache' = [arp_cache EXCEPT ![job[w].row].mac = job[w].host]
               /\ job' = [job EXCEPT ![w].step = "ip"]
               /\ UNCHANGED <<reading, disputed>>

\* The time stamp, and in a new row the IP address.
Finish(w) == /\ job[w].step = "ip"
             /\ arp_cache' = [arp_cache EXCEPT
                  ![job[w].row] = [ip |-> IF job[w].new THEN job[w].host ELSE @.ip,
                                   mac |-> @.mac, old |-> FALSE]]
             /\ job' = [job EXCEPT ![w] = Idle]
             /\ disputed' = IF job[w].alone THEN disputed \ {job[w].row} ELSE disputed
             /\ UNCHANGED reading

Learn == \E w \in Writers :
           \/ \E h \in Hosts : Choose(w, h)
           \/ WriteMac(w)
           \/ Finish(w)

\* Time passes.
Age == /\ \E i \in Rows, old \in BOOLEAN :
            arp_cache' = [arp_cache EXCEPT ![i].old = old]
       /\ UNCHANGED <<job, reading, disputed>>

-------------------------------------------------------------------------------
(* Reading *)

\* search_arp_cache_by_ip; what it returns is a pointer into the table.
Search(t, ip) ==
  LET row == FirstRow(Collected, ip)
  IN  /\ reading[t].row = NoRow
      /\ arp_cache' = Collected
      /\ reading' = IF row = NoRow THEN reading
                    ELSE [reading EXCEPT ![t] = [row |-> row, ip |-> ip]]
      /\ UNCHANGED <<job, disputed>>

Found(ip) == FirstRow(Collected, ip) # NoRow

\* The copy from the row is over.
Release(t) == /\ reading[t].row # NoRow
              /\ reading' = [reading EXCEPT ![t] = Nothing]
              /\ UNCHANGED <<arp_cache, job, disputed>>

ArpNext == Learn \/ Age \/ \E t \in Readers : Release(t) \/ \E h \in Hosts : Search(t, h)

ArpSpec == ArpInit /\ [][ArpNext]_arpvars

-------------------------------------------------------------------------------
(* Properties *)

ArpTypeOK ==
  /\ arp_cache \in [Rows -> [ip : Hosts \cup {NoHost}, mac : Hosts \cup {NoHost},
                             old : BOOLEAN]]
  /\ job \in [Writers -> [step : {"idle", "mac", "ip"}, host : Hosts \cup {NoHost},
                          row : Rows \cup {NoRow}, new : BOOLEAN, alone : BOOLEAN]]
  /\ reading \in [Readers -> [row : Rows \cup {NoRow}, ip : Hosts \cup {NoHost}]]
  /\ disputed \in SUBSET Rows

\* A row that names a host holds that host's MAC address, in whatever order the
\* steps of the writers fall, unless the row is disputed; an update by one task
\* alone puts a disputed row right (hdr_arp.cpp:56-79).
NoMixUp == \A i \in Rows \ disputed :
             arp_cache[i].ip # NoHost => arp_cache[i].mac = arp_cache[i].ip

\* What is copied from the row that a search returned is the MAC address of the
\* host searched, although the row may be written, collected or filled anew
\* between the search and the copy, unless it is disputed
\* (hdr_arp.cpp:96-100, 143-147).
ReadsRight == \A t \in Readers :
                LET i == reading[t].row
                IN  i # NoRow /\ i \notin disputed => arp_cache[i].mac = reading[t].ip
===============================================================================
