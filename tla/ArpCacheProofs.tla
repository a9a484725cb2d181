---------------------------- MODULE ArpCacheProofs ----------------------------
(***************************************************************************)
(* Proofs about ArpCache, for any hosts, tasks and number of rows.         *)
(*                                                                         *)
(* NoMixUp and ReadsRight are not inductive: whether a write to a row is   *)
(* harmless depends on who else is working on it.  ArpInv says that a      *)
(* writer that is still alone has its row to itself, that only such a      *)
(* writer fills an undisputed empty row, and that every other writer of an *)
(* undisputed row writes the MAC address that is there already.            *)
(***************************************************************************)
EXTENDS ArpCache, FiniteSetTheorems, WellFoundedInduction, TLAPS

(* A nonempty set of rows has a first element: otherwise the sets of its
   elements up to each of its elements would descend for ever. *)
LEMMA FirstExists ==
  ASSUME NEW S \in SUBSET Rows, S # {}
  PROVE  \E i \in S : \A j \in S : i <= j
<1> DEFINE UpTo(i) == {j \in S : j <= i}
           Family == {UpTo(i) : i \in S}
<1>0. S \subseteq Int
  BY ArpAssumption DEF Rows
<1>1. Family \subseteq FiniteSubsetsOf(Rows) /\ Family # {}
  <2>1. IsFiniteSet(Rows)
    BY ArpAssumption, FS_Interval DEF Rows
  <2>2. \A i \in S : UpTo(i) \in SUBSET Rows /\ IsFiniteSet(UpTo(i))
    BY <2>1, FS_Subset
  <2>3. QED
    BY <2>2 DEF FiniteSubsetsOf
<1>2. IsWellFoundedOn(StrictSubsetOrdering(Rows), FiniteSubsetsOf(Rows))
  BY FS_StrictSubsetOrderingWellFounded
<1>3. PICK X \in Family : \A Y \in Family : <<Y, X>> \notin StrictSubsetOrdering(Rows)
  <2> HIDE DEF Family
  <2>1. QED
    BY <1>1, <1>2, WFMin
<1>4. PICK i \in S : X = UpTo(i)
  BY <1>3
<1>5. ASSUME NEW j \in S, j < i PROVE FALSE
  <2>1. UpTo(j) \in Family
    OBVIOUS
  <2>2. ASSUME NEW k \in UpTo(j) PROVE k \in UpTo(i)
    <3>1. k \in S /\ k \in Int /\ j \in Int /\ i \in Int /\ k <= j /\ j < i
      BY <1>0, <1>4, <1>5, <2>2
    <3>2. k <= i
      BY <3>1
    <3>3. QED
      BY <3>1, <3>2
  <2>3. i \in UpTo(i) /\ i \notin UpTo(j)
    BY <1>0, <1>5
  <2>4. UpTo(j) \in SUBSET Rows /\ X \in SUBSET Rows
    BY <1>4
  <2>5. <<UpTo(j), X>> \in StrictSubsetOrdering(Rows)
    <3> HIDE DEF UpTo
    <3>1. QED
      BY <1>4, <2>2, <2>3, <2>4 DEF StrictSubsetOrdering
  <2>6. QED
    BY <1>3, <2>1, <2>5
<1>6. QED
  BY <1>0, <1>5

(* FirstRow returns a row with the IP address searched, or none. *)
LEMMA FirstRowFound ==
  ASSUME NEW table, NEW ip
  PROVE  /\ FirstRow(table, ip) \in Rows \cup {NoRow}
         /\ FirstRow(table, ip) # NoRow => table[FirstRow(table, ip)].ip = ip
<1> DEFINE found == {i \in Rows : table[i].ip = ip}
<1>1. CASE found = {}
  BY <1>1 DEF FirstRow, NoRow
<1>2. CASE found # {}
  <2> DEFINE first == CHOOSE i \in found : \A j \in found : i <= j
  <2>1. \E i \in found : \A j \in found : i <= j
    <3> found \in SUBSET Rows
      OBVIOUS
    <3> HIDE DEF found
    <3>1. QED
      BY <1>2, FirstExists
  <2>2. first \in found
    <3> HIDE DEF found
    <3>1. QED
      BY <2>1
  <2>3. FirstRow(table, ip) = first
    BY <1>2 DEF FirstRow
  <2>4. QED
    BY <2>2, <2>3
<1>3. QED
  BY <1>1, <1>2

(* The row an update takes has the host's IP address if the host is known and
   none if it is not. *)
LEMMA RowChosen ==
  ASSUME NEW table, NEW h
  PROVE  /\ RowFor(table, h) \in Rows \cup {NoRow}
         /\ FirstRow(table, h) # NoRow => RowFor(table, h) # NoRow
         /\ RowFor(table, h) # NoRow =>
              table[RowFor(table, h)].ip =
                IF FirstRow(table, h) = NoRow THEN NoHost ELSE h
BY FirstRowFound DEF RowFor

(* Collecting old rows changes no MAC address and sets no IP address but 0. *)
LEMMA CollectedRows ==
  ASSUME ArpTypeOK
  PROVE  /\ Collected \in [Rows -> [ip : Hosts \cup {NoHost}, mac : Hosts \cup {NoHost},
                                    old : BOOLEAN]]
         /\ \A i \in Rows : /\ Collected[i].mac = arp_cache[i].mac
                            /\ Collected[i].ip \in {arp_cache[i].ip, NoHost}
<1>1. ASSUME NEW i \in Rows
      PROVE  /\ Collected[i] \in [ip : Hosts \cup {NoHost}, mac : Hosts \cup {NoHost},
                                  old : BOOLEAN]
             /\ Collected[i].mac = arp_cache[i].mac
             /\ Collected[i].ip \in {arp_cache[i].ip, NoHost}
  BY DEF ArpTypeOK, Collected
<1>2. Collected = [i \in Rows |-> Collected[i]]
  BY DEF Collected
<1>3. QED
  BY <1>1, <1>2

-------------------------------------------------------------------------------
(* The inductive invariant *)

AtWork(w) == IF job[w].step = "idle" THEN job[w].row = NoRow
             ELSE job[w].row \in Rows /\ job[w].host \in Hosts

\* A writer that is still alone: nobody else can change the row's addresses, and
\* who reads the row reads its host.
Undisturbed(w) ==
  job[w].step # "idle" /\ job[w].alone =>
    /\ \A v \in Writers \ {w} : job[v].row # job[w].row
    /\ arp_cache[job[w].row].ip \in IF job[w].new THEN {NoHost} ELSE {job[w].host, NoHost}
    /\ job[w].step = "ip" => arp_cache[job[w].row].mac = job[w].host
    /\ \A t \in Readers : reading[t].row = job[w].row => reading[t].ip = job[w].host

\* A writer of an undisputed row fills it alone, or repeats what it holds.
Harmless(w) ==
  job[w].step # "idle" /\ job[w].row \notin disputed =>
    IF job[w].new THEN job[w].alone ELSE arp_cache[job[w].row].mac = job[w].host

ArpInv == /\ \A w \in Writers : AtWork(w) /\ Undisturbed(w) /\ Harmless(w)
          /\ NoMixUp
          /\ ReadsRight

-------------------------------------------------------------------------------

(* Types hold initially, and every step keeps them. *)
LEMMA ArpInitInv == ArpInit => ArpTypeOK /\ ArpInv
<1> SUFFICES ASSUME ArpInit PROVE ArpTypeOK /\ ArpInv
  OBVIOUS
<1>1. ArpTypeOK
  BY DEF ArpInit, ArpTypeOK, Idle, Nothing
<1>2. ASSUME NEW w \in Writers PROVE AtWork(w) /\ Undisturbed(w) /\ Harmless(w)
  BY DEF ArpInit, Idle, AtWork, Undisturbed, Harmless
<1>3. NoMixUp /\ ReadsRight
  BY DEF ArpInit, NoMixUp, ReadsRight, Nothing
<1>4. QED
  BY <1>1, <1>2, <1>3 DEF ArpInv

LEMMA ArpTypesStep ==
  ASSUME ArpTypeOK, ArpInv, [ArpNext]_arpvars
  PROVE  ArpTypeOK'
<1> DEFINE Cache == [Rows -> [ip : Hosts \cup {NoHost}, mac : Hosts \cup {NoHost},
                              old : BOOLEAN]]
           Job == [step : {"idle", "mac", "ip"}, host : Hosts \cup {NoHost},
                   row : Rows \cup {NoRow}, new : BOOLEAN, alone : BOOLEAN]
<1>0. Collected \in Cache
  BY CollectedRows
<1>1. ASSUME NEW w \in Writers, NEW h \in Hosts, Choose(w, h) PROVE ArpTypeOK'
  <2> DEFINE row == RowFor(Collected, h)
  <2>1. arp_cache' \in Cache /\ reading' = reading
    BY <1>0, <1>1 DEF Choose
  <2>2. CASE row = NoRow
    BY <1>1, <2>1, <2>2 DEF Choose, ArpTypeOK
  <2>3. CASE row # NoRow
    <3>1. row \in Rows
      BY <2>3, RowChosen
    <3>2. disputed' \in SUBSET Rows
      BY <1>1, <2>3, <3>1 DEF Choose, ArpTypeOK
    <3>3. job' \in [Writers -> Job]
      <4> DEFINE new == FirstRow(Collected, h) = NoRow
                 alone == Writing(row) \cup Reading(row) = {}
                 fresh == [step |-> "mac", host |-> h, row |-> row,
                           new |-> new, alone |-> alone]
      <4>1. job' = [v \in Writers |->
                   IF v = w THEN fresh
                   ELSE IF v \in Writing(row) THEN [job[v] EXCEPT !.alone = FALSE]
                   ELSE job[v]]
        BY <1>1, <2>3 DEF Choose
      <4>2. fresh \in Job
        <5> new \in BOOLEAN /\ alone \in BOOLEAN
          OBVIOUS
        <5> HIDE DEF new, alone, row
        <5>1. QED
          BY <3>1
      <4>3. \A v \in Writers : job[v] \in Job /\ [job[v] EXCEPT !.alone = FALSE] \in Job
        BY DEF ArpTypeOK
      <4> HIDE DEF fresh, Job, row
      <4>4. QED
        BY <4>1, <4>2, <4>3
    <3>4. QED
      BY <2>1, <3>2, <3>3 DEF ArpTypeOK
  <2>4. QED
    BY <2>2, <2>3
<1>2. ASSUME NEW w \in Writers, WriteMac(w) PROVE ArpTypeOK'
  <2>1. job[w].row \in Rows /\ job[w].host \in Hosts
    BY <1>2 DEF WriteMac, ArpInv, AtWork
  <2>2. QED
    BY <1>2, <2>1 DEF WriteMac, ArpTypeOK
<1>3. ASSUME NEW w \in Writers, Finish(w) PROVE ArpTypeOK'
  <2>1. job[w].row \in Rows /\ job[w].host \in Hosts
    BY <1>3 DEF Finish, ArpInv, AtWork
  <2>2. job' \in [Writers -> Job] /\ reading' = reading /\ disputed' \in SUBSET Rows
    BY <1>3 DEF Finish, ArpTypeOK, Idle
  <2>3. arp_cache' \in Cache
    <3>1. arp_cache[job[w].row].ip \in Hosts \cup {NoHost}
          /\ arp_cache[job[w].row].mac \in Hosts \cup {NoHost}
      BY <2>1 DEF ArpTypeOK
    <3>2. QED
      BY <1>3, <2>1, <3>1 DEF Finish, ArpTypeOK
  <2>4. QED
    BY <2>2, <2>3 DEF ArpTypeOK
<1>4. CASE Age
  BY <1>4 DEF Age, ArpTypeOK
<1>5. ASSUME NEW t \in Readers, Release(t) PROVE ArpTypeOK'
  BY <1>5 DEF Release, ArpTypeOK, Nothing
<1>6. ASSUME NEW t \in Readers, NEW h \in Hosts, Search(t, h) PROVE ArpTypeOK'
  <2>1. FirstRow(Collected, h) \in Rows \cup {NoRow}
    BY FirstRowFound
  <2>2. QED
    BY <1>0, <1>6, <2>1 DEF Search, ArpTypeOK
<1>7. CASE UNCHANGED arpvars
  BY <1>7 DEF arpvars, ArpTypeOK
<1>8. QED
  BY <1>1, <1>2, <1>3, <1>4, <1>5, <1>6, <1>7 DEF ArpNext, Learn

-------------------------------------------------------------------------------

(* Steps that only collect rows, or let time pass: no MAC address changes, an IP
   address changes to 0 at most. *)
LEMMA CollectKeeps ==
  ASSUME ArpTypeOK, ArpInv, UNCHANGED <<job, reading, disputed>>,
         \A i \in Rows : /\ arp_cache'[i].mac = arp_cache[i].mac
                         /\ arp_cache'[i].ip \in {arp_cache[i].ip, NoHost}
  PROVE  ArpInv'
<1>1. ASSUME NEW w \in Writers PROVE AtWork(w)' /\ Undisturbed(w)' /\ Harmless(w)'
  <2>1. AtWork(w) /\ Undisturbed(w) /\ Harmless(w)
    BY DEF ArpInv
  <2>2. AtWork(w)'
    BY <2>1 DEF AtWork
  <2>3. Undisturbed(w)'
    BY <2>1 DEF AtWork, Undisturbed
  <2>4. Harmless(w)'
    BY <2>1 DEF AtWork, Harmless
  <2>5. QED
    BY <2>2, <2>3, <2>4
<1>2. NoMixUp'
  BY DEF ArpInv, NoMixUp
<1>3. ReadsRight'
  BY DEF ArpInv, ReadsRight, ArpTypeOK
<1>4. QED
  BY <1>1, <1>2, <1>3 DEF ArpInv

(* A writer takes a row. *)
LEMMA ChooseKeeps ==
  ASSUME ArpTypeOK, ArpInv, NEW w \in Writers, NEW h \in Hosts, Choose(w, h)
  PROVE  ArpInv'
<1> DEFINE row == RowFor(Collected, h)
           new == FirstRow(Collected, h) = NoRow
           alone == Writing(row) \cup Reading(row) = {}
<1>0. /\ arp_cache' = Collected /\ reading' = reading /\ job[w].step = "idle"
      /\ \A i \in Rows : /\ arp_cache'[i].mac = arp_cache[i].mac
                         /\ arp_cache'[i].ip \in {arp_cache[i].ip, NoHost}
  BY CollectedRows DEF Choose
<1>1. CASE row = NoRow
  <2>1. UNCHANGED <<job, reading, disputed>>
    BY <1>1 DEF Choose
  <2>2. QED
    BY <1>0, <2>1, CollectKeeps
<1>2. CASE row # NoRow
  <2>1. row \in Rows /\ arp_cache'[row].ip = IF new THEN NoHost ELSE h
    BY <1>0, <1>2, RowChosen
  <2>2. job' = [v \in Writers |->
                   IF v = w THEN [step |-> "mac", host |-> h, row |-> row,
                                  new |-> new, alone |-> alone]
                   ELSE IF v \in Writing(row) THEN [job[v] EXCEPT !.alone = FALSE]
                   ELSE job[v]]
    BY <1>2 DEF Choose
  <2>3. disputed' = IF alone \/ ~new THEN disputed ELSE disputed \cup {row}
    BY <1>2 DEF Choose
  <2>4. /\ job'[w].step = "mac" /\ job'[w].host = h /\ job'[w].row = row
        /\ job'[w].new = new /\ job'[w].alone = alone
    <3> HIDE DEF row, new, alone
    <3>1. QED
      BY <2>2
  <2>5. \A v \in Writers \ {w} :
          /\ job'[v].step = job[v].step /\ job'[v].host = job[v].host
          /\ job'[v].row = job[v].row /\ job'[v].new = job[v].new
          /\ job'[v].alone = (job[v].alone /\ job[v].row # row)
    <3> HIDE DEF row, new, alone
    <3>1. QED
      BY <2>2 DEF Writing, ArpTypeOK
  <2>6. alone => /\ \A v \in Writers : job[v].row # row
                 /\ \A t \in Readers : reading[t].row # row
    BY DEF Writing, Reading
  <2>7. ~new => row \in Rows /\ arp_cache[row].ip = h
    BY <1>0, <2>1, ArpAssumption
  <2> HIDE DEF row, new, alone
  <2>8. ASSUME NEW v \in Writers PROVE AtWork(v)'
    <3>1. AtWork(v)
      BY DEF ArpInv
    <3>2. QED
      BY <2>1, <2>4, <2>5, <3>1 DEF AtWork
  <2>9. ASSUME NEW v \in Writers PROVE Undisturbed(v)'
    <3> SUFFICES ASSUME job'[v].step # "idle", job'[v].alone
                 PROVE  /\ \A u \in Writers \ {v} : job'[u].row # job'[v].row
                        /\ arp_cache'[job'[v].row].ip \in
                             IF job'[v].new THEN {NoHost} ELSE {job'[v].host, NoHost}
                        /\ job'[v].step = "ip" => arp_cache'[job'[v].row].mac = job'[v].host
                        /\ \A t \in Readers :
                             reading'[t].row = job'[v].row => reading'[t].ip = job'[v].host
      BY DEF Undisturbed
    <3>1. CASE v = w
      BY <1>0, <2>1, <2>4, <2>5, <2>6, <3>1
    <3>2. CASE v # w
      <4>1. AtWork(v) /\ Undisturbed(v) /\ job[v].row # row /\ job[v].alone
            /\ job[v].step # "idle"
        BY <2>5, <3>2 DEF ArpInv
      <4>2. job[v].row \in Rows
        BY <4>1 DEF AtWork
      <4>3. \A u \in Writers \ {v} : job'[u].row # job'[v].row
        BY <2>4, <2>5, <3>2, <4>1 DEF Undisturbed
      <4>4. QED
        BY <1>0, <2>5, <3>2, <4>1, <4>2, <4>3 DEF Undisturbed
    <3>3. QED
      BY <3>1, <3>2
  <2>10. ASSUME NEW v \in Writers PROVE Harmless(v)'
    <3> SUFFICES ASSUME job'[v].step # "idle", job'[v].row \notin disputed'
                 PROVE  IF job'[v].new THEN job'[v].alone
                        ELSE arp_cache'[job'[v].row].mac = job'[v].host
      BY DEF Harmless
    <3>0. disputed \subseteq disputed' /\ (row \notin disputed' => alone \/ ~new)
      BY <2>3
    <3>1. CASE v = w
      <4>1. CASE new
        BY <2>4, <3>0, <3>1, <4>1
      <4>2. CASE ~new
        <5>1. arp_cache[row].mac = h
          BY <2>4, <2>7, <3>0, <3>1, <4>2, ArpAssumption DEF ArpInv, NoMixUp
        <5>2. QED
          BY <1>0, <2>1, <2>4, <3>1, <4>2, <5>1
      <4>3. QED
        BY <4>1, <4>2
    <3>2. CASE v # w
      <4>1. AtWork(v) /\ Undisturbed(v) /\ Harmless(v) /\ job[v].step # "idle"
            /\ job[v].row \notin disputed
        BY <2>5, <3>0, <3>2 DEF ArpInv
      <4>2. job[v].row \in Rows
        BY <4>1 DEF AtWork
      <4>3. CASE job[v].row # row
        BY <1>0, <2>5, <3>2, <4>1, <4>2, <4>3 DEF Harmless
      <4>4. CASE job[v].row = row /\ job[v].new
        <5>1. arp_cache[row].ip = NoHost
          BY <4>1, <4>4 DEF Harmless, Undisturbed
        <5>2. new
          BY <2>7, <5>1, ArpAssumption
        <5>3. QED
          BY <2>5, <2>6, <3>0, <3>2, <4>4, <5>2
      <4>5. CASE job[v].row = row /\ ~job[v].new
        BY <1>0, <2>5, <3>2, <4>1, <4>2, <4>5 DEF Harmless
      <4>6. QED
        BY <4>3, <4>4, <4>5
    <3>3. QED
      BY <3>1, <3>2
  <2>11. NoMixUp'
    BY <1>0, <2>3 DEF ArpInv, NoMixUp
  <2>12. ReadsRight'
    BY <1>0, <2>3 DEF ArpInv, ReadsRight, ArpTypeOK
  <2>13. QED
    BY <2>8, <2>9, <2>10, <2>11, <2>12 DEF ArpInv
<1>3. QED
  BY <1>1, <1>2

(* A writer writes the MAC address. *)
LEMMA WriteMacKeeps ==
  ASSUME ArpTypeOK, ArpInv, NEW w \in Writers, WriteMac(w)
  PROVE  ArpInv'
<1> DEFINE i == job[w].row
<1>1. i \in Rows /\ job[w].host \in Hosts /\ job[w].step = "mac"
  BY DEF WriteMac, ArpInv, AtWork
<1>2. /\ arp_cache'[i].mac = job[w].host
      /\ \A j \in Rows \ {i} : arp_cache'[j].mac = arp_cache[j].mac
      /\ \A j \in Rows : arp_cache'[j].ip = arp_cache[j].ip
  BY <1>1 DEF WriteMac, ArpTypeOK
<1>3. /\ job'[w].step = "ip"
      /\ \A v \in Writers : /\ job'[v].host = job[v].host /\ job'[v].row = job[v].row
                            /\ job'[v].new = job[v].new /\ job'[v].alone = job[v].alone
      /\ \A v \in Writers \ {w} : job'[v].step = job[v].step
  BY DEF WriteMac, ArpTypeOK
<1>4. reading' = reading /\ disputed' = disputed
  BY DEF WriteMac
<1>5. AtWork(w) /\ Undisturbed(w) /\ Harmless(w)
  BY DEF ArpInv
<1>6. i \notin disputed /\ ~job[w].new => arp_cache'[i].mac = arp_cache[i].mac
  BY <1>1, <1>2, <1>5 DEF Harmless
<1>7. i \notin disputed /\ job[w].new => job[w].alone
  BY <1>1, <1>5 DEF Harmless
<1> HIDE DEF i
<1>8. ASSUME NEW v \in Writers PROVE AtWork(v)'
  <2>1. AtWork(v)
    BY DEF ArpInv
  <2>2. QED
    BY <1>1, <1>3, <2>1 DEF AtWork, i
<1>9. ASSUME NEW v \in Writers PROVE Undisturbed(v)'
  <2> SUFFICES ASSUME job'[v].step # "idle", job'[v].alone
               PROVE  /\ \A u \in Writers \ {v} : job'[u].row # job'[v].row
                      /\ arp_cache'[job'[v].row].ip \in
                           IF job'[v].new THEN {NoHost} ELSE {job'[v].host, NoHost}
                      /\ job'[v].step = "ip" => arp_cache'[job'[v].row].mac = job'[v].host
                      /\ \A t \in Readers :
                           reading'[t].row = job'[v].row => reading'[t].ip = job'[v].host
    BY DEF Undisturbed
  <2>1. AtWork(v) /\ Undisturbed(v) /\ job[v].step # "idle" /\ job[v].alone
    BY <1>1, <1>3 DEF ArpInv
  <2>2. job[v].row \in Rows
    BY <2>1 DEF AtWork
  <2>3. \A u \in Writers \ {v} : job'[u].row # job'[v].row
    BY <1>3, <2>1 DEF Undisturbed
  <2>4. job'[v].step = "ip" => arp_cache'[job'[v].row].mac = job'[v].host
    <3>1. CASE v = w
      BY <1>2, <1>3, <3>1 DEF i
    <3>2. CASE v # w
      <4>1. job[v].row # i
        BY <2>1, <3>2 DEF Undisturbed, i
      <4>2. QED
        BY <1>2, <1>3, <2>1, <2>2, <3>2, <4>1 DEF Undisturbed
    <3>3. QED
      BY <3>1, <3>2
  <2>5. QED
    BY <1>2, <1>3, <1>4, <2>1, <2>2, <2>3, <2>4 DEF Undisturbed
<1>10. ASSUME NEW v \in Writers PROVE Harmless(v)'
  <2> SUFFICES ASSUME job'[v].step # "idle", job'[v].row \notin disputed'
               PROVE  IF job'[v].new THEN job'[v].alone
                      ELSE arp_cache'[job'[v].row].mac = job'[v].host
    BY DEF Harmless
  <2>1. AtWork(v) /\ Harmless(v) /\ job[v].step # "idle" /\ job[v].row \notin disputed
    BY <1>1, <1>3, <1>4 DEF ArpInv
  <2>2. job[v].row \in Rows
    BY <2>1 DEF AtWork
  <2>3. CASE job[v].new
    BY <1>3, <2>1, <2>3 DEF Harmless
  <2>4. CASE ~job[v].new /\ job[v].row # i
    BY <1>2, <1>3, <2>1, <2>2, <2>4 DEF Harmless
  <2>5. CASE ~job[v].new /\ job[v].row = i
    <3>1. CASE job[w].new
      <4>1. v # w /\ job[w].alone
        BY <1>7, <2>1, <2>5, <3>1
      <4>2. QED
        BY <1>1, <1>5, <2>5, <4>1 DEF Undisturbed, i
    <3>2. CASE ~job[w].new
      <4>1. arp_cache[i].mac = job[v].host
        BY <2>1, <2>5 DEF Harmless
      <4>2. QED
        BY <1>3, <1>6, <2>1, <2>5, <3>2, <4>1
    <3>3. QED
      BY <3>1, <3>2
  <2>6. QED
    BY <2>3, <2>4, <2>5
<1>11. NoMixUp'
  <2> SUFFICES ASSUME NEW j \in Rows, j \notin disputed, arp_cache[j].ip # NoHost
               PROVE  arp_cache'[j].mac = arp_cache'[j].ip
    BY <1>2, <1>4 DEF NoMixUp
  <2>1. arp_cache[j].mac = arp_cache[j].ip
    BY DEF ArpInv, NoMixUp
  <2>2. CASE j = i /\ job[w].new
    <3>1. arp_cache[i].ip = NoHost
      BY <1>1, <1>5, <1>7, <2>2 DEF Undisturbed, i
    <3>2. QED
      BY <2>2, <3>1
  <2>3. CASE j = i /\ ~job[w].new
    BY <1>2, <1>6, <2>1, <2>3
  <2>4. CASE j # i
    BY <1>2, <2>1, <2>4
  <2>5. QED
    BY <2>2, <2>3, <2>4
<1>12. ReadsRight'
  <2> SUFFICES ASSUME NEW t \in Readers, reading[t].row # NoRow,
                      reading[t].row \notin disputed
               PROVE  arp_cache'[reading[t].row].mac = reading[t].ip
    BY <1>4 DEF ReadsRight
  <2>1. arp_cache[reading[t].row].mac = reading[t].ip /\ reading[t].row \in Rows
    BY DEF ArpInv, ReadsRight, ArpTypeOK
  <2>2. CASE reading[t].row = i /\ job[w].new
    <3>1. reading[t].ip = job[w].host
      BY <1>1, <1>5, <1>7, <2>2 DEF Undisturbed, i
    <3>2. QED
      BY <1>2, <2>2, <3>1
  <2>3. CASE reading[t].row = i /\ ~job[w].new
    BY <1>6, <2>1, <2>3
  <2>4. CASE reading[t].row # i
    BY <1>2, <2>1, <2>4
  <2>5. QED
    BY <2>2, <2>3, <2>4
<1>13. QED
  BY <1>8, <1>9, <1>10, <1>11, <1>12 DEF ArpInv

(* A writer writes the time stamp and the IP address. *)
LEMMA FinishKeeps ==
  ASSUME ArpTypeOK, ArpInv, NEW w \in Writers, Finish(w)
  PROVE  ArpInv'
<1> DEFINE i == job[w].row
<1>1. i \in Rows /\ job[w].host \in Hosts /\ job[w].step = "ip"
  BY DEF Finish, ArpInv, AtWork
<1>2. /\ arp_cache'[i].ip = IF job[w].new THEN job[w].host ELSE arp_cache[i].ip
      /\ \A j \in Rows \ {i} : arp_cache'[j].ip = arp_cache[j].ip
      /\ \A j \in Rows : arp_cache'[j].mac = arp_cache[j].mac
  BY <1>1 DEF Finish, ArpTypeOK
<1>3. job'[w] = Idle /\ \A v \in Writers \ {w} : job'[v] = job[v]
  BY DEF Finish, ArpTypeOK
<1>4. reading' = reading
      /\ disputed' = IF job[w].alone THEN disputed \ {i} ELSE disputed
  BY DEF Finish
<1>5. AtWork(w) /\ Undisturbed(w) /\ Harmless(w)
  BY DEF ArpInv
<1>6. job[w].alone => /\ \A v \in Writers \ {w} : job[v].row # i
                      /\ arp_cache[i].mac = job[w].host
                      /\ arp_cache'[i].ip \in {job[w].host, NoHost}
                      /\ \A t \in Readers : reading[t].row = i => reading[t].ip = job[w].host
  BY <1>1, <1>2, <1>5 DEF Undisturbed
<1>7. ~job[w].alone /\ i \notin disputed => ~job[w].new
  BY <1>1, <1>5 DEF Harmless
<1> HIDE DEF i
<1>8. ASSUME NEW v \in Writers PROVE AtWork(v)'
  <2>1. AtWork(v)
    BY DEF ArpInv
  <2>2. QED
    BY <1>3, <2>1 DEF AtWork, Idle
<1>9. ASSUME NEW v \in Writers PROVE Undisturbed(v)'
  <2>1. CASE v = w
    BY <1>3, <2>1 DEF Undisturbed, Idle
  <2>2. CASE v # w
    <3> SUFFICES ASSUME job[v].step # "idle", job[v].alone PROVE Undisturbed(v)'
      BY <1>3, <2>2 DEF Undisturbed
    <3>1. AtWork(v) /\ Undisturbed(v)
      BY DEF ArpInv
    <3>2. job[v].row \in Rows /\ job[v].row # i
      BY <2>2, <3>1 DEF AtWork, Undisturbed, i
    <3>3. \A u \in Writers \ {v} : job'[u].row # job'[v].row
      <4>1. \A u \in Writers \ {v} : job[u].row # job[v].row
        BY <3>1 DEF Undisturbed
      <4>2. job'[w].row # job[v].row
        BY <1>3, <3>2, ArpAssumption DEF Idle, Rows, NoRow
      <4>3. QED
        BY <1>3, <2>2, <4>1, <4>2
    <3>4. QED
      BY <1>2, <1>3, <1>4, <2>2, <3>1, <3>2, <3>3 DEF Undisturbed
  <2>3. QED
    BY <2>1, <2>2
<1>10. ASSUME NEW v \in Writers PROVE Harmless(v)'
  <2>1. CASE v = w
    BY <1>3, <2>1 DEF Harmless, Idle
  <2>2. CASE v # w
    <3> SUFFICES ASSUME job[v].step # "idle", job[v].row \notin disputed'
                 PROVE  Harmless(v)'
      BY <1>3, <2>2 DEF Harmless
    <3>1. AtWork(v) /\ Harmless(v)
      BY DEF ArpInv
    <3>2. job[v].row \in Rows
      BY <3>1 DEF AtWork
    <3>3. job[v].row \notin disputed
      BY <1>4, <1>6, <2>2
    <3>4. QED
      BY <1>2, <1>3, <2>2, <3>1, <3>2, <3>3 DEF Harmless
  <2>3. QED
    BY <2>1, <2>2
<1>11. NoMixUp'
  <2> SUFFICES ASSUME NEW j \in Rows, j \notin disputed', arp_cache'[j].ip # NoHost
               PROVE  arp_cache'[j].mac = arp_cache'[j].ip
    BY DEF NoMixUp
  <2>1. CASE j # i
    BY <1>2, <1>4, <2>1 DEF ArpInv, NoMixUp
  <2>2. CASE j = i /\ job[w].alone
    BY <1>2, <1>6, <2>2
  <2>3. CASE j = i /\ ~job[w].alone
    BY <1>2, <1>4, <1>7, <2>3 DEF ArpInv, NoMixUp
  <2>4. QED
    BY <2>1, <2>2, <2>3
<1>12. ReadsRight'
  <2> SUFFICES ASSUME NEW t \in Readers, reading[t].row # NoRow,
                      reading[t].row \notin disputed'
               PROVE  arp_cache'[reading[t].row].mac = reading[t].ip
    BY <1>4 DEF ReadsRight
  <2>1. reading[t].row \in Rows
    BY DEF ArpTypeOK
  <2>2. CASE reading[t].row \notin disputed
    BY <1>2, <2>1, <2>2 DEF ArpInv, ReadsRight
  <2>3. CASE reading[t].row \in disputed
    <3>1. reading[t].row = i /\ job[w].alone
      BY <1>4, <2>3
    <3>2. QED
      BY <1>2, <1>6, <2>1, <3>1
  <2>4. QED
    BY <2>2, <2>3
<1>13. QED
  BY <1>8, <1>9, <1>10, <1>11, <1>12 DEF ArpInv

(* A reader searches, or is done. *)
LEMMA SearchKeeps ==
  ASSUME ArpTypeOK, ArpInv, NEW t \in Readers, NEW h \in Hosts, Search(t, h)
  PROVE  ArpInv'
<1> DEFINE row == FirstRow(Collected, h)
<1>0. /\ arp_cache' = Collected /\ job' = job /\ disputed' = disputed
      /\ \A i \in Rows : /\ arp_cache'[i].mac = arp_cache[i].mac
                         /\ arp_cache'[i].ip \in {arp_cache[i].ip, NoHost}
  BY CollectedRows DEF Search
<1>1. CASE row = NoRow
  <2>1. reading' = reading
    BY <1>1 DEF Search
  <2>2. QED
    BY <1>0, <2>1, CollectKeeps
<1>2. CASE row # NoRow
  <2>1. row \in Rows /\ arp_cache'[row].ip = h
    BY <1>0, <1>2, FirstRowFound
  <2>2. arp_cache[row].ip = h
    BY <1>0, <2>1, ArpAssumption
  <2>3. reading' = [reading EXCEPT ![t] = [row |-> row, ip |-> h]]
    BY <1>2 DEF Search
  <2>4. /\ reading'[t].row = row /\ reading'[t].ip = h
        /\ \A u \in Readers \ {t} : reading'[u] = reading[u]
    <3> HIDE DEF row
    <3>1. QED
      BY <2>3 DEF ArpTypeOK
  <2> HIDE DEF row
  <2>5. ASSUME NEW w \in Writers PROVE AtWork(w)' /\ Undisturbed(w)' /\ Harmless(w)'
    <3>1. AtWork(w) /\ Undisturbed(w) /\ Harmless(w)
      BY DEF ArpInv
    <3>2. AtWork(w)'
      BY <1>0, <3>1 DEF AtWork
    <3>3. Harmless(w)'
      BY <1>0, <3>1 DEF AtWork, Harmless
    <3>4. Undisturbed(w)'
      <4> SUFFICES ASSUME job[w].step # "idle", job[w].alone PROVE Undisturbed(w)'
        BY <1>0 DEF Undisturbed
      <4>1. job[w].row \in Rows
        BY <3>1 DEF AtWork
      <4>2. job[w].row = row => h = job[w].host
        BY <2>2, <3>1, ArpAssumption DEF Undisturbed
      <4>3. \A u \in Readers : reading'[u].row = job[w].row => reading'[u].ip = job[w].host
        BY <2>4, <3>1, <4>2 DEF Undisturbed
      <4>4. QED
        BY <1>0, <3>1, <4>1, <4>3 DEF Undisturbed
    <3>5. QED
      BY <3>2, <3>3, <3>4
  <2>6. NoMixUp'
    BY <1>0 DEF ArpInv, NoMixUp
  <2>7. ReadsRight'
    <3> SUFFICES ASSUME NEW u \in Readers, reading'[u].row # NoRow,
                        reading'[u].row \notin disputed
                 PROVE  arp_cache'[reading'[u].row].mac = reading'[u].ip
      BY <1>0 DEF ReadsRight
    <3>1. CASE u = t
      <4>1. arp_cache[row].mac = h
        BY <2>1, <2>2, <2>4, <3>1, ArpAssumption DEF ArpInv, NoMixUp
      <4>2. QED
        BY <1>0, <2>1, <2>4, <3>1, <4>1
    <3>2. CASE u # t
      <4>1. reading[u].row \in Rows
        BY <2>4, <3>2 DEF ArpTypeOK
      <4>2. QED
        BY <1>0, <2>4, <3>2, <4>1 DEF ArpInv, ReadsRight
    <3>3. QED
      BY <3>1, <3>2
  <2>8. QED
    BY <2>5, <2>6, <2>7 DEF ArpInv
<1>3. QED
  BY <1>1, <1>2

LEMMA ReleaseKeeps ==
  ASSUME ArpTypeOK, ArpInv, NEW t \in Readers, Release(t)
  PROVE  ArpInv'
<1>1. /\ arp_cache' = arp_cache /\ job' = job /\ disputed' = disputed
      /\ reading'[t].row = NoRow
      /\ \A u \in Readers \ {t} : reading'[u] = reading[u]
  BY DEF Release, ArpTypeOK, Nothing
<1>2. ASSUME NEW w \in Writers PROVE AtWork(w)' /\ Undisturbed(w)' /\ Harmless(w)'
  <2>1. AtWork(w) /\ Undisturbed(w) /\ Harmless(w)
    BY DEF ArpInv
  <2>2. job[w].step # "idle" => job[w].row # NoRow
    BY <2>1, ArpAssumption DEF AtWork, Rows, NoRow
  <2>3. Undisturbed(w)'
    BY <1>1, <2>1, <2>2 DEF Undisturbed
  <2>4. QED
    BY <1>1, <2>1, <2>3 DEF AtWork, Harmless
<1>3. NoMixUp' /\ ReadsRight'
  BY <1>1 DEF ArpInv, NoMixUp, ReadsRight
<1>4. QED
  BY <1>2, <1>3 DEF ArpInv

(* Every step keeps the invariant. *)
LEMMA ArpStep ==
  ASSUME ArpTypeOK, ArpInv, [ArpNext]_arpvars
  PROVE  ArpTypeOK' /\ ArpInv'
<1>1. ArpTypeOK'
  BY ArpTypesStep
<1>2. CASE Age
  <2>1. \A i \in Rows : arp_cache'[i].mac = arp_cache[i].mac
                        /\ arp_cache'[i].ip = arp_cache[i].ip
    BY <1>2 DEF Age, ArpTypeOK
  <2>2. UNCHANGED <<job, reading, disputed>>
    BY <1>2 DEF Age
  <2>3. QED
    BY <1>1, <2>1, <2>2, CollectKeeps
<1>3. CASE UNCHANGED arpvars
  BY <1>1, <1>3, CollectKeeps DEF arpvars
<1>4. CASE Learn
  BY <1>1, <1>4, ChooseKeeps, WriteMacKeeps, FinishKeeps DEF Learn
<1>5. CASE \E t \in Readers : Release(t) \/ \E h \in Hosts : Search(t, h)
  BY <1>1, <1>5, ReleaseKeeps, SearchKeeps
<1>6. QED
  BY <1>2, <1>3, <1>4, <1>5 DEF ArpNext

-------------------------------------------------------------------------------

(* The rows, the writers' and the readers' places in them have their types,
   whatever the number of tasks and rows (hdr_arp.cpp:56-100). *)
THEOREM ArpTypes == ArpSpec => []ArpTypeOK
<1>1. ArpTypeOK /\ ArpInv /\ [ArpNext]_arpvars => ArpTypeOK' /\ ArpInv'
  BY ArpStep
<1>2. QED
  BY <1>1, ArpInitInv, PTL DEF ArpSpec

(* An undisputed row that names a host holds that host's MAC address
   (hdr_arp.cpp:56-79). *)
THEOREM RowsAreTheirHosts == ArpSpec => []NoMixUp
<1>1. ArpTypeOK /\ ArpInv /\ [ArpNext]_arpvars => ArpTypeOK' /\ ArpInv'
  BY ArpStep
<1>2. ArpInv => NoMixUp
  BY DEF ArpInv
<1>3. QED
  BY <1>1, <1>2, ArpInitInv, PTL DEF ArpSpec

(* A task that copies from the undisputed row its search returned copies the MAC
   address of the host it searched (hdr_arp.cpp:96-100, 143-147). *)
THEOREM CopiesAreRight == ArpSpec => []ReadsRight
<1>1. ArpTypeOK /\ ArpInv /\ [ArpNext]_arpvars => ArpTypeOK' /\ ArpInv'
  BY ArpStep
<1>2. ArpInv => ReadsRight
  BY DEF ArpInv
<1>3. QED
  BY <1>1, <1>2, ArpInitInv, PTL DEF ArpSpec
===============================================================================
