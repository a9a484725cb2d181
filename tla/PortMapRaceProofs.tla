-------------------------- MODULE PortMapRaceProofs --------------------------
(***************************************************************************)
(* What PortMapRace states, proved for any number of clients, ports,       *)
(* servers, receive tasks and rows.                                        *)
(*                                                                         *)
(* The invariant follows a row through its life: nobody shares an          *)
(* undisputed row with a task that writes it (AloneAlone), so what this    *)
(* task has written is still there (Progress), and a row that nobody       *)
(* writes is blank or whole (Contents).  A row that is held was refreshed  *)
(* by its holder and is not collected (HeldYoung); the port that waits for *)
(* its row is in no other (Reserved), nor is its flow (Unfiled).           *)
(***************************************************************************)
EXTENDS PortMapRace, TLAPS

\* Where a task is in its work.
Pending == \/ task[Sender].step \in {"add", "empty", "fill"}
           \/ task[Sender].goal \in {"add", "empty"}

Control ==
  /\ \A t \in Tasks :
       /\ task[t].step \in {"collect", "clear"} => task[t].at \in Rows
       /\ task[t].step \in {"collect", "clear"} <=> task[t].goal # "idle"
       /\ task[t].step = "clear" => task[t].wr <= 4
  /\ \A t \in Receivers :
       /\ task[t].step \in {"idle", "collect", "clear", "search", "read"}
       /\ task[t].goal \in {"idle", "search"}
       /\ task[t].row # NoRow <=> task[t].step = "read"
       /\ task[t].step = "read" => task[t].port \in Ports
  /\ task[Sender].step \notin {"search", "read"}
  /\ task[Sender].goal # "search"
  /\ task[Sender].row # NoRow <=> \/ task[Sender].step \in {"renew", "fill", "send"}
                                  \/ task[Sender].goal = "renew"
  /\ task[Sender].row # NoRow => packet \in Traffic
  /\ Pending => /\ packet \in Traffic
                /\ task[Sender].port \in Ports
                /\ owner[task[Sender].port] = packet

\* A held row was just refreshed, so its holder does not collect it.
HeldYoung ==
  /\ \A t \in Tasks, i \in Rows : Holds(t, i) => ~pmap[i].old
  /\ \A t \in Tasks, i \in Rows : Clears(t, i) => task[t].row # i

\* What it means to be alone, and that nobody shares an undisputed row.
AloneAlone ==
  /\ \A t \in alone : task[t].step \in {"clear", "fill"}
  /\ \A t \in alone, u \in Tasks, i \in Rows :
       Clears(t, i) /\ u # t => ~Clears(u, i) /\ task[u].row # i
  /\ \A t \in alone, u \in Tasks, i \in Rows :
       Fills(t, i) /\ u # t => ~Clears(u, i)
  /\ \A t \in Tasks, i \in Rows \ disputed : Clears(t, i) \/ Fills(t, i) => t \in alone

\* What a task alone has written is still there.
Progress ==
  /\ \A t \in alone, i \in Rows : Clears(t, i) =>
       /\ task[t].wr >= 1 => pmap[i].ip_protocol = 0
       /\ task[t].wr >= 2 => pmap[i].server_ip = 0
       /\ task[t].wr >= 4 => pmap[i].lte_port = 0
  /\ \A i \in Rows : Sender \in alone /\ Fills(Sender, i) =>
       /\ task[Sender].wr >= 1 => pmap[i].ip_protocol = Udp
       /\ task[Sender].wr >= 2 => pmap[i].client_ip = packet.client
       /\ task[Sender].wr >= 3 => pmap[i].eth_port = packet.eport
       /\ task[Sender].wr >= 4 => pmap[i].server_ip = packet.server
       /\ task[Sender].wr >= 5 => pmap[i].lte_port = task[Sender].port

\* An undisputed row is blank, being written, or whole.
Whole(i) == /\ pmap[i].lte_port \in Ports
            /\ owner[pmap[i].lte_port] \in Traffic
            /\ pmap[i].client_ip = owner[pmap[i].lte_port].client
            /\ pmap[i].eth_port = owner[pmap[i].lte_port].eport

Contents ==
  \A i \in Rows \ disputed :
    /\ Live(i) /\ ~Fills(Sender, i) => Whole(i)
    /\ ~Live(i) /\ (\A t \in Tasks : ~Clears(t, i))
         => pmap[i].server_ip = 0 /\ pmap[i].lte_port = 0
    /\ Fills(Sender, i) /\ task[Sender].wr < 5 => pmap[i].lte_port = 0
    /\ \A t \in Receivers : Holds(t, i) =>
         Live(i) /\ pmap[i].lte_port = task[t].port
    /\ Holds(Sender, i) => /\ Live(i)
                           /\ pmap[i].client_ip = packet.client
                           /\ pmap[i].eth_port = packet.eport

\* The port that waits for its row is in no other.
Reserved ==
  Pending => \A i \in Rows \ disputed :
    Live(i) /\ ~Fills(Sender, i) => pmap[i].lte_port # task[Sender].port

IInv == /\ TypeOK /\ Control /\ HeldYoung /\ AloneAlone /\ Progress
        /\ Contents /\ Reserved /\ PortsApart

-------------------------------------------------------------------------------
(* Steps that change ages only, and tasks that go back to wait *)

\* Only ages of rows change.
OnlyAges == /\ pmap' \in [Rows -> Row]
            /\ \A j \in Rows : /\ pmap'[j].ip_protocol = pmap[j].ip_protocol
                               /\ pmap'[j].client_ip = pmap[j].client_ip
                               /\ pmap'[j].eth_port = pmap[j].eth_port
                               /\ pmap'[j].server_ip = pmap[j].server_ip
                               /\ pmap'[j].lte_port = pmap[j].lte_port

LEMMA FreshAges ==
  ASSUME TypeOK, NEW i \in Rows, Fresh(i)
  PROVE  /\ OnlyAges
         /\ ~pmap'[i].old
         /\ \A j \in Rows : pmap'[j].old => pmap[j].old
<1> DEFINE r == pmap[i]
<1>1. /\ pmap \in [Rows -> Row] /\ r \in Row
      /\ pmap' = [pmap EXCEPT ![i] = [r EXCEPT !.old = FALSE]]
  BY DEF TypeOK, Fresh
<1>2. [r EXCEPT !.old = FALSE] \in Row
  BY <1>1 DEF Row
<1>3. /\ [r EXCEPT !.old = FALSE].ip_protocol = r.ip_protocol
      /\ [r EXCEPT !.old = FALSE].client_ip = r.client_ip
      /\ [r EXCEPT !.old = FALSE].eth_port = r.eth_port
      /\ [r EXCEPT !.old = FALSE].server_ip = r.server_ip
      /\ [r EXCEPT !.old = FALSE].lte_port = r.lte_port
      /\ ~[r EXCEPT !.old = FALSE].old
  BY <1>1 DEF Row
<1>4. /\ pmap'[i] = [r EXCEPT !.old = FALSE]
      /\ \A j \in Rows : j # i => pmap'[j] = pmap[j]
      /\ pmap' \in [Rows -> Row]
  BY <1>1, <1>2
<1> QED
  BY <1>3, <1>4 DEF OnlyAges

LEMMA AgeAges ==
  ASSUME TypeOK, Age
  PROVE  /\ OnlyAges
         /\ \A t \in Tasks, i \in Rows : Holds(t, i) => pmap'[i] = pmap[i]
<1>1. PICK i \in Rows : /\ {t \in Tasks : Holds(t, i)} = {}
                        /\ pmap' = [pmap EXCEPT ![i].old = ~@]
  BY DEF Age
<1> DEFINE r == pmap[i]
           n == [r EXCEPT !.old = ~r.old]
<1>2. /\ pmap \in [Rows -> Row] /\ r \in Row
      /\ pmap' = [pmap EXCEPT ![i] = n]
  BY <1>1 DEF TypeOK
<1>3. n \in Row
  BY <1>2 DEF Row
<1>4. /\ n.ip_protocol = r.ip_protocol
      /\ n.client_ip = r.client_ip
      /\ n.eth_port = r.eth_port
      /\ n.server_ip = r.server_ip
      /\ n.lte_port = r.lte_port
  BY <1>2 DEF Row
<1> HIDE DEF n
<1>5. /\ pmap'[i] = n
      /\ \A j \in Rows : j # i => pmap'[j] = pmap[j]
      /\ pmap' \in [Rows -> Row]
  BY <1>2, <1>3
<1>6. \A t \in Tasks : ~Holds(t, i)
  BY <1>1
<1> QED
  BY <1>4, <1>5, <1>6 DEF OnlyAges

\* A task that neither collects nor writes goes back to wait.
LEMMA Rests ==
  ASSUME IInv, NEW t \in Tasks,
         task[t].step \notin {"clear", "fill"},
         task' = [task EXCEPT ![t] = Idle],
         packet' = packet \/ (t = Sender /\ packet' = NoFlow),
         UNCHANGED <<pmap, owner, alone, disputed>>
  PROVE  IInv'
<1>1. Idle \in Job
  BY DEF Idle, Job
<1>2. /\ task' \in [Tasks -> Job]
      /\ task'[t] = Idle
      /\ \A u \in Tasks : u # t => task'[u] = task[u]
  BY <1>1 DEF IInv, TypeOK
<1>3. /\ \A u \in Tasks, j \in Rows :
           /\ Fills(u, j)' <=> Fills(u, j)
           /\ Holds(u, j)' <=> Holds(u, j) /\ u # t
           /\ Clears(u, j)' <=> Clears(u, j)
      /\ \A j \in Rows : ~Fills(t, j) /\ ~Clears(t, j)
  BY <1>2 DEF Fills, Holds, Clears, Idle, Rows, NoRow
<1>4. Pending' => t # Sender
  BY <1>2 DEF Pending, Idle
<1>5. t \notin alone
  BY DEF IInv, AloneAlone
<1>6. TypeOK'
  BY <1>2 DEF IInv, TypeOK
<1>7. Control'
  BY <1>2, <1>4, RaceAssumption DEF IInv, TypeOK, Control, Pending, Idle, Tasks
<1>8. HeldYoung'
  <2>1. \A u \in Tasks, j \in Rows : Holds(u, j)' => ~pmap'[j].old
    BY <1>3 DEF IInv, HeldYoung
  <2>2. \A u \in Tasks, j \in Rows : Clears(u, j)' => task'[u].row # j
    BY <1>2, <1>3 DEF IInv, HeldYoung
  <2> QED
    BY <2>1, <2>2 DEF HeldYoung
<1>9. AloneAlone'
  BY <1>2, <1>3, <1>5 DEF IInv, TypeOK, AloneAlone, Idle, Rows, NoRow
<1>10. Progress'
  <2>1. \A u \in alone : task'[u] = task[u]
    BY <1>2, <1>5 DEF IInv, TypeOK
  <2>2. \A j \in Rows : Fills(Sender, j)' => packet' = packet
    BY <1>3 DEF Tasks
  <2> QED
    BY <1>3, <2>1, <2>2 DEF IInv, TypeOK, Progress, Tasks
<1>11. Contents'
  <2>1. \A u \in Receivers : u \in Tasks /\ u # Sender
    BY RaceAssumption DEF Tasks
  <2>2. \A j \in Rows : Holds(Sender, j)' => Holds(Sender, j) /\ packet' = packet
    BY <1>3 DEF Tasks
  <2>3. \A j \in Rows : Fills(Sender, j)' => task'[Sender] = task[Sender]
    BY <1>2, <1>3 DEF Tasks
  <2>4. \A u \in Receivers, j \in Rows : Holds(u, j)' => Holds(u, j) /\ task'[u] = task[u]
    BY <1>2, <1>3, <2>1
  <2> QED
    BY <1>3, <2>1, <2>2, <2>3, <2>4 DEF IInv, Contents, Whole, Live, Tasks
<1>12. Reserved'
  BY <1>2, <1>3, <1>4 DEF IInv, Reserved, Pending, Live, Tasks
<1>13. PortsApart'
  BY DEF IInv, PortsApart, Live
<1> QED
  BY <1>6, <1>7, <1>8, <1>9, <1>10, <1>11, <1>12, <1>13 DEF IInv

-------------------------------------------------------------------------------
(* The collection *)

LEMMA BeginStep ==
  ASSUME IInv, NEW t \in Tasks, Begin(t)
  PROVE  IInv'
<1> DEFINE goal == IF t = Sender THEN "find" ELSE "search"
           job == Collect(goal, NoRow, 0)
<1>1. /\ task[t].step = "idle"
      /\ task' = [task EXCEPT ![t] = job]
      /\ UNCHANGED <<pmap, packet, owner, alone, disputed>>
  BY DEF Begin
<1>2. job \in Job
  BY RaceAssumption DEF Collect, Job, Rows, NoRow
<1>3. /\ task' \in [Tasks -> Job]
      /\ task'[t] = job
      /\ \A u \in Tasks : u # t => task'[u] = task[u]
  BY <1>1, <1>2 DEF IInv, TypeOK
<1>4. task[t].row = NoRow /\ task[t].goal = "idle"
  BY <1>1 DEF IInv, Control, Tasks
<1>5. \A u \in Tasks, j \in Rows :
        /\ Fills(u, j)' <=> Fills(u, j)
        /\ Holds(u, j)' <=> Holds(u, j)
        /\ Clears(u, j)' <=> Clears(u, j)
        /\ u = t => ~Fills(u, j) /\ ~Holds(u, j) /\ ~Clears(u, j)
  BY <1>1, <1>3, <1>4 DEF Fills, Holds, Clears, Collect, Rows, NoRow
<1>6. TypeOK'
  BY <1>1, <1>3 DEF IInv, TypeOK
<1>7. Control'
  BY <1>1, <1>3, <1>4, RaceAssumption
  DEF IInv, Control, Pending, Tasks, Collect, Rows, NoRow
<1>8. HeldYoung'
  BY <1>1, <1>3, <1>5 DEF IInv, HeldYoung
<1>9. AloneAlone'
  BY <1>1, <1>3, <1>4, <1>5 DEF IInv, TypeOK, AloneAlone, Collect, Rows, NoRow
<1>10. Progress'
  <2>1. \A j \in Rows : ~Clears(t, j) /\ ~Fills(t, j)
    BY <1>5
  <2> QED
    BY <1>1, <1>3, <1>5, <2>1 DEF IInv, TypeOK, Progress, Tasks
<1>11. Contents'
  BY <1>1, <1>3, <1>5 DEF IInv, Contents, Whole, Live, Tasks
<1>12. Reserved'
  BY <1>1, <1>3, <1>5 DEF IInv, Reserved, Pending, Live, Tasks, Collect
<1>13. PortsApart'
  BY <1>1 DEF IInv, PortsApart, Live
<1> QED
  BY <1>6, <1>7, <1>8, <1>9, <1>10, <1>11, <1>12, <1>13 DEF IInv

\* What a task that takes a row to write it does to the observations.
LEMMA TakeFacts ==
  ASSUME IInv, NEW t \in Tasks, NEW i \in Rows, Take(t, i)
  PROVE  /\ alone' \subseteq alone \cup {t}
         /\ disputed \subseteq disputed' /\ disputed' \subseteq disputed \cup {i}
         /\ i \notin disputed' =>
              /\ t \in alone'
              /\ \A u \in Tasks : u # t => ~Clears(u, i) /\ task[u].row # i
         /\ t \in alone' => \/ t \in alone /\ ~Clears(t, i) /\ ~Fills(t, i)
                            \/ \A u \in Tasks : u # t => ~Clears(u, i) /\ task[u].row # i
         /\ \A u \in alone' : u # t => u \in alone /\ ~Clears(u, i) /\ ~Fills(u, i)
         /\ \A u \in alone : ~Clears(u, i) /\ ~Fills(u, i) => u \in alone'
<1>1. \A u \in Tasks : u # t /\ Fills(u, i) => task[u].row = i
  BY DEF Fills
<1>2. CASE Working(t, i) = {}
  <2>1. alone' = alone \cup {t} /\ disputed' = disputed
    BY <1>2 DEF Take
  <2>2. \A u \in Tasks : u # t => ~Clears(u, i) /\ task[u].row # i
    BY <1>2 DEF Working, Others
  <2> QED
    BY <1>1, <2>1, <2>2 DEF IInv, TypeOK
<1>3. CASE Working(t, i) # {}
  <2>1. /\ alone' = alone \ {u \in Tasks : Clears(u, i) \/ Fills(u, i)}
        /\ disputed' = disputed \cup {i}
    BY <1>3 DEF Take
  <2> QED
    BY <2>1 DEF IInv, TypeOK
<1> QED
  BY <1>2, <1>3

LEMMA CondemnStep ==
  ASSUME IInv, NEW t \in Tasks, Condemn(t)
  PROVE  IInv'
<1> DEFINE i == task[t].at
           job == [step |-> "clear", goal |-> task[t].goal, at |-> i,
                   wr |-> 0, row |-> task[t].row, port |-> task[t].port]
<1>1. /\ i \in Rows
      /\ task[t].step = "collect" /\ task[t] \in Job /\ task[t].goal # "idle"
      /\ Live(i) /\ pmap[i].old
      /\ task' = [task EXCEPT ![t] = job]
      /\ Take(t, i)
      /\ UNCHANGED <<pmap, packet, owner>>
  BY DEF IInv, TypeOK, Control, Condemn
<1>2. job \in Job
  BY <1>1 DEF Job
<1>3. /\ task' \in [Tasks -> Job]
      /\ task'[t] = job
      /\ \A u \in Tasks : u # t => task'[u] = task[u]
  BY <1>1, <1>2 DEF IInv, TypeOK
<1>4. /\ task'[t].step = "clear" /\ task'[t].at = i /\ task'[t].wr = 0
      /\ task'[t].goal = task[t].goal
      /\ \A u \in Tasks : task'[u].row = task[u].row /\ task'[u].port = task[u].port
  BY <1>3
<1> HIDE DEF i, job
<1>5. /\ alone' \subseteq alone \cup {t}
      /\ disputed \subseteq disputed' /\ disputed' \subseteq disputed \cup {i}
      /\ i \notin disputed' =>
           /\ t \in alone'
           /\ \A u \in Tasks : u # t => ~Clears(u, i) /\ task[u].row # i
      /\ t \in alone' => \/ t \in alone /\ ~Clears(t, i) /\ ~Fills(t, i)
                         \/ \A u \in Tasks : u # t => ~Clears(u, i) /\ task[u].row # i
      /\ \A u \in alone' : u # t => u \in alone /\ ~Clears(u, i) /\ ~Fills(u, i)
      /\ \A u \in alone : ~Clears(u, i) /\ ~Fills(u, i) => u \in alone'
  BY <1>1, TakeFacts
<1>6. t \notin alone
  BY <1>1 DEF IInv, AloneAlone
<1>7. \A u \in Tasks, j \in Rows :
        /\ Fills(u, j)' <=> Fills(u, j)
        /\ Holds(u, j)' <=> Holds(u, j)
        /\ Clears(u, j)' <=> Clears(u, j) \/ (u = t /\ j = i)
  <2> SUFFICES ASSUME NEW u \in Tasks, NEW j \in Rows
               PROVE  /\ Fills(u, j)' <=> Fills(u, j)
                      /\ Holds(u, j)' <=> Holds(u, j)
                      /\ Clears(u, j)' <=> Clears(u, j) \/ (u = t /\ j = i)
    OBVIOUS
  <2>1. CASE u # t
    BY <1>3, <2>1 DEF Fills, Holds, Clears
  <2>2. CASE u = t
    BY <1>1, <1>4, <2>2 DEF Fills, Holds, Clears
  <2> QED
    BY <2>1, <2>2
<1>8. \A u \in Tasks : ~Holds(u, i)
  BY <1>1 DEF IInv, HeldYoung
<1>9. Pending' <=> Pending
  BY <1>1, <1>3, <1>4 DEF Pending, Tasks
<1>10. TypeOK'
  BY <1>1, <1>3, <1>5 DEF IInv, TypeOK
<1>11. Control'
  <2>1. \A u \in Tasks :
          /\ task'[u].step \in {"collect", "clear"} => task'[u].at \in Rows
          /\ task'[u].step \in {"collect", "clear"} <=> task'[u].goal # "idle"
          /\ task'[u].step = "clear" => task'[u].wr <= 4
    BY <1>1, <1>3, <1>4 DEF IInv, Control
  <2> QED
    BY <1>1, <1>3, <1>4, <1>9, <2>1 DEF IInv, Control, Tasks
<1>12. HeldYoung'
  <2>1. task[t].row # i
    BY <1>1, <1>8 DEF Holds
  <2> QED
    BY <1>1, <1>4, <1>7, <2>1 DEF IInv, HeldYoung
<1>13. AloneAlone'
  <2>1. \A u \in alone' : task'[u].step \in {"clear", "fill"}
    BY <1>3, <1>4, <1>5 DEF IInv, TypeOK, AloneAlone
  <2>2. \A u \in alone', v \in Tasks, j \in Rows :
          Clears(u, j)' /\ v # u => ~Clears(v, j)' /\ task'[v].row # j
    BY <1>1, <1>4, <1>5, <1>6, <1>7 DEF IInv, TypeOK, AloneAlone, Clears
  <2>3. \A u \in alone', v \in Tasks, j \in Rows :
          Fills(u, j)' /\ v # u => ~Clears(v, j)'
    BY <1>1, <1>4, <1>5, <1>6, <1>7 DEF IInv, TypeOK, AloneAlone, Fills
  <2>4. \A u \in Tasks, j \in Rows \ disputed' : Clears(u, j)' \/ Fills(u, j)' => u \in alone'
    <3> SUFFICES ASSUME NEW u \in Tasks, NEW j \in Rows \ disputed',
                        Clears(u, j) \/ Fills(u, j), u # t
                 PROVE  u \in alone'
      BY <1>1, <1>5, <1>7 DEF Fills, Clears
    <3>1. u \in alone
      BY <1>5 DEF IInv, AloneAlone
    <3>2. ~Clears(u, i) /\ ~Fills(u, i)
      BY <1>5, <3>1 DEF Clears, Fills
    <3> QED
      BY <1>5, <3>1, <3>2
  <2> QED
    BY <2>1, <2>2, <2>3, <2>4 DEF AloneAlone
<1>14. Progress'
  BY <1>1, <1>3, <1>4, <1>5, <1>6, <1>7 DEF IInv, TypeOK, Progress, Tasks, Clears, Fills
<1>15. Contents'
  BY <1>1, <1>3, <1>4, <1>5, <1>7, <1>8 DEF IInv, Contents, Whole, Live, Tasks, Fills
<1>16. Reserved'
  BY <1>1, <1>4, <1>5, <1>7, <1>9 DEF IInv, Reserved, Live, Tasks
<1>17. PortsApart'
  BY <1>1, <1>5 DEF IInv, PortsApart, Live
<1> QED
  BY <1>10, <1>11, <1>12, <1>13, <1>14, <1>15, <1>16, <1>17 DEF IInv

LEMMA SpareStep ==
  ASSUME IInv, NEW t \in Tasks, Spare(t)
  PROVE  IInv'
<1>1. /\ task[t].step = "collect" /\ task[t].at \in Rows
      /\ task[t] \in Job /\ task[t].goal # "idle"
      /\ task' = [task EXCEPT ![t] = Advanced(task[t])]
      /\ UNCHANGED <<pmap, packet, owner, alone, disputed>>
  BY DEF IInv, TypeOK, Control, Spare
<1>2. Advanced(task[t]) \in Job
  BY <1>1, RaceAssumption DEF Advanced, Job, Rows, NoRow
<1>3. /\ task' \in [Tasks -> Job]
      /\ task'[t] = Advanced(task[t])
      /\ \A u \in Tasks : u # t => task'[u] = task[u]
  BY <1>1, <1>2 DEF IInv, TypeOK
<1>4. /\ \A u \in Tasks : task'[u].row = task[u].row /\ task'[u].port = task[u].port
      /\ \/ /\ task'[t].step = "collect" /\ task'[t].goal = task[t].goal
            /\ task'[t].at \in Rows
         \/ task'[t].step = task[t].goal /\ task'[t].goal = "idle"
  BY <1>1, <1>3, RaceAssumption DEF Advanced, Rows
<1>5. task[t].goal \in {"find", "renew", "add", "empty", "search"}
  BY <1>1 DEF Job
<1>6. \A u \in Tasks, j \in Rows :
        /\ Fills(u, j)' <=> Fills(u, j)
        /\ Holds(u, j)' <=> Holds(u, j)
        /\ Clears(u, j)' <=> Clears(u, j)
  BY <1>1, <1>3, <1>4, <1>5 DEF Fills, Holds, Clears
<1>7. Pending' <=> Pending
  BY <1>1, <1>3, <1>4, <1>5 DEF Pending, Tasks
<1>8. /\ t \notin alone
      /\ \A j \in Rows : ~Clears(t, j) /\ ~Fills(t, j)
  BY <1>1 DEF IInv, AloneAlone, Clears, Fills
<1>9. TypeOK'
  BY <1>1, <1>3 DEF IInv, TypeOK
<1>10. Control'
  <2>1. \A u \in Tasks :
          /\ task'[u].step \in {"collect", "clear"} => task'[u].at \in Rows
          /\ task'[u].step \in {"collect", "clear"} <=> task'[u].goal # "idle"
          /\ task'[u].step = "clear" => task'[u].wr <= 4
    BY <1>1, <1>3, <1>4, <1>5 DEF IInv, Control
  <2>2. \A u \in Receivers :
          /\ task'[u].step \in {"idle", "collect", "clear", "search", "read"}
          /\ task'[u].goal \in {"idle", "search"}
          /\ task'[u].row # NoRow <=> task'[u].step = "read"
          /\ task'[u].step = "read" => task'[u].port \in Ports
    BY <1>1, <1>3, <1>4, <1>5 DEF IInv, Control, Tasks
  <2>3. /\ task'[Sender].step \notin {"search", "read"}
        /\ task'[Sender].goal # "search"
        /\ task'[Sender].row # NoRow <=> \/ task'[Sender].step \in {"renew", "fill", "send"}
                                         \/ task'[Sender].goal = "renew"
    BY <1>1, <1>3, <1>4, <1>5 DEF IInv, Control, Tasks
  <2> QED
    BY <1>1, <1>4, <1>7, <2>1, <2>2, <2>3 DEF IInv, Control, Tasks
<1>11. HeldYoung'
  BY <1>1, <1>4, <1>6 DEF IInv, HeldYoung
<1>12. AloneAlone'
  BY <1>1, <1>3, <1>4, <1>6, <1>8 DEF IInv, TypeOK, AloneAlone
<1>13. Progress'
  BY <1>1, <1>3, <1>6, <1>8 DEF IInv, TypeOK, Progress, Tasks
<1>14. Contents'
  BY <1>1, <1>3, <1>4, <1>6, <1>8 DEF IInv, Contents, Whole, Live, Tasks
<1>15. Reserved'
  BY <1>1, <1>4, <1>6, <1>7 DEF IInv, Reserved, Live, Tasks
<1>16. PortsApart'
  BY <1>1 DEF IInv, PortsApart, Live
<1> QED
  BY <1>9, <1>10, <1>11, <1>12, <1>13, <1>14, <1>15, <1>16 DEF IInv

LEMMA ClearStep ==
  ASSUME IInv, NEW t \in Tasks, Clear(t)
  PROVE  IInv'
<1> DEFINE i == task[t].at
           k == task[t].wr + 1
<1>1. /\ i \in Rows /\ k \in 1 .. 5
      /\ task[t].step = "clear"
      /\ pmap[i] \in Row /\ task[t] \in Job
      /\ task[t].goal # "idle"
  BY DEF IInv, TypeOK, Control, Clear, Job
<1>2. Cleared(pmap[i], k) \in Row
  BY <1>1 DEF Row, Cleared
<1>3. /\ pmap' \in [Rows -> Row]
      /\ pmap'[i] = Cleared(pmap[i], k)
      /\ \A j \in Rows : j # i => pmap'[j] = pmap[j]
  BY <1>1, <1>2 DEF IInv, TypeOK, Clear
<1>4. \A j \in Rows : pmap'[j].old = pmap[j].old
  BY <1>3 DEF Cleared
<1>5. /\ Written(task[t]) \in Job \/ k = 5
      /\ Advanced(task[t]) \in Job
  BY <1>1, RaceAssumption DEF Written, Advanced, Job, Rows, NoRow
<1>6. /\ task' \in [Tasks -> Job]
      /\ task'[t] = IF k < 5 THEN Written(task[t]) ELSE Advanced(task[t])
      /\ \A u \in Tasks : u # t => task'[u] = task[u]
  BY <1>1, <1>5 DEF IInv, TypeOK, Clear
<1>7. /\ task'[t].row = task[t].row /\ task'[t].port = task[t].port
      /\ k < 5 => /\ task'[t].step = "clear" /\ task'[t].goal = task[t].goal
                  /\ task'[t].at = i /\ task'[t].wr = k
      /\ k = 5 => \/ /\ task'[t].step = "collect" /\ task'[t].goal = task[t].goal
                     /\ task'[t].at \in Rows
                  \/ task'[t].step = task[t].goal /\ task'[t].goal = "idle"
  BY <1>1, <1>6, RaceAssumption DEF Written, Advanced, Rows
<1>8. /\ k < 5 => UNCHANGED <<alone, disputed>>
      /\ k = 5 => Settle(t, i)
      /\ UNCHANGED <<packet, owner>>
  BY <1>1 DEF Clear
<1>9. task[t].goal \in {"find", "renew", "add", "empty", "search"}
  BY <1>1 DEF Job
<1> HIDE DEF i, k
\* Who works on what.
<1>10. \A u \in Tasks, j \in Rows :
         /\ Fills(u, j)' <=> Fills(u, j)
         /\ Holds(u, j)' <=> Holds(u, j)
         /\ Clears(u, j)' <=> Clears(u, j) /\ ~(u = t /\ k = 5)
  BY <1>1, <1>6, <1>7, <1>9 DEF Fills, Holds, Clears, i
<1>11. /\ k < 5 => alone' = alone /\ disputed' = disputed
       /\ k = 5 => alone' = alone \ {t}
       /\ disputed' \subseteq disputed /\ disputed \subseteq disputed' \cup {i}
  BY <1>1, <1>8 DEF Settle
<1>12. i \notin disputed' => t \in alone
  <2>1. CASE i \notin disputed
    BY <1>1, <2>1 DEF IInv, AloneAlone, Clears, i
  <2>2. CASE i \in disputed /\ i \notin disputed'
    BY <1>1, <1>8, <2>2 DEF Settle
  <2> QED
    BY <2>1, <2>2
<1>13. i \notin disputed' =>
         /\ pmap'[i].ip_protocol = 0
         /\ k = 5 => pmap'[i].server_ip = 0 /\ pmap'[i].lte_port = 0
         /\ \A u \in Tasks : u # t => ~Clears(u, i) /\ task[u].row # i
         /\ task[t].row # i
  <2> SUFFICES ASSUME i \notin disputed'
               PROVE  /\ pmap'[i].ip_protocol = 0
                      /\ k = 5 => pmap'[i].server_ip = 0 /\ pmap'[i].lte_port = 0
                      /\ \A u \in Tasks : u # t => ~Clears(u, i) /\ task[u].row # i
                      /\ task[t].row # i
    OBVIOUS
  <2>1. t \in alone /\ Clears(t, i)
    BY <1>1, <1>12 DEF Clears, i
  <2>2. \A u \in Tasks : u # t => ~Clears(u, i) /\ task[u].row # i
    BY <1>1, <2>1 DEF IInv, AloneAlone
  <2>3. task[t].row # i
    BY <1>1, <2>1 DEF IInv, HeldYoung
  <2>4. /\ k >= 2 => pmap[i].ip_protocol = 0
        /\ k >= 3 => pmap[i].server_ip = 0
        /\ k >= 5 => pmap[i].lte_port = 0
    BY <1>1, <2>1 DEF IInv, TypeOK, Progress, Job, k
  <2>5. /\ pmap'[i].ip_protocol = 0
        /\ k = 5 => pmap'[i].server_ip = 0 /\ pmap'[i].lte_port = 0
    BY <1>1, <1>3, <2>4 DEF Cleared
  <2> QED
    BY <2>2, <2>3, <2>5
<1>14. /\ Pending' <=> Pending
       /\ \A u \in Tasks : task'[u].port = task[u].port /\ task'[u].row = task[u].row
  BY <1>1, <1>6, <1>7, <1>9 DEF Pending, Tasks
\* The parts of the invariant.
<1>15. TypeOK'
  BY <1>1, <1>3, <1>6, <1>8, <1>11 DEF IInv, TypeOK
<1>16. Control'
  <2>1. \A u \in Tasks :
          /\ task'[u].step \in {"collect", "clear"} => task'[u].at \in Rows
          /\ task'[u].step \in {"collect", "clear"} <=> task'[u].goal # "idle"
          /\ task'[u].step = "clear" => task'[u].wr <= 4
    BY <1>1, <1>6, <1>7, <1>9 DEF IInv, Control
  <2>2. \A u \in Receivers :
          /\ task'[u].step \in {"idle", "collect", "clear", "search", "read"}
          /\ task'[u].goal \in {"idle", "search"}
          /\ task'[u].row # NoRow <=> task'[u].step = "read"
          /\ task'[u].step = "read" => task'[u].port \in Ports
    BY <1>1, <1>6, <1>7, <1>9 DEF IInv, Control, Tasks
  <2>3. /\ task'[Sender].step \notin {"search", "read"}
        /\ task'[Sender].goal # "search"
        /\ task'[Sender].row # NoRow <=> \/ task'[Sender].step \in {"renew", "fill", "send"}
                                         \/ task'[Sender].goal = "renew"
    BY <1>1, <1>6, <1>7, <1>9 DEF IInv, Control, Tasks
  <2> QED
    BY <1>8, <1>14, <2>1, <2>2, <2>3 DEF IInv, Control, Tasks
<1>17. HeldYoung'
  BY <1>4, <1>10, <1>14 DEF IInv, HeldYoung
<1>18. AloneAlone'
  <2>1. \A u \in alone' : u \in alone /\ ~(u = t /\ k = 5)
    BY <1>1, <1>11
  <2>2. \A u \in alone' : task'[u].step \in {"clear", "fill"}
    BY <1>1, <1>6, <1>7, <2>1 DEF IInv, TypeOK, AloneAlone
  <2>3. \A u \in Tasks, j \in Rows \ disputed' : Clears(u, j)' \/ Fills(u, j)' => u \in alone'
    <3> SUFFICES ASSUME NEW u \in Tasks, NEW j \in Rows \ disputed', Clears(u, j) \/ Fills(u, j),
                        ~(u = t /\ k = 5)
                 PROVE  u \in alone'
      BY <1>1, <1>10 DEF Fills, Clears
    <3>1. CASE j \notin disputed
      BY <1>1, <1>11, <3>1 DEF IInv, AloneAlone
    <3>2. CASE j = i
      BY <1>1, <1>11, <1>12, <1>13, <3>2 DEF Fills
    <3> QED
      BY <1>11, <3>1, <3>2
  <2> QED
    BY <1>10, <1>14, <2>1, <2>2, <2>3 DEF IInv, TypeOK, AloneAlone
<1>19. Progress'
  <2>1. \A u \in alone', j \in Rows : Clears(u, j)' =>
          /\ task'[u].wr >= 1 => pmap'[j].ip_protocol = 0
          /\ task'[u].wr >= 2 => pmap'[j].server_ip = 0
          /\ task'[u].wr >= 4 => pmap'[j].lte_port = 0
    <3> SUFFICES ASSUME NEW u \in alone, NEW j \in Rows, Clears(u, j), ~(u = t /\ k = 5)
                 PROVE  /\ task'[u].wr >= 1 => pmap'[j].ip_protocol = 0
                        /\ task'[u].wr >= 2 => pmap'[j].server_ip = 0
                        /\ task'[u].wr >= 4 => pmap'[j].lte_port = 0
      BY <1>1, <1>10, <1>11 DEF IInv, TypeOK
    <3>1. u \in Tasks
      BY DEF IInv, TypeOK
    <3>2. CASE u = t
      <4>1. j = i /\ k < 5 /\ task'[u].wr = k
        BY <1>1, <1>7, <3>2 DEF Clears, i
      <4>2. /\ k >= 2 => pmap[i].ip_protocol = 0
            /\ k >= 3 => pmap[i].server_ip = 0
            /\ k >= 5 => pmap[i].lte_port = 0
        BY <1>1, <3>2, <4>1 DEF IInv, TypeOK, Progress, Job, k
      <4> QED
        BY <1>1, <1>3, <4>1, <4>2 DEF Cleared
    <3>3. CASE u # t
      <4>1. j # i
        BY <1>1, <3>1, <3>3 DEF IInv, AloneAlone, Clears, i
      <4> QED
        BY <1>3, <1>6, <3>1, <3>3, <4>1 DEF IInv, Progress
    <3> QED
      BY <3>2, <3>3
  <2>2. \A j \in Rows : Sender \in alone' /\ Fills(Sender, j)' =>
          /\ j # i
          /\ Sender \in alone /\ Fills(Sender, j)
          /\ task'[Sender] = task[Sender]
    <3>1. Sender \in Tasks
      BY DEF Tasks
    <3> QED
      BY <1>1, <1>6, <1>10, <1>11, <3>1 DEF IInv, AloneAlone, Clears, Fills, i
  <2>3. \A j \in Rows : Sender \in alone' /\ Fills(Sender, j)' =>
          /\ task'[Sender].wr >= 1 => pmap'[j].ip_protocol = Udp
          /\ task'[Sender].wr >= 2 => pmap'[j].client_ip = packet'.client
          /\ task'[Sender].wr >= 3 => pmap'[j].eth_port = packet'.eport
          /\ task'[Sender].wr >= 4 => pmap'[j].server_ip = packet'.server
          /\ task'[Sender].wr >= 5 => pmap'[j].lte_port = task'[Sender].port
    BY <1>3, <1>8, <2>2 DEF IInv, Progress
  <2> QED
    BY <2>1, <2>3 DEF Progress
<1>20. Contents'
  <2> SUFFICES ASSUME NEW j \in Rows, j \notin disputed'
               PROVE  /\ Live(j)' /\ ~Fills(Sender, j)' => Whole(j)'
                      /\ ~Live(j)' /\ (\A u \in Tasks : ~Clears(u, j)')
                           => pmap'[j].server_ip = 0 /\ pmap'[j].lte_port = 0
                      /\ Fills(Sender, j)' /\ task'[Sender].wr < 5 => pmap'[j].lte_port = 0
                      /\ \A u \in Receivers : Holds(u, j)' =>
                           Live(j)' /\ pmap'[j].lte_port = task'[u].port
                      /\ Holds(Sender, j)' => /\ Live(j)'
                                              /\ pmap'[j].client_ip = packet'.client
                                              /\ pmap'[j].eth_port = packet'.eport
    BY DEF Contents
  <2>1. CASE j = i
    <3>1. \A u \in Tasks : ~Fills(u, j)' /\ ~Holds(u, j)'
      BY <1>10, <1>13, <2>1 DEF Fills, Holds
    <3>2. ~Live(j)'
      BY <1>13, <2>1 DEF Live
    <3>3. k < 5 => Clears(t, j)'
      BY <1>1, <1>10, <2>1 DEF Clears, i
    <3> QED
      BY <1>1, <1>13, <2>1, <3>1, <3>2, <3>3 DEF Tasks
  <2>2. CASE j # i
    <3>1. j \notin disputed /\ pmap'[j] = pmap[j]
      BY <1>3, <1>11, <2>2
    <3>2. \A u \in Tasks : Clears(u, j)' <=> Clears(u, j)
      BY <1>1, <1>10, <2>2 DEF Clears, i
    <3>3. Fills(Sender, j) => task'[Sender] = task[Sender]
      BY <1>1, <1>6 DEF Fills, Tasks
    <3> QED
      BY <1>8, <1>10, <1>14, <3>1, <3>2, <3>3 DEF IInv, Contents, Whole, Live, Tasks
  <2> QED
    BY <2>1, <2>2
<1>21. \A j \in Rows : j \notin disputed' /\ Live(j)' => j \notin disputed /\ Live(j) /\ pmap'[j] = pmap[j]
  BY <1>3, <1>11, <1>13 DEF Live
<1>22. Reserved'
  BY <1>10, <1>14, <1>21 DEF IInv, Reserved, Tasks
<1>23. PortsApart'
  BY <1>21 DEF IInv, PortsApart
<1> QED
  BY <1>15, <1>16, <1>17, <1>18, <1>19, <1>20, <1>22, <1>23 DEF IInv

-------------------------------------------------------------------------------
(* The searches *)

LEMMA RenewStep ==
  ASSUME IInv, Renew
  PROVE  IInv'
<1>1. OnlyAges /\ \A j \in Rows : pmap'[j].old => pmap[j].old
  <2>1. ASSUME NEW i \in Rows, Fresh(i)
        PROVE  OnlyAges /\ \A j \in Rows : pmap'[j].old => pmap[j].old
    BY <2>1, FreshAges DEF IInv
  <2>2. ASSUME UNCHANGED pmap
        PROVE  OnlyAges /\ \A j \in Rows : pmap'[j].old => pmap[j].old
    BY <2>2 DEF IInv, TypeOK, OnlyAges
  <2> QED
    BY <2>1, <2>2 DEF Renew
<1>2. /\ task[Sender].step = "renew"
      /\ task[Sender].row \in Rows
      /\ task' \in [Tasks -> Job]
      /\ task'[Sender] = [step |-> "send", goal |-> "idle", at |-> NoRow,
                          wr |-> 0, row |-> task[Sender].row, port |-> 0]
      /\ \A u \in Tasks : u # Sender => task'[u] = task[u]
      /\ UNCHANGED <<packet, owner, alone, disputed>>
  BY SMTT(30) DEF IInv, TypeOK, Control, Renew, Job, Tasks, NoRow
<1> HIDE DEF OnlyAges
<1>3. TypeOK'
  BY <1>1, <1>2 DEF IInv, TypeOK, OnlyAges
<1>4. Control'
  BY <1>1, <1>2 DEF IInv, TypeOK, Control, Pending, Tasks
<1>5. HeldYoung'
  BY <1>1, <1>2 DEF IInv, TypeOK, HeldYoung, Holds, Clears
<1>6. AloneAlone'
  BY <1>1, <1>2 DEF IInv, TypeOK, AloneAlone, Clears, Fills
<1>7. Progress'
  BY <1>1, <1>2 DEF IInv, TypeOK, OnlyAges, Progress, AloneAlone, Clears, Fills
<1>8. Contents'
  <2>1. ASSUME NEW i \in Rows, i \notin disputed
        PROVE  /\ Live(i)' /\ ~Fills(Sender, i)' => Whole(i)'
               /\ ~Live(i)' /\ (\A t \in Tasks : ~Clears(t, i)')
                    => pmap'[i].server_ip = 0 /\ pmap'[i].lte_port = 0
               /\ ~Fills(Sender, i)'
    BY <1>1, <1>2, <2>1 DEF IInv, OnlyAges, Contents, Whole, Live, Clears, Fills, Tasks
  <2>2. ASSUME NEW i \in Rows, i \notin disputed
        PROVE  /\ \A t \in Receivers : Holds(t, i)' =>
                    Live(i)' /\ pmap'[i].lte_port = task'[t].port
               /\ Holds(Sender, i)' => /\ Live(i)'
                                       /\ pmap'[i].client_ip = packet.client
                                       /\ pmap'[i].eth_port = packet.eport
    BY <1>1, <1>2, <2>2, RaceAssumption DEF IInv, OnlyAges, Contents, Live, Holds, Tasks
  <2> QED
    BY <1>2, <2>1, <2>2 DEF Contents
<1>9. Reserved'
  BY <1>1, <1>2 DEF IInv, TypeOK, OnlyAges, Reserved, Pending, Live, Fills
<1>10. PortsApart'
  BY <1>1, <1>2 DEF IInv, OnlyAges, PortsApart, Live
<1> QED
  BY <1>3, <1>4, <1>5, <1>6, <1>7, <1>8, <1>9, <1>10 DEF IInv

LEMMA FindStep ==
  ASSUME IInv, NEW f \in Traffic, Find(f)
  PROVE  IInv'
<1>1. PICK i \in Rows :
        /\ task[Sender].step = "find"
        /\ IsFirst(i, ByClient(f))
        /\ Fresh(i)
        /\ \/ /\ task' = [task EXCEPT ![Sender] = Collect("renew", i, 0)]
              /\ packet' = f
              /\ Hold(Sender, i)
           \/ /\ task' = [task EXCEPT ![Sender] = Idle]
              /\ UNCHANGED <<packet, alone, disputed>>
        /\ UNCHANGED owner
  BY DEF Find
<1>2. OnlyAges /\ ~pmap'[i].old /\ \A j \in Rows : pmap'[j].old => pmap[j].old
  BY <1>1, FreshAges DEF IInv
<1>3. /\ Live(i)
      /\ pmap[i].client_ip = f.client
      /\ pmap[i].eth_port = f.eport
  BY <1>1 DEF IsFirst, ByClient
<1>4. CASE task' = [task EXCEPT ![Sender] = Idle] /\ UNCHANGED <<packet, alone, disputed>>
  <2>1. /\ task' \in [Tasks -> Job]
        /\ task'[Sender] = Idle
        /\ \A u \in Tasks : u # Sender => task'[u] = task[u]
    BY <1>4 DEF IInv, TypeOK, Job, Tasks, Idle, NoRow
  <2>2. task[Sender].row = NoRow /\ task[Sender].goal = "idle"
    BY <1>1 DEF IInv, Control, Tasks
  <2>3. TypeOK'
    BY <1>1, <1>2, <1>4, <2>1 DEF IInv, TypeOK, OnlyAges
  <2>4. Control'
    BY <1>1, <1>4, <2>1, <2>2, RaceAssumption DEF IInv, TypeOK, Control, Pending, Tasks, Idle
  <2>5. HeldYoung'
    BY <1>2, <2>1 DEF IInv, HeldYoung, Holds, Clears, Idle, NoRow, Rows
  <2>6. AloneAlone'
    BY <1>1, <1>4, <2>1 DEF IInv, TypeOK, AloneAlone, Clears, Fills, Idle, NoRow, Rows
  <2>7. Progress'
    BY <1>1, <1>2, <1>4, <2>1 DEF IInv, TypeOK, OnlyAges, Progress, Clears, Fills, Idle
  <2>8. Contents'
    BY SMTT(30), <1>1, <1>2, <1>4, <2>1, <2>2, RaceAssumption
    DEF IInv, TypeOK, OnlyAges, Contents, Whole, Live, Holds, Clears, Fills, Tasks,
         Idle, NoRow, Rows
  <2>9. Reserved'
    BY <2>1 DEF Reserved, Pending, Idle
  <2>10. PortsApart'
    BY <1>2, <1>4 DEF IInv, OnlyAges, PortsApart, Live
  <2> QED
    BY <2>3, <2>4, <2>5, <2>6, <2>7, <2>8, <2>9, <2>10 DEF IInv
<1>5. CASE /\ task' = [task EXCEPT ![Sender] = Collect("renew", i, 0)]
           /\ packet' = f
           /\ Hold(Sender, i)
  <2>1. /\ task' \in [Tasks -> Job]
        /\ task'[Sender] = Collect("renew", i, 0)
        /\ \A u \in Tasks : u # Sender => task'[u] = task[u]
    <3>1. Collect("renew", i, 0) \in Job
      BY RaceAssumption DEF Collect, Job, Rows, NoRow
    <3> QED
      BY <1>5, <3>1 DEF IInv, TypeOK, Tasks
  <2>2. task[Sender].row = NoRow /\ task[Sender].goal = "idle"
    BY <1>1 DEF IInv, Control, Tasks
  <2>3. \/ /\ UNCHANGED <<alone, disputed>>
           /\ \A u \in Tasks : u # Sender => ~Clears(u, i)
        \/ /\ alone' = alone \ Clearing(Sender, i)
           /\ disputed' = disputed \cup {i}
    BY <1>5 DEF Hold, Clearing, Others
  <2>4. /\ alone' \subseteq alone
        /\ disputed \subseteq disputed' /\ disputed' \subseteq disputed \cup {i}
        /\ i \notin disputed' => \A u \in Tasks : u # Sender => ~Clears(u, i)
        /\ \A u \in alone' : u # Sender => ~Clears(u, i)
        /\ \A u \in alone : ~Clears(u, i) => u \in alone'
    BY <2>3 DEF Clearing, Others, IInv, TypeOK
  <2>5. TypeOK'
    BY <1>1, <1>2, <1>5, <2>1, <2>4 DEF IInv, TypeOK, OnlyAges
  <2>6. Control'
    BY <1>1, <1>5, <2>1, <2>2, RaceAssumption
    DEF IInv, TypeOK, Control, Pending, Tasks, Collect, Rows, NoRow
  <2>7. HeldYoung'
    BY <1>2, <2>1 DEF IInv, HeldYoung, Holds, Clears, Collect
  <2>8. AloneAlone'
    BY SMTT(30), <1>1, <2>1, <2>4 DEF IInv, TypeOK, AloneAlone, Clears, Fills, Collect
  <2>9. Progress'
    BY <1>1, <1>2, <2>1, <2>4 DEF IInv, TypeOK, OnlyAges, Progress, Clears, Fills, Collect
  <2>10. Contents'
    BY SMTT(30), <1>1, <1>2, <1>3, <1>5, <2>1, <2>2, <2>4, RaceAssumption
    DEF IInv, TypeOK, OnlyAges, Contents, Whole, Live, Holds, Clears, Fills, Tasks, Collect, NoRow
  <2>11. Reserved'
    BY <2>1 DEF Reserved, Pending, Collect
  <2>12. PortsApart'
    BY <1>2, <2>4 DEF IInv, OnlyAges, PortsApart, Live
  <2> QED
    BY <2>5, <2>6, <2>7, <2>8, <2>9, <2>10, <2>11, <2>12 DEF IInv
<1> QED
  BY <1>1, <1>4, <1>5

LEMMA SearchStep ==
  ASSUME IInv, NEW t \in Receivers, NEW s \in Servers, NEW p \in Ports, Search(t, s, p)
  PROVE  IInv'
<1>1. PICK i \in Rows :
        /\ task[t].step = "search"
        /\ IsFirst(i, ByServer(s, p))
        /\ Fresh(i)
        /\ task' = [task EXCEPT ![t] = [step |-> "read", goal |-> "idle", at |-> NoRow,
                                        wr |-> 0, row |-> i, port |-> p]]
        /\ Hold(t, i)
        /\ UNCHANGED <<packet, owner>>
  BY DEF Search
<1>2. OnlyAges /\ ~pmap'[i].old /\ \A j \in Rows : pmap'[j].old => pmap[j].old
  BY <1>1, FreshAges DEF IInv
<1>3. Live(i) /\ pmap[i].lte_port = p /\ p # 0
  BY <1>1, RaceAssumption DEF IsFirst, ByServer
<1>4. t \in Tasks /\ t # Sender
  BY RaceAssumption DEF Tasks
<1>5. /\ task' \in [Tasks -> Job]
      /\ task'[t] = [step |-> "read", goal |-> "idle", at |-> NoRow,
                     wr |-> 0, row |-> i, port |-> p]
      /\ \A u \in Tasks : u # t => task'[u] = task[u]
  BY <1>1, <1>4 DEF IInv, TypeOK, Job, NoRow, Rows
<1>6. task[t].row = NoRow /\ task[t].goal = "idle"
  BY <1>1, <1>4 DEF IInv, Control
<1>7. \/ /\ UNCHANGED <<alone, disputed>>
         /\ \A u \in Tasks : u # t => ~Clears(u, i)
      \/ /\ alone' = alone \ Clearing(t, i)
         /\ disputed' = disputed \cup {i}
  BY <1>1 DEF Hold, Clearing, Others
<1>8. /\ alone' \subseteq alone
      /\ disputed \subseteq disputed' /\ disputed' \subseteq disputed \cup {i}
      /\ i \notin disputed' => \A u \in Tasks : u # t => ~Clears(u, i)
      /\ \A u \in alone' : u # t => ~Clears(u, i)
      /\ \A u \in alone : ~Clears(u, i) => u \in alone'
  BY <1>7 DEF Clearing, Others, IInv, TypeOK
<1>9. TypeOK'
  BY <1>1, <1>2, <1>5, <1>8 DEF IInv, TypeOK, OnlyAges
<1>10. Control'
  BY SMTT(30), <1>1, <1>4, <1>5, <1>6 DEF IInv, TypeOK, Control, Pending, Rows, NoRow
<1>11. HeldYoung'
  BY <1>2, <1>5 DEF IInv, HeldYoung, Holds, Clears
<1>12. AloneAlone'
  BY SMTT(30), <1>1, <1>5, <1>8 DEF IInv, TypeOK, AloneAlone, Clears, Fills
<1>13. Progress'
  BY <1>1, <1>2, <1>4, <1>5, <1>8 DEF IInv, TypeOK, OnlyAges, Progress, Clears, Fills
<1>14. Contents'
  BY SMTT(30), <1>1, <1>2, <1>3, <1>4, <1>5, <1>6, <1>8
  DEF IInv, TypeOK, OnlyAges, Contents, Whole, Live, Holds, Clears, Fills, NoRow
<1>15. Reserved'
  BY <1>1, <1>2, <1>4, <1>5, <1>8 DEF IInv, OnlyAges, Reserved, Pending, Live, Fills
<1>16. PortsApart'
  BY <1>2, <1>8 DEF IInv, OnlyAges, PortsApart, Live
<1> QED
  BY <1>9, <1>10, <1>11, <1>12, <1>13, <1>14, <1>15, <1>16 DEF IInv

-------------------------------------------------------------------------------
(* A new row, and time *)

LEMMA OpenStep ==
  ASSUME IInv, NEW f \in Traffic, Open(f)
  PROVE  IInv'
<1>1. /\ Sender \in Tasks
      /\ task[Sender].step = "find"
      /\ UNCHANGED <<pmap, alone, disputed>>
  BY DEF Open, Tasks
<1>2. task[Sender].row = NoRow /\ task[Sender].goal = "idle"
  BY <1>1 DEF IInv, Control
<1>3. ASSUME NEW p \in Ports \ Taken,
             task' = [task EXCEPT ![Sender] = Collect("add", NoRow, p)],
             packet' = f,
             owner' = [q \in Ports |-> IF q = p THEN f
                                      ELSE IF q \in Named THEN owner[q]
                                      ELSE NoFlow]
      PROVE  IInv'
  <2>1. Collect("add", NoRow, p) \in Job
    BY RaceAssumption DEF Collect, Job, Rows
  <2>2. /\ task' \in [Tasks -> Job]
        /\ task'[Sender] = Collect("add", NoRow, p)
        /\ \A u \in Tasks : u # Sender => task'[u] = task[u]
    BY <1>1, <1>3, <2>1 DEF IInv, TypeOK
  <2>3. \A u \in Tasks, j \in Rows :
          /\ Fills(u, j)' <=> Fills(u, j)
          /\ Holds(u, j)' <=> Holds(u, j)
          /\ Clears(u, j)' <=> Clears(u, j)
          /\ u = Sender => ~Fills(u, j) /\ ~Holds(u, j) /\ ~Clears(u, j)
    BY <1>1, <1>2, <2>2 DEF Fills, Holds, Clears, Collect, Rows, NoRow
  <2>4. /\ owner'[p] = f
        /\ \A j \in Rows : Live(j) /\ pmap[j].lte_port \in Ports =>
             pmap[j].lte_port # p /\ owner'[pmap[j].lte_port] = owner[pmap[j].lte_port]
    BY <1>3 DEF Taken, Named
  <2>5. TypeOK'
    BY <1>1, <1>3, <2>2 DEF IInv, TypeOK
  <2>6. Control'
    BY <1>1, <1>3, <2>2, <2>4, RaceAssumption
    DEF IInv, Control, Pending, Tasks, Collect, Rows, NoRow
  <2>7. HeldYoung'
    BY <1>1, <1>2, <2>2, <2>3 DEF IInv, HeldYoung, Collect, NoRow, Rows
  <2>8. AloneAlone'
    BY <1>1, <1>2, <2>2, <2>3 DEF IInv, TypeOK, AloneAlone, Collect, NoRow, Rows
  <2>9. Progress'
    BY <1>1, <2>2, <2>3 DEF IInv, TypeOK, Progress
  <2>10. Contents'
    <3>1. \A u \in Receivers : u \in Tasks /\ u # Sender /\ task'[u] = task[u]
      BY <2>2, RaceAssumption DEF Tasks
    <3>2. \A j \in Rows : Live(j) /\ Whole(j) => Whole(j)'
      BY <1>1, <2>4 DEF Whole
    <3> QED
      BY <1>1, <2>3, <3>1, <3>2 DEF IInv, Contents, Live
  <2>11. Reserved'
    BY <1>1, <2>2 DEF Reserved, Live, Collect, Taken
  <2>12. PortsApart'
    BY <1>1 DEF IInv, PortsApart, Live
  <2> QED
    BY <2>5, <2>6, <2>7, <2>8, <2>9, <2>10, <2>11, <2>12 DEF IInv
<1>4. ASSUME task' = [task EXCEPT ![Sender] = Idle], UNCHANGED <<packet, owner>>
      PROVE  IInv'
  BY <1>1, <1>2, <1>4, Rests
<1> QED
  BY <1>3, <1>4 DEF Open

LEMMA AgainStep ==
  ASSUME IInv, Again
  PROVE  IInv'
<1> DEFINE p == task[Sender].port
<1>1. /\ Sender \in Tasks
      /\ task[Sender].step = "add" /\ p \in Ports
      /\ task' = [task EXCEPT ![Sender] = Collect("empty", NoRow, p)]
      /\ UNCHANGED <<pmap, packet, owner, alone, disputed>>
  BY DEF IInv, Control, Pending, Again, Tasks
<1>2. task[Sender].row = NoRow /\ task[Sender].goal = "idle"
  BY <1>1 DEF IInv, Control
<1>3. Collect("empty", NoRow, p) \in Job
  BY <1>1, RaceAssumption DEF Collect, Job, Rows
<1>4. /\ task' \in [Tasks -> Job]
      /\ task'[Sender] = Collect("empty", NoRow, p)
      /\ \A u \in Tasks : u # Sender => task'[u] = task[u]
  BY <1>1, <1>3 DEF IInv, TypeOK
<1>5. \A u \in Tasks, j \in Rows :
        /\ Fills(u, j)' <=> Fills(u, j)
        /\ Holds(u, j)' <=> Holds(u, j)
        /\ Clears(u, j)' <=> Clears(u, j)
        /\ u = Sender => ~Fills(u, j) /\ ~Holds(u, j) /\ ~Clears(u, j)
  BY <1>1, <1>2, <1>4 DEF Fills, Holds, Clears, Collect, Rows, NoRow
<1>6. TypeOK'
  BY <1>1, <1>4 DEF IInv, TypeOK
<1>7. Control'
  BY <1>1, <1>4, RaceAssumption DEF IInv, Control, Pending, Tasks, Collect, Rows, NoRow
<1>8. HeldYoung'
  BY <1>1, <1>2, <1>4, <1>5 DEF IInv, HeldYoung, Collect, NoRow, Rows
<1>9. AloneAlone'
  BY <1>1, <1>2, <1>4, <1>5 DEF IInv, TypeOK, AloneAlone, Collect, NoRow, Rows
<1>10. Progress'
  BY <1>1, <1>4, <1>5 DEF IInv, TypeOK, Progress
<1>11. Contents'
  <2>1. \A u \in Receivers : u \in Tasks /\ u # Sender /\ task'[u] = task[u]
    BY <1>4, RaceAssumption DEF Tasks
  <2> QED
    BY <1>1, <1>5, <2>1 DEF IInv, Contents, Whole, Live
<1>12. Reserved'
  BY <1>1, <1>4, <1>5 DEF IInv, Reserved, Pending, Live, Collect
<1>13. PortsApart'
  BY <1>1 DEF IInv, PortsApart, Live
<1> QED
  BY <1>6, <1>7, <1>8, <1>9, <1>10, <1>11, <1>12, <1>13 DEF IInv

LEMMA ChooseEmptyStep ==
  ASSUME IInv, ChooseEmpty
  PROVE  IInv'
<1>1. PICK i \in Rows :
        /\ task[Sender].step = "empty"
        /\ ~Live(i)
        /\ task' = [task EXCEPT ![Sender] =
                      [step |-> "fill", goal |-> "idle", at |-> NoRow, wr |-> 0,
                       row |-> i, port |-> task[Sender].port]]
        /\ Take(Sender, i)
        /\ UNCHANGED <<pmap, packet, owner>>
  BY DEF ChooseEmpty, IsFirst, Empty
<1> DEFINE job == [step |-> "fill", goal |-> "idle", at |-> NoRow, wr |-> 0,
                   row |-> i, port |-> task[Sender].port]
<1>2. /\ Sender \in Tasks
      /\ task[Sender].row = NoRow /\ task[Sender].goal = "idle"
      /\ task[Sender].port \in Ports /\ packet \in Traffic
  BY <1>1 DEF IInv, Control, Pending, Tasks
<1>3. job \in Job
  BY <1>2 DEF Job, NoRow
<1>4. /\ task' \in [Tasks -> Job]
      /\ task'[Sender] = job
      /\ \A u \in Tasks : u # Sender => task'[u] = task[u]
  BY <1>1, <1>2, <1>3 DEF IInv, TypeOK
<1>5. /\ task'[Sender].step = "fill" /\ task'[Sender].row = i /\ task'[Sender].wr = 0
      /\ task'[Sender].goal = "idle" /\ task'[Sender].port = task[Sender].port
  BY <1>4
<1> HIDE DEF job
<1>6. /\ alone' \subseteq alone \cup {Sender}
      /\ disputed \subseteq disputed' /\ disputed' \subseteq disputed \cup {i}
      /\ i \notin disputed' =>
           /\ Sender \in alone'
           /\ \A u \in Tasks : u # Sender => ~Clears(u, i) /\ task[u].row # i
      /\ Sender \in alone' =>
           \/ Sender \in alone /\ ~Clears(Sender, i) /\ ~Fills(Sender, i)
           \/ \A u \in Tasks : u # Sender => ~Clears(u, i) /\ task[u].row # i
      /\ \A u \in alone' : u # Sender => u \in alone /\ ~Clears(u, i) /\ ~Fills(u, i)
      /\ \A u \in alone : ~Clears(u, i) /\ ~Fills(u, i) => u \in alone'
  BY <1>1, <1>2, TakeFacts
<1>7. /\ Sender \notin alone
      /\ \A j \in Rows : ~Clears(Sender, j) /\ ~Fills(Sender, j) /\ ~Holds(Sender, j)
  BY <1>1, <1>2 DEF IInv, AloneAlone, Clears, Fills, Holds, Rows, NoRow
<1>8. \A u \in Tasks, j \in Rows :
        /\ Fills(u, j)' <=> Fills(u, j) \/ (u = Sender /\ j = i)
        /\ Holds(u, j)' <=> Holds(u, j)
        /\ Clears(u, j)' <=> Clears(u, j)
  <2> SUFFICES ASSUME NEW u \in Tasks, NEW j \in Rows
               PROVE  /\ Fills(u, j)' <=> Fills(u, j) \/ (u = Sender /\ j = i)
                      /\ Holds(u, j)' <=> Holds(u, j)
                      /\ Clears(u, j)' <=> Clears(u, j)
    OBVIOUS
  <2>1. CASE u # Sender
    BY <1>4, <2>1 DEF Fills, Holds, Clears
  <2>2. CASE u = Sender
    BY <1>5, <1>7, <2>2 DEF Fills, Holds, Clears
  <2> QED
    BY <2>1, <2>2
<1>9. \A u \in Receivers : u \in Tasks /\ u # Sender /\ task'[u] = task[u]
  BY <1>4, RaceAssumption DEF Tasks
<1>10. Pending' /\ Pending
  BY <1>1, <1>5 DEF Pending
\* An undisputed row that is chosen is blank.
<1>11. i \notin disputed' => pmap[i].lte_port = 0
  BY <1>1, <1>2, <1>6, <1>7 DEF IInv, Contents
<1>12. TypeOK'
  BY <1>1, <1>2, <1>4, <1>6 DEF IInv, TypeOK
<1>13. Control'
  <2>1. i # NoRow
    BY DEF Rows, NoRow
  <2>2. \A u \in Tasks :
          /\ task'[u].step \in {"collect", "clear"} => task'[u].at \in Rows
          /\ task'[u].step \in {"collect", "clear"} <=> task'[u].goal # "idle"
          /\ task'[u].step = "clear" => task'[u].wr <= 4
    BY <1>4, <1>5 DEF IInv, Control
  <2> QED
    BY <1>1, <1>2, <1>5, <1>9, <1>10, <2>1, <2>2 DEF IInv, Control
<1>14. HeldYoung'
  <2>1. \A u \in Tasks, j \in Rows : Holds(u, j)' => ~pmap'[j].old
    BY <1>1, <1>8 DEF IInv, HeldYoung
  <2>2. \A u \in Tasks, j \in Rows : Clears(u, j)' => task'[u].row # j
    BY <1>4, <1>7, <1>8 DEF IInv, HeldYoung
  <2> QED
    BY <2>1, <2>2 DEF HeldYoung
<1>15. AloneAlone'
  <2>1. \A u \in alone' : task'[u].step \in {"clear", "fill"}
    BY <1>4, <1>5, <1>6 DEF IInv, TypeOK, AloneAlone
  <2>2. \A u \in alone', v \in Tasks, j \in Rows :
          Clears(u, j)' /\ v # u => ~Clears(v, j)' /\ task'[v].row # j
    <3> SUFFICES ASSUME NEW u \in alone', NEW v \in Tasks, NEW j \in Rows,
                        Clears(u, j)', v # u
                 PROVE  ~Clears(v, j)' /\ task'[v].row # j
      OBVIOUS
    <3>1. u \in Tasks
      BY <1>2, <1>6 DEF IInv, TypeOK
    <3>2. u # Sender /\ u \in alone /\ Clears(u, j) /\ j # i
      BY <1>6, <1>7, <1>8, <3>1
    <3>3. ~Clears(v, j) /\ task[v].row # j
      BY <3>2 DEF IInv, AloneAlone
    <3> QED
      BY <1>4, <1>5, <1>8, <3>2, <3>3
  <2>3. \A u \in alone', v \in Tasks, j \in Rows :
          Fills(u, j)' /\ v # u => ~Clears(v, j)'
    <3> SUFFICES ASSUME NEW u \in alone', NEW v \in Tasks, NEW j \in Rows,
                        Fills(u, j)', v # u
                 PROVE  ~Clears(v, j)'
      OBVIOUS
    <3>1. u \in Tasks
      BY <1>2, <1>6 DEF IInv, TypeOK
    <3>2. CASE u = Sender
      <4>1. j = i
        BY <1>7, <1>8, <3>1, <3>2
      <4> QED
        BY <1>6, <1>7, <1>8, <3>2, <4>1
    <3>3. CASE u # Sender
      BY <1>6, <1>8, <3>1, <3>3 DEF IInv, AloneAlone
    <3> QED
      BY <3>2, <3>3
  <2>4. \A u \in Tasks, j \in Rows \ disputed' : Clears(u, j)' \/ Fills(u, j)' => u \in alone'
    <3> SUFFICES ASSUME NEW u \in Tasks, NEW j \in Rows \ disputed',
                        Clears(u, j) \/ Fills(u, j), u # Sender
                 PROVE  u \in alone'
      BY <1>6, <1>7, <1>8
    <3>1. u \in alone
      BY <1>6 DEF IInv, AloneAlone
    <3>2. ~Clears(u, i) /\ ~Fills(u, i)
      BY <1>6, <3>1 DEF Clears, Fills
    <3> QED
      BY <1>6, <3>1, <3>2
  <2> QED
    BY <2>1, <2>2, <2>3, <2>4 DEF AloneAlone
<1>16. Progress'
  <2>1. \A u \in alone', j \in Rows : Clears(u, j)' =>
          u \in alone /\ Clears(u, j) /\ task'[u] = task[u]
    <3> SUFFICES ASSUME NEW u \in alone', NEW j \in Rows, Clears(u, j)'
                 PROVE  u \in alone /\ Clears(u, j) /\ task'[u] = task[u]
      OBVIOUS
    <3>1. u \in Tasks
      BY <1>2, <1>6 DEF IInv, TypeOK
    <3>2. u # Sender
      BY <1>7, <1>8, <3>1
    <3> QED
      BY <1>4, <1>6, <1>8, <3>1, <3>2
  <2> QED
    BY <1>1, <1>5, <2>1 DEF IInv, Progress
<1>17. Contents'
  <2>1. \A j \in Rows : j \notin disputed' /\ j = i =>
          \A u \in Receivers : ~Holds(u, j)'
    BY <1>6, <1>8, <1>9 DEF Holds
  <2>2. \A j \in Rows : Holds(Sender, j)' => FALSE
    BY <1>2, <1>7, <1>8
  <2>3. \A j \in Rows : j \notin disputed' /\ Fills(Sender, j)' => j = i
    BY <1>2, <1>7, <1>8
  <2>4. Fills(Sender, i)'
    BY <1>5 DEF Fills
  <2> QED
    BY <1>1, <1>6, <1>7, <1>8, <1>9, <1>11, <2>1, <2>2, <2>3, <2>4
    DEF IInv, Contents, Whole, Live
<1>18. Reserved'
  BY <1>1, <1>2, <1>5, <1>6, <1>8, <1>10 DEF IInv, Reserved, Live
<1>19. PortsApart'
  BY <1>1, <1>6 DEF IInv, PortsApart, Live
<1> QED
  BY <1>12, <1>13, <1>14, <1>15, <1>16, <1>17, <1>18, <1>19 DEF IInv

LEMMA PanicStep ==
  ASSUME IInv, Panic
  PROVE  IInv'
<1>1. Blank \in Row /\ Idle \in Job
  BY DEF Blank, Row, Idle, Job
<1>2. TypeOK'
  BY <1>1 DEF Panic, TypeOK
<1>3. Control' /\ ~Pending'
  BY DEF Panic, Control, Pending, Idle, Tasks
<1>4. HeldYoung'
  BY DEF Panic, HeldYoung, Holds, Clears, Idle, NoRow, Rows
<1>5. AloneAlone' /\ Progress'
  BY DEF Panic, AloneAlone, Progress, Clears, Fills, Idle, Tasks
<1>6. Contents'
  BY RaceAssumption
  DEF Panic, Contents, Whole, Live, Holds, Clears, Fills, Idle, Blank, Tasks, NoRow, Rows
<1>7. Reserved' /\ PortsApart'
  BY <1>3 DEF Panic, Reserved, PortsApart, Live, Blank
<1> QED
  BY <1>2, <1>3, <1>4, <1>5, <1>6, <1>7 DEF IInv

LEMMA AgeStep ==
  ASSUME IInv, Age
  PROVE  IInv'
<1>1. /\ OnlyAges
      /\ \A t \in Tasks, j \in Rows : Holds(t, j) => pmap'[j] = pmap[j]
      /\ UNCHANGED <<task, packet, owner, alone, disputed>>
  BY AgeAges DEF IInv, Age
<1>2. TypeOK'
  BY <1>1 DEF IInv, TypeOK, OnlyAges
<1>3. Control'
  BY <1>1 DEF IInv, Control, Pending
<1>4. HeldYoung'
  BY <1>1 DEF IInv, HeldYoung, Holds, Clears
<1>5. AloneAlone'
  BY <1>1 DEF IInv, AloneAlone, Clears, Fills
<1>6. Progress'
  BY <1>1 DEF IInv, TypeOK, OnlyAges, Progress, Clears, Fills
<1>7. Contents'
  BY <1>1 DEF IInv, OnlyAges, Contents, Whole, Live, Holds, Clears, Fills
<1>8. Reserved'
  BY <1>1 DEF IInv, OnlyAges, Reserved, Pending, Live, Fills
<1>9. PortsApart'
  BY <1>1 DEF IInv, OnlyAges, PortsApart, Live
<1> QED
  BY <1>2, <1>3, <1>4, <1>5, <1>6, <1>7, <1>8, <1>9 DEF IInv

LEMMA FillStep ==
  ASSUME IInv, Fill
  PROVE  IInv'
<1> DEFINE i == task[Sender].row
           k == task[Sender].wr + 1
           p == task[Sender].port
<1>1. /\ Sender \in Tasks
      /\ i \in Rows /\ k \in 1 .. 6 /\ p \in Ports
      /\ task[Sender].step = "fill" /\ task[Sender].goal = "idle"
      /\ pmap[i] \in Row /\ task[Sender] \in Job
      /\ packet \in Traffic /\ packet \in Flow
      /\ owner[p] = packet
  BY RaceAssumption DEF IInv, TypeOK, Control, Pending, Fill, Job, Tasks, NoRow
<1>2. Filled(pmap[i], packet, p, k) \in Row
  BY <1>1 DEF Row, Filled, Flow
<1>3. /\ pmap' \in [Rows -> Row]
      /\ pmap'[i] = Filled(pmap[i], packet, p, k)
      /\ \A j \in Rows : j # i => pmap'[j] = pmap[j]
  BY <1>1, <1>2 DEF IInv, TypeOK, Fill
<1>4. /\ \A j \in Rows : pmap'[j].old => pmap[j].old
      /\ k = 6 => ~pmap'[i].old
  <2>1. CASE k = 6
    BY <1>1, <1>3, <2>1 DEF Filled
  <2>2. CASE k # 6
    BY <1>1, <1>3, <2>2 DEF Filled
  <2> QED
    BY <2>1, <2>2
<1> DEFINE sent == [step |-> "send", goal |-> "idle", at |-> NoRow,
                    wr |-> 0, row |-> i, port |-> 0]
<1>5. /\ Written(task[Sender]) \in Job \/ k = 6
      /\ sent \in Job
  BY <1>1 DEF Written, Job
<1>6. /\ task' \in [Tasks -> Job]
      /\ task'[Sender] = IF k < 6 THEN Written(task[Sender]) ELSE sent
      /\ \A u \in Tasks : u # Sender => task'[u] = task[u]
  BY <1>1, <1>5 DEF IInv, TypeOK, Fill
<1>7. /\ task'[Sender].row = i /\ task'[Sender].goal = "idle"
      /\ k < 6 => /\ task'[Sender].step = "fill"
                  /\ task'[Sender].wr = k /\ task'[Sender].port = p
      /\ k = 6 => task'[Sender].step = "send"
  BY <1>1, <1>6 DEF Written
<1>8. /\ k < 6 => UNCHANGED <<alone, disputed>>
      /\ k = 6 => Settle(Sender, i)
      /\ UNCHANGED <<packet, owner>>
  BY <1>1 DEF Fill
<1> HIDE DEF i, k, p, sent
\* Who works on what.
<1>9. \A u \in Tasks, j \in Rows :
        /\ Fills(u, j)' <=> Fills(u, j) /\ ~(u = Sender /\ k = 6)
        /\ Holds(u, j)' <=> Holds(u, j) \/ (u = Sender /\ j = i /\ k = 6)
        /\ Clears(u, j)' <=> Clears(u, j)
  <2> SUFFICES ASSUME NEW u \in Tasks, NEW j \in Rows
               PROVE  /\ Fills(u, j)' <=> Fills(u, j) /\ ~(u = Sender /\ k = 6)
                      /\ Holds(u, j)' <=> Holds(u, j) \/ (u = Sender /\ j = i /\ k = 6)
                      /\ Clears(u, j)' <=> Clears(u, j)
    OBVIOUS
  <2>1. CASE u # Sender
    <3>1. task'[u] = task[u]
      BY <1>6, <2>1
    <3> QED
      BY <2>1, <3>1 DEF Fills, Holds, Clears
  <2>2. CASE u = Sender /\ k < 6
    BY <1>1, <1>7, <2>2 DEF Fills, Holds, Clears, i
  <2>3. CASE u = Sender /\ k = 6
    BY <1>1, <1>7, <2>3 DEF Fills, Holds, Clears, i
  <2> QED
    BY <1>1, <2>1, <2>2, <2>3
<1>10. /\ k < 6 => alone' = alone /\ disputed' = disputed
       /\ k = 6 => alone' = alone \ {Sender}
       /\ disputed' \subseteq disputed /\ disputed \subseteq disputed' \cup {i}
  BY <1>1, <1>8 DEF Settle
<1>11. i \notin disputed' =>
         /\ Sender \in alone
         /\ \A u \in Tasks : ~Clears(u, i)
  <2>1. CASE i \notin disputed
    BY <1>1, <2>1 DEF IInv, AloneAlone, Clears, Fills, i
  <2>2. CASE i \in disputed /\ i \notin disputed'
    <3>1. Sender \in alone
      BY <1>1, <1>8, <2>2 DEF Settle
    <3> QED
      BY <1>1, <3>1 DEF IInv, AloneAlone, Clears, Fills, i
  <2> QED
    BY <2>1, <2>2
\* What is in the row if nobody disturbed the sender.
<1>12. i \notin disputed' =>
         /\ pmap'[i].ip_protocol = Udp
         /\ k >= 2 => pmap'[i].client_ip = packet.client
         /\ k >= 3 => pmap'[i].eth_port = packet.eport
         /\ k >= 4 => pmap'[i].server_ip = packet.server
         /\ k >= 5 => pmap'[i].lte_port = p
  <2> SUFFICES ASSUME Sender \in alone
               PROVE  /\ pmap'[i].ip_protocol = Udp
                      /\ k >= 2 => pmap'[i].client_ip = packet.client
                      /\ k >= 3 => pmap'[i].eth_port = packet.eport
                      /\ k >= 4 => pmap'[i].server_ip = packet.server
                      /\ k >= 5 => pmap'[i].lte_port = p
    BY <1>11
  <2>1. Fills(Sender, i)
    BY <1>1 DEF Fills, i
  <2>2. /\ k >= 2 => pmap[i].ip_protocol = Udp
        /\ k >= 3 => pmap[i].client_ip = packet.client
        /\ k >= 4 => pmap[i].eth_port = packet.eport
        /\ k >= 5 => pmap[i].server_ip = packet.server
        /\ k >= 6 => pmap[i].lte_port = p
    BY <1>1, <2>1 DEF IInv, TypeOK, Progress, Job, k, p
  <2> QED
    BY <1>1, <1>3, <2>2 DEF Filled
<1>13. i \notin disputed /\ k <= 5 => pmap[i].lte_port = 0
  BY <1>1 DEF IInv, Contents, Fills, i, k, Job
<1>14. i \notin disputed' /\ k <= 4 => pmap'[i].lte_port = 0
  BY <1>1, <1>3, <1>10, <1>13 DEF Filled
<1>15. \A u \in Receivers : Holds(u, i) /\ i \notin disputed' =>
         k = 6 /\ pmap[i].lte_port = task[u].port
  <2> SUFFICES ASSUME NEW u \in Receivers, Holds(u, i), i \notin disputed'
               PROVE  k = 6 /\ pmap[i].lte_port = task[u].port
    OBVIOUS
  <2>1. u \in Tasks /\ u # Sender /\ task[u].row = i
    BY RaceAssumption DEF Tasks, Holds
  <2>2. i \notin disputed
    BY <1>1, <1>8, <1>10, <2>1 DEF Settle, Working, Others
  <2>3. task[u].row # NoRow
    BY <1>1, <2>1 DEF Rows, NoRow
  <2>4. task[u].port \in Ports
    BY <2>3 DEF IInv, Control
  <2> QED
    BY <1>1, <1>13, <2>2, <2>4, RaceAssumption DEF IInv, Contents
<1>16. Pending /\ (Pending' <=> k < 6)
  BY <1>1, <1>7 DEF Pending
\* The parts of the invariant.
<1>17. TypeOK'
  BY <1>1, <1>3, <1>6, <1>8, <1>10 DEF IInv, TypeOK
<1>18. Control'
  <2>1. \A u \in Tasks :
          /\ task'[u].step \in {"collect", "clear"} => task'[u].at \in Rows
          /\ task'[u].step \in {"collect", "clear"} <=> task'[u].goal # "idle"
          /\ task'[u].step = "clear" => task'[u].wr <= 4
    BY <1>1, <1>6, <1>7 DEF IInv, Control
  <2>2. \A u \in Receivers : u \in Tasks /\ u # Sender /\ task'[u] = task[u]
    BY <1>6, RaceAssumption DEF Tasks
  <2>3. i # NoRow
    BY <1>1 DEF Rows, NoRow
  <2> QED
    BY <1>1, <1>7, <1>8, <1>16, <2>1, <2>2, <2>3 DEF IInv, Control
<1>19. HeldYoung'
  <2>1. \A u \in Tasks, j \in Rows : Holds(u, j)' => ~pmap'[j].old
    BY <1>4, <1>9 DEF IInv, HeldYoung
  <2>2. \A u \in Tasks, j \in Rows : Clears(u, j)' => task'[u].row # j
    BY <1>1, <1>6, <1>9 DEF IInv, HeldYoung, Clears
  <2> QED
    BY <2>1, <2>2 DEF HeldYoung
<1>20. AloneAlone'
  <2>1. \A u \in alone' : u \in alone /\ ~(u = Sender /\ k = 6)
    BY <1>1, <1>10
  <2>2. \A u \in alone' : task'[u].step \in {"clear", "fill"}
    BY <1>1, <1>6, <1>7, <2>1 DEF IInv, TypeOK, AloneAlone
  <2>3. \A u \in Tasks, j \in Rows \ disputed' : Clears(u, j)' \/ Fills(u, j)' => u \in alone'
    <3> SUFFICES ASSUME NEW u \in Tasks, NEW j \in Rows \ disputed', Clears(u, j) \/ Fills(u, j),
                        ~(u = Sender /\ k = 6)
                 PROVE  u \in alone'
      BY <1>1, <1>9 DEF Fills, Clears
    <3>1. CASE j \notin disputed
      BY <1>1, <1>10, <3>1 DEF IInv, AloneAlone
    <3>2. CASE j = i
      <4>1. Fills(u, i)
        BY <1>11, <3>2
      <4>2. u = Sender
        BY <1>1, <4>1, RaceAssumption DEF IInv, Control, Fills, Tasks
      <4> QED
        BY <1>1, <1>10, <1>11, <3>2, <4>2
    <3> QED
      BY <1>10, <3>1, <3>2
  <2>4. \A u \in Tasks : task'[u].row = task[u].row
    BY <1>6, <1>7 DEF i
  <2> QED
    BY <1>9, <2>1, <2>2, <2>3, <2>4 DEF IInv, TypeOK, AloneAlone
<1>21. Progress'
  <2>1. \A u \in alone', j \in Rows : Clears(u, j)' =>
          /\ task'[u].wr >= 1 => pmap'[j].ip_protocol = 0
          /\ task'[u].wr >= 2 => pmap'[j].server_ip = 0
          /\ task'[u].wr >= 4 => pmap'[j].lte_port = 0
    <3> SUFFICES ASSUME NEW u \in alone, NEW j \in Rows, Clears(u, j)
                 PROVE  /\ task'[u].wr >= 1 => pmap'[j].ip_protocol = 0
                        /\ task'[u].wr >= 2 => pmap'[j].server_ip = 0
                        /\ task'[u].wr >= 4 => pmap'[j].lte_port = 0
      BY <1>1, <1>9, <1>10 DEF IInv, TypeOK
    <3>1. u \in Tasks /\ u # Sender
      BY <1>1 DEF IInv, TypeOK, Clears
    <3>2. j # i
      BY <1>1, <3>1 DEF IInv, AloneAlone, i
    <3> QED
      BY <1>3, <1>6, <3>1, <3>2 DEF IInv, Progress
  <2>2. \A j \in Rows : Sender \in alone' /\ Fills(Sender, j)' =>
          j = i /\ k < 6 /\ Sender \in alone
    BY <1>1, <1>9, <1>10 DEF Fills, i
  <2>3. Sender \in alone /\ k < 6 =>
          /\ task'[Sender].wr >= 1 => pmap'[i].ip_protocol = Udp
          /\ task'[Sender].wr >= 2 => pmap'[i].client_ip = packet'.client
          /\ task'[Sender].wr >= 3 => pmap'[i].eth_port = packet'.eport
          /\ task'[Sender].wr >= 4 => pmap'[i].server_ip = packet'.server
          /\ task'[Sender].wr >= 5 => pmap'[i].lte_port = task'[Sender].port
    <3>1. Fills(Sender, i)
      BY <1>1 DEF Fills, i
    <3>2. Sender \in alone =>
          /\ k >= 2 => pmap[i].ip_protocol = Udp
          /\ k >= 3 => pmap[i].client_ip = packet.client
          /\ k >= 4 => pmap[i].eth_port = packet.eport
          /\ k >= 5 => pmap[i].server_ip = packet.server
      BY <1>1, <3>1 DEF IInv, TypeOK, Progress, Job, k
    <3> QED
      BY <1>1, <1>3, <1>7, <1>8, <3>2 DEF Filled
  <2> QED
    BY <2>1, <2>2, <2>3 DEF Progress
<1>22. Contents'
  <2> SUFFICES ASSUME NEW j \in Rows, j \notin disputed'
               PROVE  /\ Live(j)' /\ ~Fills(Sender, j)' => Whole(j)'
                      /\ ~Live(j)' /\ (\A u \in Tasks : ~Clears(u, j)')
                           => pmap'[j].server_ip = 0 /\ pmap'[j].lte_port = 0
                      /\ Fills(Sender, j)' /\ task'[Sender].wr < 5 => pmap'[j].lte_port = 0
                      /\ \A u \in Receivers : Holds(u, j)' =>
                           Live(j)' /\ pmap'[j].lte_port = task'[u].port
                      /\ Holds(Sender, j)' => /\ Live(j)'
                                              /\ pmap'[j].client_ip = packet'.client
                                              /\ pmap'[j].eth_port = packet'.eport
    BY DEF Contents
  <2>0. \A u \in Receivers : u \in Tasks /\ u # Sender /\ task'[u] = task[u]
    BY <1>6, RaceAssumption DEF Tasks
  <2>1. CASE j = i
    <3>1. Live(j)'
      BY <1>12, <2>1 DEF Live, Udp
    <3>2. k = 6 => Whole(j)'
      BY <1>1, <1>8, <1>12, <2>1 DEF Whole
    <3>3. k < 6 => Fills(Sender, j)'
      BY <1>1, <1>9, <2>1 DEF Fills, i
    <3>4. Fills(Sender, j)' /\ task'[Sender].wr < 5 => pmap'[j].lte_port = 0
      BY <1>1, <1>7, <1>9, <1>14, <2>1
    <3>5. \A u \in Receivers : Holds(u, j)' => pmap'[j].lte_port = task'[u].port
      <4> SUFFICES ASSUME NEW u \in Receivers, Holds(u, i)
                   PROVE  pmap'[i].lte_port = task'[u].port
        BY <1>1, <1>9, <2>0, <2>1
      <4>1. k = 6 /\ pmap[i].lte_port = task[u].port
        BY <1>15, <2>1
      <4> QED
        BY <1>3, <2>0, <4>1 DEF Filled
    <3>6. Holds(Sender, j)' => /\ pmap'[j].client_ip = packet'.client
                               /\ pmap'[j].eth_port = packet'.eport
      BY <1>1, <1>7, <1>8, <1>12, <2>1 DEF Holds
    <3> QED
      BY <1>1, <3>1, <3>2, <3>3, <3>4, <3>5, <3>6
  <2>2. CASE j # i
    <3>1. j \notin disputed /\ pmap'[j] = pmap[j]
      BY <1>3, <1>10, <2>2
    <3>2. /\ ~Fills(Sender, j) /\ ~Fills(Sender, j)'
          /\ ~Holds(Sender, j)'
      BY <1>1, <1>9, <2>2 DEF Fills, Holds, i
    <3> QED
      BY <1>1, <1>8, <1>9, <2>0, <2>2, <3>1, <3>2 DEF IInv, Contents, Whole, Live
  <2> QED
    BY <2>1, <2>2
<1>23. \A j \in Rows : j # i /\ j \notin disputed' /\ Live(j)' =>
         /\ j \notin disputed /\ Live(j) /\ pmap'[j] = pmap[j]
         /\ pmap[j].lte_port # p
  BY <1>1, <1>3, <1>10, <1>16 DEF IInv, Reserved, Live, Fills, i, p
<1>24. Reserved'
  <2> SUFFICES ASSUME Pending', NEW j \in Rows \ disputed', Live(j)', ~Fills(Sender, j)'
               PROVE  pmap'[j].lte_port # task'[Sender].port
    BY DEF Reserved
  <2>1. k < 6 /\ task'[Sender].port = p
    BY <1>1, <1>7, <1>16
  <2>2. j # i
    BY <1>1, <1>7, <2>1 DEF Fills
  <2> QED
    BY <1>23, <2>1, <2>2
<1>25. PortsApart'
  <2>1. i \notin disputed' => pmap'[i].lte_port \in {0, p}
    BY <1>1, <1>12, <1>14
  <2> QED
    BY <1>23, <2>1 DEF IInv, PortsApart
<1> QED
  BY <1>17, <1>18, <1>19, <1>20, <1>21, <1>22, <1>24, <1>25 DEF IInv

-------------------------------------------------------------------------------
(* The theorems *)

LEMMA InitHolds ==
  ASSUME Init
  PROVE  IInv
<1>1. Blank \in Row /\ Idle \in Job
  BY DEF Blank, Row, Idle, Job
<1>2. TypeOK
  BY <1>1 DEF Init, TypeOK
<1>3. Control /\ ~Pending
  BY DEF Init, Control, Pending, Idle, Tasks
<1>4. HeldYoung
  BY DEF Init, HeldYoung, Holds, Clears, Idle, NoRow, Rows
<1>5. AloneAlone /\ Progress
  BY DEF Init, AloneAlone, Progress, Clears, Fills, Idle, Tasks
<1>6. Contents
  BY RaceAssumption
  DEF Init, Contents, Whole, Live, Holds, Clears, Fills, Idle, Blank, Tasks, NoRow, Rows
<1>7. Reserved /\ PortsApart
  BY <1>3 DEF Init, Reserved, PortsApart, Live, Blank
<1> QED
  BY <1>2, <1>3, <1>4, <1>5, <1>6, <1>7 DEF IInv

LEMMA NextHolds ==
  ASSUME IInv, [Next]_vars
  PROVE  IInv'
<1>1. ASSUME NEW t \in Tasks, Gc(t) PROVE IInv'
  BY <1>1, BeginStep, CondemnStep, SpareStep, ClearStep DEF Gc
<1>2. ASSUME NEW f \in Traffic, Find(f) \/ Open(f) PROVE IInv'
  BY <1>2, FindStep, OpenStep
<1>3. CASE Renew \/ Again \/ ChooseEmpty \/ Panic \/ Fill
  BY <1>3, RenewStep, AgainStep, ChooseEmptyStep, PanicStep, FillStep
<1>4. CASE Send
  BY <1>4, Rests DEF Send, Tasks
<1>5. ASSUME NEW t \in Receivers, ReceiverStep(t) PROVE IInv'
  <2>1. ASSUME NEW s \in Servers, NEW p \in Ports, Search(t, s, p) PROVE IInv'
    BY <2>1, SearchStep
  <2>2. CASE Refuse(t) \/ Forward(t)
    BY <2>2, Rests DEF Refuse, Forward, Tasks
  <2> QED
    BY <1>5, <2>1, <2>2 DEF ReceiverStep
<1>6. CASE Age
  BY <1>6, AgeStep
<1>7. CASE UNCHANGED vars
  <2> USE <1>7 DEF vars
  <2>1. TypeOK'
    BY DEF IInv, TypeOK
  <2>2. Control' /\ HeldYoung'
    BY DEF IInv, Control, HeldYoung, Pending, Holds, Clears
  <2>3. AloneAlone' /\ Progress'
    BY DEF IInv, AloneAlone, Progress, Clears, Fills
  <2>4. Contents'
    BY DEF IInv, Contents, Whole, Live, Holds, Clears, Fills
  <2>5. Reserved' /\ PortsApart'
    BY DEF IInv, Reserved, PortsApart, Pending, Live, Fills
  <2> QED
    BY <2>1, <2>2, <2>3, <2>4, <2>5 DEF IInv
<1> QED
  BY <1>1, <1>2, <1>3, <1>4, <1>5, <1>6, <1>7 DEF Next, SenderStep

THEOREM Invariance == Spec => []IInv
<1>1. Init => IInv
  BY InitHolds
<1>2. IInv /\ [Next]_vars => IInv'
  BY NextHolds
<1> QED
  BY <1>1, <1>2, PTL DEF Spec

\* Rows and tasks keep their types: no collection runs past the table and no
\* field gets a value of another (hdr_portmap.cpp:21-36, 205-211).
THEOREM TypeCorrect == Spec => []TypeOK
<1>1. IInv => TypeOK
  BY DEF IInv
<1> QED
  BY <1>1, Invariance, PTL

\* Whatever the tasks of both cores do to the table in between, client and
\* port that a receive task reads through the pointer its search returned are
\* those the port was handed out for, if no collection of the row was under
\* way (gw_eth.cpp:168-180).
THEOREM ReadersReadRight == Spec => []ReadsRight
<1>1. IInv => ReadsRight
  <2> SUFFICES ASSUME IInv, NEW t \in Receivers, NEW i \in Rows \ disputed, Holds(t, i)
               PROVE  /\ pmap[i].client_ip = owner[task[t].port].client
                      /\ pmap[i].eth_port = owner[task[t].port].eport
    BY DEF ReadsRight
  <2>1. Live(i) /\ pmap[i].lte_port = task[t].port
    BY DEF IInv, Contents
  <2>2. CASE ~Fills(Sender, i)
    BY <2>1, <2>2 DEF IInv, Contents, Whole
  <2>3. CASE Fills(Sender, i)
    <3>1. i # NoRow /\ task[t].row = i
      BY DEF Rows, NoRow, Holds
    <3>2. task[t].port # 0
      BY <3>1, RaceAssumption DEF IInv, Control
    <3>3. Sender \in alone /\ Sender \in Tasks /\ task[Sender].wr \in 0 .. 5
      BY <2>3 DEF IInv, TypeOK, AloneAlone, Tasks, Job
    <3>4. task[Sender].wr = 5
      BY <2>1, <2>3, <3>2, <3>3 DEF IInv, Contents
    <3>5. /\ pmap[i].client_ip = packet.client
          /\ pmap[i].eth_port = packet.eport
          /\ pmap[i].lte_port = task[Sender].port
      BY <2>3, <3>3, <3>4 DEF IInv, Progress
    <3>6. owner[task[Sender].port] = packet
      BY <2>3 DEF IInv, Control, Pending, Fills
    <3> QED
      BY <2>1, <3>5, <3>6
  <2> QED
    BY <2>2, <2>3
<1> QED
  BY <1>1, Invariance, PTL

\* The port the sender puts into the packet is one handed out for the packet's
\* client and port, in a row the reply can find (gw_uart.cpp:275).
THEOREM SenderSendsRight == Spec => []SentRight
<1>1. IInv => SentRight
  <2> SUFFICES ASSUME IInv, task[Sender].step = "send",
                      task[Sender].row \notin disputed
               PROVE  LET i == task[Sender].row
                          p == pmap[i].lte_port
                      IN  /\ Live(i) /\ p \in Ports
                          /\ owner[p].client = packet.client
                          /\ owner[p].eport = packet.eport
    BY DEF SentRight
  <2> DEFINE i == task[Sender].row
  <2>1. i \in Rows /\ Sender \in Tasks
    BY DEF IInv, TypeOK, Control, Job, Tasks
  <2>2. Holds(Sender, i) /\ ~Fills(Sender, i)
    BY DEF Holds, Fills
  <2>3. /\ Live(i)
        /\ pmap[i].client_ip = packet.client
        /\ pmap[i].eth_port = packet.eport
    BY <2>1, <2>2 DEF IInv, Contents
  <2>4. Whole(i)
    BY <2>1, <2>2, <2>3 DEF IInv, Contents
  <2> QED
    BY <2>3, <2>4 DEF Whole
<1> QED
  BY <1>1, Invariance, PTL

\* No port is in two live rows, though the generator, the collections and the
\* insertion run on two cores (hdr_portmap.cpp:238-247).
THEOREM PortsStayApart == Spec => []PortsApart
<1>1. IInv => PortsApart
  BY DEF IInv
<1> QED
  BY <1>1, Invariance, PTL

-------------------------------------------------------------------------------
(* One row for one flow *)

\* A row that a search may find, undisputed and filled.
Filed(i) == i \notin disputed /\ Live(i) /\ ~Fills(Sender, i)

Names(i, f) == pmap[i].client_ip = f.client /\ pmap[i].eth_port = f.eport

\* The flow that waits for its row has none.
Unfiled == Pending => \A i \in Rows : Filed(i) => ~Names(i, packet)

\* A filled row changes neither client nor port, and none appears but the
\* sender's, when it has written its last field.
LEMMA RowsRemain ==
  ASSUME IInv, [Next]_vars, NEW i \in Rows, Filed(i)'
  PROVE  \/ /\ Filed(i)
            /\ pmap'[i].client_ip = pmap[i].client_ip
            /\ pmap'[i].eth_port = pmap[i].eth_port
         \/ /\ Fill /\ ~Pending'
            /\ Pending /\ i = task[Sender].row
            /\ Names(i, packet)'
<1>0. Sender \in Tasks /\ task \in [Tasks -> Job] /\ pmap \in [Rows -> Row]
  BY DEF Tasks, IInv, TypeOK
\* Steps that leave rows, disputes and the row being filled.
<1> DEFINE Same == /\ Live(i)' <=> Live(i)
                   /\ pmap'[i].client_ip = pmap[i].client_ip
                   /\ pmap'[i].eth_port = pmap[i].eth_port
                   /\ disputed \subseteq disputed'
                   /\ Fills(Sender, i) => Fills(Sender, i)'
<1>1. Same => Filed(i)
  BY DEF Filed
<1>2. ASSUME NEW t \in Tasks, Begin(t) \/ Spare(t) \/ Condemn(t) PROVE Same
  <2>1. pmap' = pmap
    BY <1>2 DEF Begin, Spare, Condemn
  <2>2. disputed \subseteq disputed'
    BY <1>2 DEF Begin, Spare, Condemn, Take
  <2>3. Fills(Sender, i) => task'[Sender] = task[Sender]
    BY <1>0, <1>2 DEF Begin, Spare, Condemn, Fills
  <2> QED
    BY <2>1, <2>2, <2>3 DEF Live, Fills
<1>3. ASSUME NEW t \in Tasks, Clear(t) PROVE Filed(i) /\ pmap'[i] = pmap[i]
  <2> DEFINE r == task[t].at
             k == task[t].wr + 1
  <2>1. /\ r \in Rows /\ k \in 1 .. 5 /\ task[t].step = "clear" /\ Clears(t, r)
        /\ pmap' = [pmap EXCEPT ![r] = Cleared(pmap[r], k)]
        /\ k < 5 => UNCHANGED <<alone, disputed>>
        /\ k = 5 => Settle(t, r)
    BY <1>0, <1>3 DEF IInv, Control, Clear, Job, Clears
  <2>2. Fills(Sender, i)' <=> Fills(Sender, i)
    <3>1. CASE t = Sender
      <4>1. task'[t].step # "fill"
        BY <1>0, <1>3, <2>1 DEF Clear, Advanced, Written, Job
      <4> QED
        BY <2>1, <3>1, <4>1 DEF Fills
    <3>2. CASE t # Sender
      <4>1. task'[Sender] = task[Sender]
        BY <1>0, <1>3, <3>2 DEF Clear
      <4> QED
        BY <4>1 DEF Fills
    <3> QED
      BY <3>1, <3>2
  <2> HIDE DEF r, k
  <2>3. CASE i = r
    <3>1. t \in alone
      BY <2>1, <2>3 DEF IInv, AloneAlone, Settle, Filed
    <3>2. k >= 2 => pmap[r].ip_protocol = 0
      BY <1>0, <2>1, <3>1 DEF IInv, Progress, Job, k
    <3>3. pmap'[r].ip_protocol = 0
      BY <1>0, <2>1, <3>2 DEF Cleared
    <3> QED
      BY <2>3, <3>3 DEF Filed, Live
  <2>4. CASE i # r
    <3>1. pmap'[i] = pmap[i]
      BY <1>0, <2>1, <2>4
    <3>2. i \notin disputed
      BY <2>1, <2>4 DEF Settle, Filed
    <3> QED
      BY <2>2, <3>1, <3>2 DEF Filed, Live
  <2> QED
    BY <2>3, <2>4
<1>4. ASSUME NEW f \in Traffic, Find(f) \/ Open(f) PROVE Same
  <2>1. task[Sender].step = "find"
    BY <1>4 DEF Find, Open
  <2>2. disputed \subseteq disputed'
    BY <1>4 DEF Find, Open, Hold
  <2>3. CASE Find(f)
    <3>1. OnlyAges
      BY <2>3, FreshAges DEF Find, IInv
    <3> QED
      BY <2>1, <2>2, <3>1 DEF OnlyAges, Live, Fills
  <2>4. CASE Open(f)
    BY <2>1, <2>2, <2>4 DEF Open, Live, Fills
  <2> QED
    BY <1>4, <2>3, <2>4
<1>5. CASE Renew
  <2>1. OnlyAges
    <3>1. CASE UNCHANGED pmap
      BY <1>0, <3>1 DEF OnlyAges
    <3>2. CASE \E j \in Rows : Fresh(j)
      BY <3>2, FreshAges DEF IInv
    <3> QED
      BY <1>5, <3>1, <3>2 DEF Renew
  <2> QED
    BY <1>1, <1>5, <2>1 DEF Renew, OnlyAges, Live, Fills
<1>6. CASE Again \/ Send
  BY <1>1, <1>6 DEF Again, Send, Live, Fills
<1>7. CASE ChooseEmpty
  <2>1. disputed \subseteq disputed' /\ pmap' = pmap /\ task[Sender].step = "empty"
    BY <1>7 DEF ChooseEmpty, Take
  <2> QED
    BY <1>1, <2>1 DEF Live, Fills
<1>8. CASE Panic
  BY <1>8 DEF Panic, Filed, Live, Blank
<1>9. CASE Fill
  <2> DEFINE r == task[Sender].row
             k == task[Sender].wr + 1
             p == task[Sender].port
  <2>1. /\ r \in Rows /\ k \in 1 .. 6 /\ p \in Ports
        /\ task[Sender].step = "fill" /\ task[Sender].goal = "idle"
        /\ Fills(Sender, r) /\ Pending
        /\ pmap' = [pmap EXCEPT ![r] = Filled(pmap[r], packet, p, k)]
        /\ packet' = packet
        /\ k < 6 => UNCHANGED <<alone, disputed>>
        /\ k = 6 => Settle(Sender, r)
    BY <1>0, <1>9 DEF IInv, Control, Pending, Fill, Job, Fills, NoRow
  <2>2. /\ k < 6 /\ i = r => Fills(Sender, i)'
        /\ k = 6 => task'[Sender].step = "send" /\ task'[Sender].goal = "idle"
    BY <1>0, <1>9, <2>1 DEF Fill, Fills, Written
  <2> HIDE DEF r, k, p
  <2>3. CASE i = r
    <3>1. k = 6
      BY <2>1, <2>2, <2>3 DEF Filed
    <3>2. Sender \in alone
      BY <1>0, <2>1, <2>3, <3>1 DEF IInv, AloneAlone, Settle, Filed
    <3>3. pmap[r].client_ip = packet.client /\ pmap[r].eth_port = packet.eport
      BY <1>0, <2>1, <3>1, <3>2 DEF IInv, Progress, Job, k
    <3>4. pmap'[r].client_ip = packet.client /\ pmap'[r].eth_port = packet.eport
      BY <1>0, <2>1, <3>1, <3>3 DEF Filled
    <3> QED
      BY <1>9, <2>1, <2>2, <2>3, <3>1, <3>4 DEF Names, Pending, r
  <2>4. CASE i # r
    <3>1. pmap'[i] = pmap[i]
      BY <1>0, <2>1, <2>4
    <3>2. i \notin disputed
      BY <2>1, <2>4 DEF Settle, Filed
    <3>3. ~Fills(Sender, i)
      BY <2>4 DEF Fills, r
    <3> QED
      BY <3>1, <3>2, <3>3 DEF Filed, Live
  <2> QED
    BY <2>3, <2>4
<1>10. ASSUME NEW t \in Receivers, ReceiverStep(t) PROVE Same
  <2>1. task'[Sender] = task[Sender] /\ disputed \subseteq disputed'
    BY <1>0, <1>10, RaceAssumption DEF ReceiverStep, Search, Refuse, Forward, Hold
  <2>2. OnlyAges
    <3>1. ASSUME NEW s \in Servers, NEW p \in Ports, Search(t, s, p) PROVE OnlyAges
      BY <3>1, FreshAges DEF Search, IInv
    <3>2. CASE Refuse(t) \/ Forward(t)
      BY <1>0, <3>2 DEF Refuse, Forward, OnlyAges
    <3> QED
      BY <1>10, <3>1, <3>2 DEF ReceiverStep
  <2> QED
    BY <2>1, <2>2 DEF OnlyAges, Live, Fills
<1>11. CASE Age
  <2>1. OnlyAges /\ UNCHANGED <<task, disputed>>
    BY <1>11, AgeAges DEF Age, IInv
  <2> QED
    BY <1>1, <2>1 DEF OnlyAges, Live, Fills
<1>12. CASE UNCHANGED vars
  BY <1>1, <1>12 DEF vars, Live, Fills
<1> HIDE DEF Same
<1>13. Same => /\ Filed(i)
               /\ pmap'[i].client_ip = pmap[i].client_ip
               /\ pmap'[i].eth_port = pmap[i].eth_port
  BY <1>1 DEF Same
<1> QED
  BY <1>2, <1>3, <1>4, <1>5, <1>6, <1>7, <1>8, <1>9, <1>10, <1>11, <1>12, <1>13
  DEF Next, Gc, SenderStep

\* A flow begins to wait only when the search has found no row of it.
LEMMA WaitsUnfiled ==
  ASSUME IInv, [Next]_vars, Pending'
  PROVE  \/ Pending /\ packet' = packet
         \/ \A i \in Rows : Live(i) => ~Names(i, packet')
<1>0. Sender \in Tasks /\ task \in [Tasks -> Job]
  BY DEF Tasks, IInv, TypeOK
<1>1. ASSUME NEW t \in Tasks, Gc(t) PROVE Pending /\ packet' = packet
  <2>1. packet' = packet
    BY <1>1 DEF Gc, Begin, Condemn, Spare, Clear
  <2>2. CASE t # Sender
    <3>1. task'[Sender] = task[Sender]
      BY <1>0, <1>1, <2>2 DEF Gc, Begin, Condemn, Spare, Clear
    <3> QED
      BY <2>1, <3>1 DEF Pending
  <2>3. CASE t = Sender
    <3>1. CASE Begin(t)
      <4>1. task'[Sender].step = "collect" /\ task'[Sender].goal = "find"
        BY <1>0, <2>3, <3>1 DEF Begin, Collect
      <4> QED
        BY <4>1 DEF Pending
    <3>2. CASE Condemn(t)
      BY <1>0, <2>1, <2>3, <3>2 DEF Condemn, Pending
    <3>3. CASE Spare(t)
      <4>1. task'[Sender] = Advanced(task[Sender])
        BY <1>0, <2>3, <3>3 DEF Spare
      <4> QED
        BY <1>0, <2>1, <2>3, <4>1 DEF Advanced, Pending, Job
    <3>4. CASE Clear(t)
      <4>1. task'[Sender] \in {Advanced(task[Sender]), Written(task[Sender])}
        BY <1>0, <2>3, <3>4 DEF Clear
      <4>2. task[Sender].step = "clear"
        BY <2>3, <3>4 DEF Clear
      <4> QED
        BY <1>0, <2>1, <4>1, <4>2 DEF Advanced, Written, Pending, Job
    <3> QED
      BY <1>1, <3>1, <3>2, <3>3, <3>4 DEF Gc
  <2> QED
    BY <2>2, <2>3
<1>2. ASSUME NEW f \in Traffic, Find(f) PROVE FALSE
  <2>1. \/ task'[Sender].step = "collect" /\ task'[Sender].goal = "renew"
        \/ task'[Sender].step = "idle" /\ task'[Sender].goal = "idle"
    BY <1>0, <1>2 DEF Find, Collect, Idle
  <2> QED
    BY <2>1 DEF Pending
<1>3. ASSUME NEW f \in Traffic, Open(f) PROVE \A i \in Rows : Live(i) => ~Names(i, packet')
  <2>1. CASE packet' = f
    BY <1>3, <2>1 DEF Open, ByClient, Names
  <2>2. CASE task' = [task EXCEPT ![Sender] = Idle]
    <3>1. task'[Sender].step = "idle" /\ task'[Sender].goal = "idle"
      BY <1>0, <2>2 DEF Idle
    <3> QED
      BY <3>1 DEF Pending
  <2> QED
    BY <1>3, <2>1, <2>2 DEF Open
<1>4. CASE Renew \/ Send \/ Panic
  <2>1. task'[Sender].step \in {"send", "idle"} /\ task'[Sender].goal = "idle"
    BY <1>0, <1>4 DEF Renew, Send, Panic, Idle
  <2> QED
    BY <2>1 DEF Pending
<1>5. CASE Again \/ ChooseEmpty \/ Fill
  BY <1>5 DEF Again, ChooseEmpty, Fill, Pending
<1>6. ASSUME NEW t \in Receivers, ReceiverStep(t) PROVE Pending /\ packet' = packet
  <2>1. task'[Sender] = task[Sender] /\ packet' = packet
    BY <1>0, <1>6, RaceAssumption DEF ReceiverStep, Search, Refuse, Forward
  <2> QED
    BY <2>1 DEF Pending
<1>7. CASE Age \/ UNCHANGED vars
  BY <1>7 DEF Age, vars, Pending
<1> QED
  BY <1>1, <1>2, <1>3, <1>4, <1>5, <1>6, <1>7 DEF Next, SenderStep

\* The row that a search stops at is the only one it could have found, in
\* either direction and whatever the tasks of both cores do to the table in
\* between (hdr_portmap.cpp:238-247, gw_uart.cpp:216-225).
THEOREM RowsStayApart == Spec => []RowsApart
<1>1. Init => Unfiled /\ FlowsApart
  BY DEF Init, Unfiled, FlowsApart, Pending, Idle, Live, Blank, Tasks
<1>2. IInv /\ Unfiled /\ FlowsApart /\ [Next]_vars => Unfiled' /\ FlowsApart'
  <2> SUFFICES ASSUME IInv, Unfiled, FlowsApart, [Next]_vars
               PROVE  Unfiled' /\ FlowsApart'
    OBVIOUS
  <2>1. Unfiled'
    <3> SUFFICES ASSUME Pending', NEW i \in Rows, Filed(i)' PROVE ~Names(i, packet)'
      BY DEF Unfiled
    <3>1. /\ Filed(i)
          /\ pmap'[i].client_ip = pmap[i].client_ip
          /\ pmap'[i].eth_port = pmap[i].eth_port
      BY RowsRemain
    <3>2. ~Names(i, packet')
      BY <3>1, WaitsUnfiled DEF Unfiled, Filed
    <3> QED
      BY <3>1, <3>2 DEF Names
  <2>2. FlowsApart'
    <3> SUFFICES ASSUME NEW i \in Rows, NEW j \in Rows, i # j, Filed(i)', Filed(j)',
                        pmap'[i].client_ip = pmap'[j].client_ip,
                        pmap'[i].eth_port = pmap'[j].eth_port
                 PROVE  FALSE
      BY DEF FlowsApart, Filed
    <3>1. CASE Filed(i) /\ Filed(j) /\ ~Fill
      BY <3>1, RowsRemain DEF FlowsApart, Filed
    <3>2. ASSUME NEW a \in Rows, NEW b \in Rows, a # b, Filed(a)', Filed(b)',
                 pmap'[a].client_ip = pmap'[b].client_ip,
                 pmap'[a].eth_port = pmap'[b].eth_port, Fill,
                 a = task[Sender].row, Pending, Names(a, packet)'
          PROVE  FALSE
      <4>1. packet' = packet
        BY <3>2 DEF Fill
      <4>2. /\ Filed(b)
            /\ pmap'[b].client_ip = pmap[b].client_ip
            /\ pmap'[b].eth_port = pmap[b].eth_port
        BY <3>2, RowsRemain
      <4>3. ~Names(b, packet)
        BY <3>2, <4>2 DEF Unfiled
      <4> QED
        BY <3>2, <4>1, <4>2, <4>3 DEF Names
    <3> QED
      BY <3>1, <3>2, RowsRemain DEF FlowsApart, Filed
  <2> QED
    BY <2>1, <2>2
<1>3. IInv => PortsApart
  BY DEF IInv
<1> QED
  BY <1>1, <1>2, <1>3, Invariance, PTL DEF Spec, RowsApart
===============================================================================
