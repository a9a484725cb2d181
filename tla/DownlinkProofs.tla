---------------------------- MODULE DownlinkProofs ----------------------------
(***************************************************************************)
(* Proofs about Downlink, for any hosts, tasks and number of rows.         *)
(*                                                                         *)
(* Every step of the downlink is a step of the ARP cache or leaves it      *)
(* alone, so what ArpCacheProofs proves of the cache holds here.  DlInv    *)
(* adds where each task is in its packet: which row it copies from, and    *)
(* what is already right in the buffers while a task is alone in them.     *)
(***************************************************************************)
EXTENDS Downlink, ArpCacheProofs

\* What a task has taken from its packet and found in the cache.
OnItsWay(t) == /\ pc[t] # "uart" => client[t] \in Hosts
               /\ pc[t] = "copy" => /\ reading[t].row # NoRow
                                    /\ reading[t].ip = client[t]

\* A task that is alone in the buffers finds there what it has written.
Buffers(t) == /\ pc[t] \in {"resolve", "wait", "copy", "send"} =>
                   eth_packet = [of |-> t, ip |-> client[t]]
              /\ pc[t] = "send" => mac = client[t]

OneInside == \A t, u \in Readers : Inside(t) /\ Inside(u) => t = u

DlInv == /\ \A t \in Readers : OnItsWay(t)
         /\ ~spoilt => OneInside /\ \A t \in Readers : Buffers(t)
         /\ LockHeld

Inv == TypeOK /\ ArpInv /\ DlInv

-------------------------------------------------------------------------------

LEMMA DownlinkInitInv == Init => Inv
<1> SUFFICES ASSUME Init PROVE Inv
  OBVIOUS
<1>1. ArpTypeOK /\ ArpInv
  BY ArpInitInv DEF Init
<1>2. TypeOK
  BY <1>1 DEF Init, TypeOK
<1>3. \A t \in Readers : ~Inside(t) /\ OnItsWay(t) /\ Buffers(t)
  BY DEF Init, Inside, OnItsWay, Buffers
<1>4. DlInv
  BY <1>3 DEF Init, DlInv, LockHeld, OneInside
<1>5. QED
  BY <1>1, <1>2, <1>4 DEF Inv

(* A step of the downlink is a step of the ARP cache or leaves it alone. *)
LEMMA CacheStep ==
  ASSUME Inv, [Next]_vars
  PROVE  [ArpNext]_arpvars
<1>1. ASSUME NEW t \in Readers, Receive(t) PROVE [ArpNext]_arpvars
  <2>1. CASE LookUp(t) \/ Poll(t)
    <3>1. pc[t] \in {"resolve", "wait"} /\ Search(t, client[t])
      BY <2>1 DEF LookUp, Poll, Go
    <3>2. client[t] \in Hosts
      BY <3>1 DEF Inv, DlInv, OnItsWay
    <3>3. QED
      BY <3>1, <3>2 DEF ArpNext
  <2>2. CASE CopyMac(t)
    BY <2>2 DEF CopyMac, ArpNext
  <2>3. CASE ~(LookUp(t) \/ Poll(t) \/ CopyMac(t))
    BY <1>1, <2>3 DEF Receive, Forward, PacketIn, SeeFree, Lock, Unlock, Refuse, Build,
                      Send, NotConnected, GiveUp
  <2>4. QED
    BY <2>1, <2>2, <2>3
<1>2. CASE EthEvent
  BY <1>2 DEF EthEvent
<1>3. CASE (Learn \/ Age) /\ UNCHANGED dlvars
  BY <1>3 DEF ArpNext
<1>4. CASE UNCHANGED vars
  BY <1>4 DEF vars
<1>5. QED
  BY <1>1, <1>2, <1>3, <1>4 DEF Next

(* Every step keeps the types. *)
LEMMA DownlinkTypesStep ==
  ASSUME Inv, [Next]_vars
  PROVE  TypeOK'
<1>0. ArpTypeOK'
  BY CacheStep, ArpStep DEF Inv, TypeOK
<1>1. ASSUME NEW t \in Readers, Receive(t) PROVE TypeOK'
  <2>1. CASE PacketIn(t) \/ SeeFree(t) \/ Lock(t) \/ Unlock(t)
    BY <1>0, <2>1 DEF PacketIn, SeeFree, Lock, Unlock, Go, Inv, TypeOK
  <2>2. CASE Refuse(t) \/ Build(t) \/ Send(t) \/ NotConnected(t) \/ GiveUp(t)
    BY <1>0, <2>2 DEF Refuse, Build, Send, NotConnected, GiveUp, Go, Inv, TypeOK
  <2>3. CASE LookUp(t) \/ Poll(t)
    BY <1>0, <2>3 DEF LookUp, Poll, Go, Inv, TypeOK
  <2>4. CASE CopyMac(t)
    <3>1. reading[t].row \in Rows
      BY <2>4 DEF CopyMac, Release, Inv, TypeOK, ArpTypeOK
    <3>2. arp_cache[reading[t].row].mac \in Hosts \cup {NoHost}
      BY <3>1 DEF Inv, TypeOK, ArpTypeOK
    <3>3. mac' \in Hosts \cup {NoHost} /\ spoilt' \in BOOLEAN
      BY <2>4, <3>2 DEF CopyMac, Inv, TypeOK
    <3>4. QED
      BY <1>0, <2>4, <3>3 DEF CopyMac, Go, Inv, TypeOK
  <2>5. QED
    BY <1>1, <2>1, <2>2, <2>3, <2>4 DEF Receive, Forward
<1>2. CASE EthEvent
  BY <1>0, <1>2 DEF EthEvent, Inv, TypeOK
<1>3. CASE UNCHANGED dlvars
  BY <1>0, <1>3 DEF dlvars, Inv, TypeOK
<1>4. QED
  BY <1>1, <1>2, <1>3 DEF Next, vars

-------------------------------------------------------------------------------

(* A task that stays where it is inside or outside of the lock, and writes only
   what its own place says, keeps DlInv. *)
LEMMA WithinKeeps ==
  ASSUME Inv, NEW t \in Readers, NEW from, NEW to, Go(t, from, to),
         Inside(t)' = Inside(t),
         UNCHANGED <<eth_tx_lock, client>>, ~spoilt' => ~spoilt,
         \A u \in Readers \ {t} : reading'[u] = reading[u],
         ~Inside(t) => UNCHANGED <<eth_packet, mac>>,
         OnItsWay(t)', ~spoilt' => Buffers(t)'
  PROVE  DlInv'
<1>1. pc[t] = from /\ pc'[t] = to /\ \A u \in Readers \ {t} : pc'[u] = pc[u]
  BY DEF Go, Inv, TypeOK
<1>2. \A u \in Readers : Inside(u)' = Inside(u)
  BY <1>1 DEF Inside
<1>3. \A u \in Readers : OnItsWay(u)'
  BY <1>1 DEF Inv, DlInv, OnItsWay
<1>4. ASSUME ~spoilt' PROVE OneInside' /\ \A u \in Readers : Buffers(u)'
  <2>1. OneInside /\ \A u \in Readers : Buffers(u)
    BY <1>4 DEF Inv, DlInv
  <2>2. OneInside'
    BY <1>2, <2>1 DEF OneInside
  <2>3. ASSUME NEW u \in Readers \ {t} PROVE Buffers(u)'
    <3>1. CASE ~Inside(t)
      BY <1>1, <2>1, <3>1 DEF Buffers
    <3>2. CASE Inside(t)
      <4>1. ~Inside(u)
        BY <2>1, <3>2 DEF OneInside
      <4>2. QED
        BY <1>1, <4>1 DEF Buffers, Inside
    <3>3. QED
      BY <3>1, <3>2
  <2>4. QED
    BY <1>4, <2>2, <2>3
<1>5. LockHeld'
  BY <1>2 DEF Inv, DlInv, LockHeld
<1>6. QED
  BY <1>3, <1>4, <1>5 DEF DlInv

LEMMA ReceiveKeeps ==
  ASSUME Inv, NEW t \in Readers, Receive(t), ArpInv'
  PROVE  DlInv'
<1>0. /\ OnItsWay(t) /\ (~spoilt => Buffers(t) /\ OneInside)
      /\ client \in [Readers -> Hosts \cup {NoHost}]
      /\ reading \in [Readers -> [row : Rows \cup {NoRow}, ip : Hosts \cup {NoHost}]]
      /\ pc \in [Readers -> {"uart", "test", "set", "forward", "resolve", "wait",
                             "copy", "send", "late", "unlock"}]
  BY DEF Inv, DlInv, TypeOK, ArpTypeOK
<1>1. CASE PacketIn(t)
  <2>1. /\ pc[t] = "uart" /\ pc'[t] = "test" /\ client'[t] \in Hosts
        /\ \A u \in Readers \ {t} : pc'[u] = pc[u] /\ client'[u] = client[u]
        /\ UNCHANGED <<reading, eth_tx_lock, eth_packet, mac, spoilt>>
    BY <1>0, <1>1 DEF PacketIn, Go, arpvars
  <2>2. \A u \in Readers : OnItsWay(u)'
    BY <2>1 DEF Inv, DlInv, OnItsWay
  <2>3. \A u \in Readers : Inside(u)' = Inside(u)
    BY <2>1 DEF Inside
  <2>4. \A u \in Readers : Buffers(u) => Buffers(u)'
    BY <2>1 DEF Buffers
  <2>5. QED
    BY <2>1, <2>2, <2>3, <2>4 DEF Inv, DlInv, OneInside, LockHeld
<1>2. CASE SeeFree(t)
  <2>1. Go(t, "test", "set") /\ UNCHANGED <<reading, eth_tx_lock, client, eth_packet, mac, spoilt>>
    BY <1>2 DEF SeeFree, arpvars
  <2>2. pc[t] = "test" /\ pc'[t] = "set"
    BY <1>0, <2>1 DEF Go
  <2>3. OnItsWay(t)' /\ Buffers(t)' /\ Inside(t)' = Inside(t) /\ ~Inside(t)
    BY <1>0, <2>1, <2>2 DEF OnItsWay, Buffers, Inside
  <2>4. QED
    BY <2>1, <2>3, WithinKeeps
<1>3. CASE Lock(t)
  <2>1. /\ pc[t] = "set" /\ pc'[t] = "forward"
        /\ \A u \in Readers \ {t} : pc'[u] = pc[u]
        /\ eth_tx_lock' = TRUE /\ spoilt' = \E u \in Readers \ {t} : Inside(u)
        /\ UNCHANGED <<reading, client, eth_packet, mac>>
    BY <1>0, <1>3 DEF Lock, Go, arpvars
  <2>2. \A u \in Readers : OnItsWay(u)'
    BY <2>1 DEF Inv, DlInv, OnItsWay
  <2>3. Inside(t)' /\ \A u \in Readers \ {t} : Inside(u)' = Inside(u)
    BY <2>1 DEF Inside
  <2>4. ASSUME ~spoilt' PROVE OneInside' /\ \A u \in Readers : Buffers(u)'
    <3>1. \A u \in Readers \ {t} : ~Inside(u)
      BY <2>1, <2>4
    <3>2. OneInside'
      BY <2>3, <3>1 DEF OneInside
    <3>3. \A u \in Readers : Buffers(u)'
      BY <2>1, <3>1 DEF Buffers, Inside
    <3>4. QED
      BY <3>2, <3>3
  <2>5. LockHeld'
    BY <2>1, <2>3 DEF LockHeld
  <2>6. QED
    BY <2>2, <2>4, <2>5 DEF DlInv
<1>4. CASE Unlock(t)
  <2>1. /\ pc[t] = "unlock" /\ pc'[t] = "uart" /\ eth_tx_lock' = FALSE
        /\ \A u \in Readers \ {t} : pc'[u] = pc[u] /\ client'[u] = client[u]
        /\ UNCHANGED <<reading, eth_packet, mac, spoilt>>
    BY <1>0, <1>4 DEF Unlock, Go, arpvars
  <2>2. \A u \in Readers : OnItsWay(u)'
    BY <2>1 DEF Inv, DlInv, OnItsWay
  <2>3. Inside(t) /\ ~Inside(t)' /\ \A u \in Readers \ {t} : Inside(u)' = Inside(u)
    BY <2>1 DEF Inside
  <2>4. ASSUME ~spoilt PROVE OneInside' /\ \A u \in Readers : Buffers(u)' /\ ~Inside(u)'
    <3>1. \A u \in Readers : ~Inside(u)'
      BY <1>0, <2>3, <2>4 DEF OneInside
    <3>2. QED
      BY <2>1, <3>1 DEF OneInside, Buffers, Inside
  <2>5. QED
    BY <2>1, <2>2, <2>4 DEF DlInv, LockHeld
<1>5. CASE Refuse(t) \/ NotConnected(t) \/ GiveUp(t) \/ Send(t)
  <2>1. PICK from \in {"forward", "resolve", "wait", "send", "late"}, to \in {"unlock", "late"} :
          Go(t, from, to)
    BY <1>5 DEF Refuse, NotConnected, GiveUp, Send
  <2>2. UNCHANGED <<reading, eth_tx_lock, client, eth_packet, mac, spoilt>>
    BY <1>5 DEF Refuse, NotConnected, GiveUp, Send, arpvars
  <2>3. pc[t] = from /\ pc'[t] = to
    BY <1>0, <2>1 DEF Go
  <2>4. OnItsWay(t)' /\ Buffers(t)' /\ Inside(t)' = Inside(t)
    BY <1>0, <2>2, <2>3 DEF OnItsWay, Buffers, Inside
  <2>5. QED
    BY <2>1, <2>2, <2>4, <2>3, WithinKeeps
<1>6. CASE Build(t)
  <2>1. /\ Go(t, "forward", "resolve") /\ eth_packet' = [of |-> t, ip |-> client[t]]
        /\ UNCHANGED <<reading, eth_tx_lock, client, mac, spoilt>>
    BY <1>6 DEF Build, arpvars
  <2>2. pc[t] = "forward" /\ pc'[t] = "resolve"
    BY <1>0, <2>1 DEF Go
  <2>3. OnItsWay(t)' /\ Buffers(t)' /\ Inside(t)' = Inside(t) /\ Inside(t)
    BY <1>0, <2>1, <2>2 DEF OnItsWay, Buffers, Inside
  <2>4. QED
    BY <2>1, <2>3, WithinKeeps
<1>7. CASE LookUp(t) \/ Poll(t)
  <2>1. PICK from \in {"resolve", "wait"}, to \in {"copy", "wait", "unlock"} :
          Go(t, from, to) /\ (to = "copy" => Found(client[t]))
    BY <1>7 DEF LookUp, Poll
  <2>2. Search(t, client[t]) /\ UNCHANGED <<eth_tx_lock, client, eth_packet, mac, spoilt>>
    BY <1>7 DEF LookUp, Poll
  <2>3. pc[t] = from /\ pc'[t] = to
    BY <1>0, <2>1 DEF Go
  <2>4. \A u \in Readers \ {t} : reading'[u] = reading[u]
    BY <1>0, <2>2 DEF Search
  <2>5. to = "copy" => reading'[t].row # NoRow /\ reading'[t].ip = client[t]
    <3>1. CASE to = "copy"
      <4> DEFINE row == FirstRow(Collected, client[t])
      <4>1. row # NoRow /\ reading' = [reading EXCEPT ![t] = [row |-> row, ip |-> client[t]]]
        BY <2>1, <2>2, <3>1 DEF Search, Found
      <4> HIDE DEF row
      <4>2. QED
        BY <1>0, <4>1
    <3>2. QED
      BY <3>1
  <2>6. OnItsWay(t)' /\ (~spoilt => Buffers(t)') /\ Inside(t)' = Inside(t) /\ Inside(t)
    BY <1>0, <2>2, <2>3, <2>5 DEF OnItsWay, Buffers, Inside
  <2>7. QED
    BY <2>1, <2>2, <2>4, <2>6, WithinKeeps
<1>8. CASE CopyMac(t)
  <2>1. /\ Go(t, "copy", "send") /\ mac' = arp_cache[reading[t].row].mac
        /\ spoilt' = (spoilt \/ reading[t].row \in disputed)
        /\ UNCHANGED <<eth_tx_lock, client, eth_packet>>
        /\ \A u \in Readers \ {t} : reading'[u] = reading[u]
    BY <1>0, <1>8 DEF CopyMac, Release
  <2>2. pc[t] = "copy" /\ pc'[t] = "send"
    BY <1>0, <2>1 DEF Go
  <2>3. ~spoilt' => mac' = client[t]
    BY <1>0, <2>1, <2>2 DEF OnItsWay, Inv, ArpInv, ReadsRight
  <2>4. ~spoilt' => ~spoilt /\ Buffers(t)'
    BY <1>0, <2>1, <2>2, <2>3 DEF Buffers
  <2>5. OnItsWay(t)' /\ Inside(t)' = Inside(t) /\ Inside(t)
    BY <1>0, <2>1, <2>2 DEF OnItsWay, Inside
  <2>6. QED
    BY <2>1, <2>4, <2>5, WithinKeeps
<1>9. QED
  BY <1>1, <1>2, <1>3, <1>4, <1>5, <1>6, <1>7, <1>8 DEF Receive, Forward

(* A step of the cache's writers alone leaves the tasks where they are. *)
LEMMA AsideKeeps ==
  ASSUME DlInv, UNCHANGED <<reading, eth_tx_lock, pc, client, eth_packet, mac, spoilt>>
  PROVE  DlInv'
BY DEF DlInv, OnItsWay, OneInside, Buffers, LockHeld, Inside

LEMMA DownlinkStep ==
  ASSUME Inv, [Next]_vars
  PROVE  Inv'
<1>1. TypeOK'
  BY DownlinkTypesStep
<1>2. ArpInv'
  BY CacheStep, ArpStep DEF Inv, TypeOK
<1>3. CASE \E t \in Readers : Receive(t)
  BY <1>1, <1>2, <1>3, ReceiveKeeps DEF Inv
<1>4. CASE EthEvent
  BY <1>1, <1>2, <1>4, AsideKeeps DEF Inv, EthEvent, arpvars
<1>5. CASE (Learn \/ Age) /\ UNCHANGED dlvars
  <2>1. UNCHANGED <<reading, eth_tx_lock, pc, client, eth_packet, mac, spoilt>>
    BY <1>5 DEF Learn, Age, Choose, WriteMac, Finish, dlvars
  <2>2. QED
    BY <1>1, <1>2, <2>1, AsideKeeps DEF Inv
<1>6. CASE UNCHANGED vars
  BY <1>1, <1>2, <1>6, AsideKeeps DEF Inv, vars, arpvars, dlvars
<1>7. QED
  BY <1>3, <1>4, <1>5, <1>6 DEF Next

-------------------------------------------------------------------------------

(* The downlink uses the ARP cache only as ArpCache says, so the theorems about
   the cache hold while the tasks forward packets (hdr_arp.cpp:85-148). *)
THEOREM DownlinkUsesCache == Spec => ArpSpec
<1>1. Inv /\ [Next]_vars => Inv' /\ [ArpNext]_arpvars
  BY DownlinkStep, CacheStep
<1>2. Init => ArpInit
  BY DEF Init
<1>3. QED
  BY <1>1, <1>2, DownlinkInitInv, PTL DEF Spec, ArpSpec

(* The tasks' places and the buffers keep their types, for any number of tasks
   (gw_uart.cpp:520-540, gw_eth.cpp:152-237). *)
THEOREM DownlinkTypes == Spec => []TypeOK
<1>1. Inv /\ [Next]_vars => Inv'
  BY DownlinkStep
<1>2. Inv => TypeOK
  BY DEF Inv
<1>3. QED
  BY <1>1, <1>2, DownlinkInitInv, PTL DEF Spec

(* A frame sent after its host was found carries the task's own packet and its
   host's MAC address, unless two tasks passed the lock together or the row was
   disputed (gw_eth.cpp:213-233, hdr_arp.cpp:96-100, 143-147). *)
THEOREM FramesAreRight == Spec => []RightFrame
<1>1. Inv /\ [Next]_vars => Inv'
  BY DownlinkStep
<1>2. Inv => RightFrame
  BY DEF Inv, DlInv, Buffers, RightFrame
<1>3. QED
  BY <1>1, <1>2, DownlinkInitInv, PTL DEF Spec

(* eth_tx_lock is set only while some task is between setting and clearing it,
   and is set while a task that entered alone is (gw_uart.cpp:532-535). *)
THEOREM LockIsHeld == Spec => []LockHeld
<1>1. Inv /\ [Next]_vars => Inv'
  BY DownlinkStep
<1>2. Inv => LockHeld
  BY DEF Inv, DlInv
<1>3. QED
  BY <1>1, <1>2, DownlinkInitInv, PTL DEF Spec
===============================================================================
