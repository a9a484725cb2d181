--------------------------- MODULE NrfGatewayProofs ---------------------------
(***************************************************************************)
(* The address an nRF9160 unit writes into packets, for any number of      *)
(* addresses, faults, notifications under way and packets queued.          *)
(***************************************************************************)
EXTENDS NrfGateway, SequenceTheorems, TLAPS

-------------------------------------------------------------------------------
(* The connection *)

Holding == pc \in {"store", "run"}

\* What was read as the address is the address, or the gate is or will be
\* closed, or it was lost unseen; and it is not written anywhere before the loop
\* runs for good.
LinkInv == /\ my_addr # NoAddress => pc = "run"
           /\ pc = "run" => my_addr = ip_read
           /\ Holding => /\ ip_read \in Addresses
                         /\ ip_read = modem.ip \/ DetachNoted \/ detach \/ faults.unseen

FaultsType == [count : 0 .. MaxFaults, lasting : BOOLEAN, unseen : BOOLEAN]

LEMMA RecordTypes ==
  /\ [done |-> FALSE, status |-> 0, pending |-> FALSE]
       \in [done : BOOLEAN, status : {0, 1}, pending : BOOLEAN]
  /\ [cfun |-> 0, ip |-> NoAddress]
       \in [cfun : {0, 1}, ip : Addresses \cup {NoAddress}]
  OBVIOUS

LEMMA LinkTypeInit == LinkInit => LinkTypeOK
<1> SUFFICES ASSUME LinkInit PROVE LinkTypeOK
  OBVIOUS
<1>1. /\ query \in [done : BOOLEAN, status : {0, 1}, pending : BOOLEAN]
      /\ modem \in [cfun : {0, 1}, ip : Addresses \cup {NoAddress}]
  BY RecordTypes DEF LinkInit
<1>2. faults \in FaultsType /\ notes \in Seq({"act", "detach", "other"})
  BY LinkAssumption DEF LinkInit, FaultsType
<1>3. QED
  BY <1>1, <1>2 DEF LinkInit, LinkTypeOK, FaultsType

LEMMA FaultType ==
  ASSUME LinkTypeOK, NEW kind, Fault(kind)
  PROVE  faults' \in FaultsType
  BY LinkAssumption DEF LinkTypeOK, Fault, FaultsType

LEMMA LinkTypeStep == LinkTypeOK /\ LinkNext => LinkTypeOK'
<1> SUFFICES ASSUME LinkTypeOK, LinkNext PROVE LinkTypeOK'
  OBVIOUS
<1> USE DEF FaultsType
<1> DEFINE QueryType == [done : BOOLEAN, status : {0, 1}, pending : BOOLEAN]
           ModemType == [cfun : {0, 1}, ip : Addresses \cup {NoAddress}]
<1>0. /\ query \in QueryType /\ modem \in ModemType
      /\ Ask => query' \in QueryType
  BY DEF LinkTypeOK, Ask
<1>1. CASE Start
  BY <1>0, <1>1 DEF Start, LinkTypeOK
<1>2. CASE FirstRead
  BY <1>2, FaultType DEF FirstRead, LinkTypeOK, flags
<1>3. CASE Connect
  BY <1>0, <1>3, FaultType DEF Connect, LinkTypeOK, flags
<1>4. CASE ModeRead
  BY <1>4 DEF ModeRead, LinkTypeOK, flags
<1>5. CASE Disconnect
  <2>1. notes' \in Seq({"act", "detach", "other"})
    <3>1. notes \in Seq({"act", "detach", "other"})
      BY DEF LinkTypeOK
    <3>2. Append(notes, "detach") \in Seq({"act", "detach", "other"})
      BY <3>1
    <3>3. QED
      BY <1>5, <3>1, <3>2 DEF Disconnect, PowerOff
  <2>2. modem' \in ModemType
    BY <1>0, <1>5, RecordTypes DEF Disconnect, PowerOff
  <2>3. faults' \in FaultsType
    BY <1>5, FaultType DEF Disconnect, LinkTypeOK
  <2>4. /\ pc' \in {"power", "detaching"} /\ UNCHANGED <<round, ip_read, act, query>>
        /\ my_addr' = my_addr \/ my_addr' = NoAddress
        /\ detach' = detach \/ detach' = FALSE
    BY <1>5 DEF Disconnect
  <2>5. QED
    BY <2>1, <2>2, <2>3, <2>4 DEF LinkTypeOK
<1>6. CASE Detached \/ DetachTimeout
  BY <1>6, FaultType DEF Detached, DetachTimeout, LinkTypeOK, flags
<1>7. CASE PowerOn \/ Attached \/ AttachTimeout
  BY <1>7, FaultType DEF PowerOn, Attached, AttachTimeout, LinkTypeOK, flags
<1>8. CASE Loop \/ LoopRead \/ Subscribe
  BY <1>0, <1>8, FaultType DEF Loop, LoopRead, Subscribe, LinkTypeOK, flags
<1>9. CASE ReadAddress \/ StoreAddress
  <2>1. modem.ip \in Addresses \cup {NoAddress}
    BY <1>0
  <2>2. faults \in FaultsType /\ [faults EXCEPT !.unseen = FALSE] \in FaultsType
    BY DEF LinkTypeOK
  <2>3. faults' \in FaultsType
    BY <1>9, <2>2 DEF ReadAddress, StoreAddress
  <2>4. QED
    BY <1>9, <2>1, <2>3 DEF ReadAddress, StoreAddress, LinkTypeOK, flags
<1>10. CASE Reboot
  <2>1. query' \in QueryType /\ modem' \in ModemType
    BY <1>10, RecordTypes DEF Reboot
  <2>2. faults' \in FaultsType /\ notes' \in Seq({"act", "detach", "other"})
    BY <1>10 DEF Reboot, LinkTypeOK
  <2>3. QED
    BY <1>10, <2>1, <2>2 DEF Reboot, LinkTypeOK
<1>11. CASE Answer
  <2>1. modem.cfun \in {0, 1}
    BY <1>0
  <2>2. query' \in QueryType
    BY <1>11, <2>1 DEF Answer
  <2>3. QED
    BY <1>11, <2>2 DEF Answer, LinkTypeOK, flags
<1>12. CASE Attach \/ Drop \/ OtherDrop
  <2>1. notes \in Seq({"act", "detach", "other"})
    BY DEF LinkTypeOK
  <2>2. \A note \in {"act", "detach", "other"} :
          Append(notes, note) \in Seq({"act", "detach", "other"})
    BY <2>1
  <2>3. modem' \in ModemType
    <3>1. CASE Attach
      BY <1>0, <3>1 DEF Attach
    <3>2. CASE Drop \/ OtherDrop
      BY <1>0, <3>2 DEF Drop, OtherDrop, Lost
    <3>3. QED
      BY <1>12, <3>1, <3>2
  <2>4. notes' \in Seq({"act", "detach", "other"})
    BY <1>12, <2>2 DEF Attach, Drop, OtherDrop, Lost
  <2>5. faults' \in FaultsType
    BY <1>12, FaultType DEF Attach, Drop, OtherDrop, Lost, LinkTypeOK
  <2>6. UNCHANGED <<pc, round, ip_read, act, detach, my_addr, query>>
    BY <1>12 DEF Attach, Drop, OtherDrop, Lost, flags
  <2>7. QED
    BY <2>3, <2>4, <2>5, <2>6 DEF LinkTypeOK
<1>13. CASE Notify
  <2>1. notes \in Seq({"act", "detach", "other"}) /\ notes # <<>>
    BY <1>13 DEF Notify, NotifyAct, NotifyDetach, NotifyOther, LinkTypeOK
  <2>2. Tail(notes) \in Seq({"act", "detach", "other"})
    BY <2>1
  <2>3. notes' \in Seq({"act", "detach", "other"})
    BY <1>13, <2>2 DEF Notify, NotifyAct, NotifyDetach, NotifyOther
  <2>4. QED
    BY <1>13, <2>3 DEF Notify, NotifyAct, NotifyDetach, NotifyOther, LinkTypeOK, flags
<1>14. QED
  BY <1>1, <1>2, <1>3, <1>4, <1>5, <1>6, <1>7, <1>8, <1>9, <1>10, <1>11, <1>12,
     <1>13 DEF LinkNext, LinkStep, MainLoop

\* The types of the connection for any addresses, faults and bounds.
THEOREM LinkTypes == LinkSpec => []LinkTypeOK
<1>1. LinkTypeOK /\ UNCHANGED linkvars => LinkTypeOK'
  BY DEF linkvars, LinkTypeOK
<1>2. QED
  BY <1>1, LinkTypeInit, LinkTypeStep, PTL DEF LinkSpec

LEMMA LinkInvInit == LinkInit => LinkInv
  BY DEF LinkInit, LinkInv, Holding

\* Notifications are told in order and none is lost on the way.
LEMMA NoteKept ==
  ASSUME LinkTypeOK, DetachNoted, NEW note,
         notes' = notes \/ notes' = Append(notes, note)
  PROVE  DetachNoted'
<1>1. notes \in Seq({"act", "detach", "other"})
  BY DEF LinkTypeOK
<1>2. PICK i \in DOMAIN notes : notes[i] = "detach"
  BY DEF DetachNoted
<1>3. i \in DOMAIN notes' /\ notes'[i] = "detach"
  BY <1>1, <1>2
<1>4. QED
  BY <1>3 DEF DetachNoted

LEMMA NoteTold ==
  ASSUME LinkTypeOK, DetachNoted, Head(notes) # "detach", notes' = Tail(notes)
  PROVE  DetachNoted'
<1>1. notes \in Seq({"act", "detach", "other"})
  BY DEF LinkTypeOK
<1>2. PICK i \in 1 .. Len(notes) : notes[i] = "detach"
  BY <1>1 DEF DetachNoted
<1>3. notes # <<>> /\ i # 1 /\ Len(notes) \in Nat
  BY <1>1, <1>2
<1>4. i - 1 \in 1 .. Len(Tail(notes)) /\ Tail(notes)[i - 1] = notes[i]
  BY <1>1, <1>2, <1>3
<1>5. Tail(notes) \in Seq({"act", "detach", "other"})
  BY <1>1, <1>3
<1>6. i - 1 \in DOMAIN notes' /\ notes'[i - 1] = "detach"
  BY <1>2, <1>4, <1>5
<1>7. QED
  BY <1>6 DEF DetachNoted

LEMMA NoteAdded ==
  ASSUME LinkTypeOK, notes' = Append(notes, "detach")
  PROVE  DetachNoted'
<1>1. notes \in Seq({"act", "detach", "other"})
  BY DEF LinkTypeOK
<1>2. /\ Len(notes) + 1 \in DOMAIN Append(notes, "detach")
      /\ Append(notes, "detach")[Len(notes) + 1] = "detach"
  BY <1>1
<1>3. QED
  BY <1>2 DEF DetachNoted

LEMMA LinkInvStep == LinkTypeOK /\ LinkInv /\ LinkNext => LinkInv'
<1> SUFFICES ASSUME LinkTypeOK, LinkInv, LinkNext PROVE LinkInv'
  OBVIOUS
<1>a. /\ my_addr # NoAddress => pc = "run"
      /\ pc = "run" => my_addr = ip_read
      /\ Holding => /\ ip_read \in Addresses
                    /\ ip_read = modem.ip \/ DetachNoted \/ detach \/ faults.unseen
  BY DEF LinkInv
<1>1. CASE \/ Start \/ FirstRead \/ Connect \/ ModeRead \/ Disconnect
           \/ Detached \/ DetachTimeout \/ PowerOn \/ Attached \/ AttachTimeout
           \/ Loop \/ LoopRead \/ Subscribe \/ Reboot
  <2>1. pc \notin {"store", "run"} /\ pc' \notin {"store", "run"}
    BY <1>1 DEF Start, FirstRead, Connect, ModeRead, Disconnect, Detached,
                DetachTimeout, PowerOn, Attached, AttachTimeout, Loop, LoopRead,
                Subscribe, Reboot
  <2>2. my_addr' = my_addr \/ my_addr' = NoAddress
    BY <1>1 DEF Start, FirstRead, Connect, ModeRead, Disconnect, Detached,
                DetachTimeout, PowerOn, Attached, AttachTimeout, Loop, LoopRead,
                Subscribe, Reboot, flags
  <2>3. QED
    BY <1>a, <2>1, <2>2 DEF LinkInv, Holding
<1>2. CASE ReadAddress
  <2>1. /\ pc' = "store" /\ pc = "address" /\ my_addr' = my_addr
        /\ ip_read' = modem.ip /\ modem' = modem /\ modem.ip # NoAddress
    BY <1>2 DEF ReadAddress, flags
  <2>2. modem.ip \in Addresses
    BY <2>1 DEF LinkTypeOK
  <2>3. QED
    BY <1>a, <2>1, <2>2 DEF LinkInv, Holding
<1>3. CASE StoreAddress
  BY <1>3, <1>a DEF StoreAddress, LinkInv, Holding, DetachNoted
<1>4. CASE Answer
  BY <1>4, <1>a DEF Answer, LinkInv, Holding, DetachNoted, flags
<1>5. CASE Attach
  <2>1. /\ UNCHANGED <<pc, ip_read, detach, my_addr, faults>> /\ modem.ip = NoAddress
        /\ notes' = Append(notes, "act")
    BY <1>5 DEF Attach, flags
  <2>2. Holding => DetachNoted \/ detach \/ faults.unseen
    BY <1>a, <2>1, LinkAssumption
  <2>3. DetachNoted => DetachNoted'
    BY <2>1, NoteKept
  <2>4. QED
    BY <1>a, <2>1, <2>2, <2>3 DEF LinkInv, Holding
<1>6. CASE Drop
  <2>1. /\ UNCHANGED <<pc, ip_read, detach, my_addr>>
        /\ notes' = Append(notes, "detach")
    BY <1>6 DEF Drop, Lost, flags
  <2>2. DetachNoted'
    BY <2>1, NoteAdded
  <2>3. QED
    BY <1>a, <2>1, <2>2 DEF LinkInv, Holding
<1>7. CASE OtherDrop
  <2>1. UNCHANGED <<pc, ip_read, detach, my_addr>> /\ faults'.unseen
    BY <1>7 DEF OtherDrop, Lost, Fault, flags
  <2>2. QED
    BY <1>a, <2>1 DEF LinkInv, Holding
<1>8. CASE NotifyAct \/ NotifyOther
  <2>1. /\ UNCHANGED <<pc, ip_read, detach, my_addr, modem, faults>>
        /\ Head(notes) # "detach" /\ notes' = Tail(notes)
    BY <1>8 DEF NotifyAct, NotifyOther, flags
  <2>2. DetachNoted => DetachNoted'
    BY <2>1, NoteTold
  <2>3. QED
    BY <1>a, <2>1, <2>2 DEF LinkInv, Holding
<1>9. CASE NotifyDetach
  BY <1>9, <1>a DEF NotifyDetach, LinkInv, Holding
<1>10. QED
  BY <1>1, <1>2, <1>3, <1>4, <1>5, <1>6, <1>7, <1>8, <1>9
     DEF LinkNext, LinkStep, MainLoop, Notify

\* While the gate is open the address written into packets is the unit's, or the
\* news that it was lost is under way, or was told since the address was read
\* with a notification the unit does not listen for (nrf91_lte.c:92-101, 347).
THEOREM AddressIsCurrent == LinkSpec => []OpenIsCurrent
<1>1. LinkInv /\ UNCHANGED linkvars => LinkInv'
  BY DEF linkvars, LinkInv, Holding, DetachNoted
<1>2. LinkInv => OpenIsCurrent
  BY DEF LinkInv, Holding, DetachNoted, Open, OpenIsCurrent
<1>3. QED
  BY <1>1, <1>2, LinkTypes, LinkInvInit, LinkInvStep, PTL DEF LinkSpec

-------------------------------------------------------------------------------
(* The gateway *)

OutType == [src : Addresses \cup {NoAddress}, ip : Addresses \cup {NoAddress},
            behind : BOOLEAN, unseen : BOOLEAN]

GatewayTypes ==
  /\ status_low \in BOOLEAN /\ irq \in BOOLEAN /\ raw_socket \in BOOLEAN
  /\ rx \in {"closed", "open", "poll"}
  /\ tx \in {"uart", "lte"}
  /\ uart_pkt_msgq \in 0 .. QueueSize
  /\ lte_msgq \in Seq(Addresses) /\ Len(lte_msgq) <= QueueSize
  /\ out \in OutType
  /\ errors \in 0 .. MaxErrors

LEMMA RestartTypes ==
  ASSUME Restart, GatewayTypes
  PROVE  GatewayTypes'
<1>1. NothingSent \in OutType
  BY DEF NothingSent, OutType
<1>2. 0 \in 0 .. QueueSize /\ Len(<<>>) <= QueueSize /\ <<>> \in Seq(Addresses)
  BY GatewayAssumption
<1>3. QED
  BY <1>1, <1>2 DEF Restart, GatewayTypes

LEMMA OwnStepTypes ==
  ASSUME LinkTypeOK, GatewayTypes, UartPacket \/ RxThread \/ TxThread
  PROVE  GatewayTypes'
<1>1. /\ lte_msgq \in Seq(Addresses) /\ Len(lte_msgq) <= QueueSize
      /\ uart_pkt_msgq \in 0 .. QueueSize
      /\ errors \in 0 .. MaxErrors
      /\ QueueSize \in Nat \ {0} /\ MaxErrors \in Nat
  BY GatewayAssumption DEF GatewayTypes
<1>2. CASE UartPacket
  <2>1. my_addr \in Addresses
    BY <1>2 DEF UartPacket, Open, LinkTypeOK
  <2>2. lte_msgq' \in Seq(Addresses) /\ Len(lte_msgq') <= QueueSize
    BY <1>1, <1>2, <2>1 DEF UartPacket
  <2>3. QED
    BY <1>2, <2>2 DEF UartPacket, GatewayTypes
<1>3. CASE Closed
  <2>1. Open \in BOOLEAN
    BY DEF Open, LinkTypeOK
  <2>2. QED
    BY <1>3, <2>1 DEF Closed, GatewayTypes
<1>4. CASE OpenSocket \/ PollError
  <2>1. errors' \in 0 .. MaxErrors
    BY <1>1, <1>4 DEF OpenSocket, PollError, SocketError
  <2>2. QED
    BY <1>4, <2>1 DEF OpenSocket, PollError, Leave, GatewayTypes
<1>5. CASE PollClosed
  BY <1>5 DEF PollClosed, Leave, GatewayTypes
<1>6. CASE Receive \/ SendUart
  <2>1. uart_pkt_msgq' \in 0 .. QueueSize
    BY <1>1, <1>6 DEF Receive, SendUart
  <2>2. QED
    BY <1>6, <2>1 DEF Receive, SendUart, GatewayTypes
<1>7. CASE SendLte
  <2>1. lte_msgq # <<>>
    BY <1>7 DEF SendLte
  <2>2. /\ Tail(lte_msgq) \in Seq(Addresses) /\ Len(Tail(lte_msgq)) <= QueueSize
        /\ Head(lte_msgq) \in Addresses
    BY <1>1, <2>1
  <2>3. modem.ip \in Addresses \cup {NoAddress}
    BY DEF LinkTypeOK
  <2>4. out' \in OutType
    <3>1. DetachNoted \in BOOLEAN /\ faults.unseen \in BOOLEAN
      BY DEF DetachNoted, LinkTypeOK
    <3>2. QED
      BY <1>7, <2>2, <2>3, <3>1 DEF SendLte, GatewayTypes, OutType
  <2>5. QED
    BY <1>7, <2>2, <2>4 DEF SendLte, GatewayTypes
<1>8. CASE LteEmpty
  BY <1>8 DEF LteEmpty, GatewayTypes
<1>9. QED
  BY <1>2, <1>3, <1>4, <1>5, <1>6, <1>7, <1>8 DEF RxThread, TxThread

LEMMA OwnStepLeavesLink ==
  UartPacket \/ RxThread \/ TxThread => UNCHANGED linkvars
  BY DEF UartPacket, RxThread, TxThread, Closed, OpenSocket, PollClosed,
         PollError, Receive, SendUart, SendLte, LteEmpty

\* A step of the system is a step of the connection or leaves it alone.
LEMMA LinkPart == [Next]_vars => [LinkNext]_linkvars
  BY OwnStepLeavesLink DEF Next, vars, LinkNext, Restart

LEMMA TypeStep == TypeOK /\ [Next]_vars => TypeOK'
<1> SUFFICES ASSUME TypeOK, [Next]_vars PROVE TypeOK'
  OBVIOUS
<1>1. LinkTypeOK /\ GatewayTypes
  BY DEF TypeOK, GatewayTypes, OutType
<1>2. LinkTypeOK'
  BY <1>1, LinkPart, LinkTypeStep DEF linkvars, LinkTypeOK
<1>3. GatewayTypes'
  <2>1. CASE UNCHANGED gwvars
    BY <1>1, <2>1 DEF gwvars, GatewayTypes
  <2>2. QED
    BY <1>1, <2>1, RestartTypes, OwnStepTypes DEF Next, vars
<1>4. QED
  BY <1>2, <1>3 DEF TypeOK, GatewayTypes, OutType

\* Type correctness of the unit for any sizes and bounds.
THEOREM Types == Spec => []TypeOK
<1>1. Init => TypeOK
  <2> SUFFICES ASSUME Init PROVE TypeOK
    OBVIOUS
  <2>1. LinkTypeOK
    BY LinkTypeInit DEF Init
  <2>2. NothingSent \in OutType
    BY DEF NothingSent, OutType
  <2>3. /\ 0 \in 0 .. QueueSize /\ 0 \in 0 .. MaxErrors
        /\ Len(<<>>) <= QueueSize /\ <<>> \in Seq(Addresses)
    BY GatewayAssumption
  <2>4. QED
    BY <2>1, <2>2, <2>3 DEF Init, TypeOK, OutType
<1>2. QED
  BY <1>1, TypeStep, PTL DEF Spec

\* What the gateway's threads rely on: packets are queued, the socket is in use
\* and the interrupt is off only once the connection loop runs for good.
Queued == lte_msgq # <<>> => /\ pc = "run"
                             /\ \A i \in DOMAIN lte_msgq : lte_msgq[i] = my_addr

InUse == rx # "closed" => pc = "run" /\ act

Deaf == ~irq /\ errors = 0 => pc = "run" /\ detach

GwInv == Queued /\ InUse /\ Deaf /\ SourceIsMine

LEMMA GwInvInit == Init => GwInv
  BY DEF Init, GwInv, Queued, InUse, Deaf, SourceIsMine, NothingSent

\* Once it runs for good the loop changes nothing; flags are only raised.
LEMMA RunStays ==
  ASSUME pc = "run", LinkStep
  PROVE  pc' = "run" /\ my_addr' = my_addr /\ (act => act') /\ (detach => detach')
<1>1. ~MainLoop
  BY DEF MainLoop, Start, FirstRead, Connect, ModeRead, Disconnect, Detached,
         DetachTimeout, PowerOn, Attached, AttachTimeout, Loop, LoopRead,
         Subscribe, ReadAddress, StoreAddress
<1>2. QED
  BY <1>1 DEF LinkStep, Answer, Attach, Drop, OtherDrop, Lost, Notify, NotifyAct,
              NotifyDetach, NotifyOther, flags

LEMMA GwInvStep == TypeOK /\ LinkInv /\ GwInv /\ [Next]_vars => GwInv'
<1> SUFFICES ASSUME TypeOK, LinkInv, GwInv, [Next]_vars PROVE GwInv'
  OBVIOUS
<1>a. Queued /\ InUse /\ Deaf /\ SourceIsMine
  BY DEF GwInv
<1>b. /\ lte_msgq \in Seq(Addresses) /\ errors \in Nat
      /\ irq \in BOOLEAN /\ act \in BOOLEAN /\ detach \in BOOLEAN
  BY DEF TypeOK, LinkTypeOK
<1>c. pc = "run" => my_addr # NoAddress
  BY LinkAssumption DEF LinkInv, Holding
<1>1. CASE UNCHANGED gwvars /\ LinkStep
  <2>1. UNCHANGED <<irq, rx, lte_msgq, out, errors>>
    BY <1>1 DEF gwvars
  <2>2. Queued' /\ InUse' /\ Deaf'
    BY <1>1, <1>a, <2>1, RunStays DEF Queued, InUse, Deaf
  <2>3. QED
    BY <1>a, <2>1, <2>2 DEF GwInv, SourceIsMine
<1>2. CASE Restart
  BY <1>2 DEF Restart, GwInv, Queued, InUse, Deaf, SourceIsMine, NothingSent
<1>3. CASE UartPacket
  <2>1. pc = "run"
    BY <1>3 DEF UartPacket, Open, LinkInv
  <2>2. \A i \in DOMAIN lte_msgq : lte_msgq[i] = my_addr
    BY <1>a, <1>b DEF Queued
  <2>3. /\ lte_msgq' = Append(lte_msgq, my_addr)
        /\ UNCHANGED <<pc, act, detach, my_addr, irq, rx, out, errors>>
    BY <1>3 DEF UartPacket, linkvars
  <2>4. \A i \in DOMAIN lte_msgq' : lte_msgq'[i] = my_addr
    BY <1>b, <2>2, <2>3
  <2>5. QED
    BY <1>a, <2>1, <2>3, <2>4 DEF GwInv, Queued, InUse, Deaf, SourceIsMine
<1>4. CASE RxThread
  <2>1. UNCHANGED <<lte_msgq, out, pc, act, detach, my_addr>>
    BY <1>4 DEF RxThread, Closed, OpenSocket, PollClosed, PollError, Receive, linkvars
  <2>2. InUse'
    <3>1. Open => pc = "run" /\ act
      BY DEF Open, LinkInv
    <3>2. rx' # "closed" => rx # "closed" \/ Open
      BY <1>4 DEF RxThread, Closed, OpenSocket, PollClosed, PollError, Receive, Leave
    <3>3. QED
      BY <1>a, <2>1, <3>1, <3>2 DEF InUse
  <2>3. Deaf'
    <3>1. CASE PollClosed
      BY <1>a, <1>b, <1>c, <2>1, <3>1 DEF PollClosed, InUse, Open, Deaf
    <3>2. CASE PollError
      BY <1>b, <3>2 DEF PollError, SocketError, Deaf
    <3>3. CASE Closed \/ OpenSocket \/ Receive
      BY <1>a, <1>b, <2>1, <3>3 DEF Closed, OpenSocket, SocketError, Receive, Deaf
    <3>4. QED
      BY <1>4, <3>1, <3>2, <3>3 DEF RxThread
  <2>4. QED
    BY <1>a, <2>1, <2>2, <2>3 DEF GwInv, Queued, SourceIsMine
<1>5. CASE SendUart \/ LteEmpty
  BY <1>5, <1>a DEF SendUart, LteEmpty, linkvars, GwInv, Queued, InUse, Deaf,
                    SourceIsMine
<1>6. CASE SendLte
  <2>1. /\ lte_msgq # <<>> /\ lte_msgq' = Tail(lte_msgq)
        /\ UNCHANGED <<pc, act, detach, my_addr, irq, rx, errors>>
    BY <1>6 DEF SendLte, linkvars
  <2>2. /\ pc = "run"
        /\ \A i \in DOMAIN lte_msgq : lte_msgq[i] = my_addr
    BY <1>a, <2>1 DEF Queued
  <2>3. \A i \in DOMAIN lte_msgq' : lte_msgq'[i] = my_addr
    <3>1. \A i \in 1 .. Len(lte_msgq) - 1 : lte_msgq[i + 1] = my_addr
      BY <1>b, <2>1, <2>2
    <3>2. /\ lte_msgq' \in Seq(Addresses) /\ Len(lte_msgq') = Len(lte_msgq) - 1
          /\ \A i \in 1 .. Len(lte_msgq') : lte_msgq'[i] = lte_msgq[i + 1]
      BY <1>b, <2>1, HeadTailProperties
    <3>3. QED
      BY <3>1, <3>2
  <2>4. Queued' /\ InUse' /\ Deaf'
    BY <1>a, <2>1, <2>2, <2>3 DEF Queued, InUse, Deaf
  <2>5. SourceIsMine'
    <3>1. CASE MaySend
      <4>1. /\ out'.src = Head(lte_msgq) /\ out'.ip = modem.ip
            /\ out'.behind = DetachNoted /\ out'.unseen = faults.unseen
        BY <1>6, <3>1 DEF SendLte
      <4>2. Head(lte_msgq) = my_addr
        BY <1>b, <2>1, <2>2
      <4>3. my_addr = modem.ip \/ DetachNoted \/ faults.unseen
        BY <2>2, <3>1 DEF MaySend, LinkInv, Holding
      <4>4. QED
        BY <4>1, <4>2, <4>3 DEF SourceIsMine
    <3>2. CASE ~MaySend
      BY <1>6, <1>a, <3>2 DEF SendLte, SourceIsMine
    <3>3. QED
      BY <3>1, <3>2
  <2>6. QED
    BY <2>4, <2>5 DEF GwInv
<1>7. CASE UNCHANGED vars
  BY <1>7, <1>a DEF vars, linkvars, gwvars, GwInv, Queued, InUse, Deaf, SourceIsMine
<1>8. QED
  BY <1>1, <1>2, <1>3, <1>4, <1>5, <1>6, <1>7 DEF Next, TxThread

LEMMA Invariant == Spec => [](LinkInv /\ GwInv)
<1>1. Init => LinkInv /\ GwInv
  BY LinkInvInit, GwInvInit DEF Init
<1>2. TypeOK /\ LinkInv /\ [Next]_vars => LinkInv'
  BY LinkPart, LinkInvStep DEF TypeOK, linkvars, LinkInv, Holding, DetachNoted
<1>3. QED
  BY <1>1, <1>2, Types, GwInvStep, PTL DEF Spec

\* Whatever connections come and go, a packet that leaves has the address the
\* unit has then, unless the news of the loss is under way or was one that the
\* unit does not listen for (gateway.c:225, 91, 106, nrf91_lte.c:92-101).
THEOREM SourceStays == Spec => []SourceIsMine
<1>1. GwInv => SourceIsMine
  BY DEF GwInv
<1>2. QED
  BY <1>1, Invariant, PTL

\* Without socket errors a unit that says it can be used hears its UART
\* (gateway.c:286, 357).
THEOREM UartIsHeard == Spec => []Hears
<1>1. GwInv => Hears
  BY DEF GwInv, Deaf, Open, Hears
<1>2. QED
  BY <1>1, Invariant, PTL

-------------------------------------------------------------------------------
(* The connection inside the gateway, and what lasts *)

\* The threads and the interrupt only read what the connection keeps, so all
\* that is proved of the connection holds inside the unit (gateway.c:206, 297, 314).
THEOREM GatewayUsesLink == Spec => LinkSpec
<1>1. Init => LinkInit
  BY DEF Init
<1>2. [Next]_vars => [LinkNext]_linkvars
  BY LinkPart
<1>3. QED
  BY <1>1, <1>2, PTL DEF Spec, LinkSpec

\* While the threads forward packets the gate is open on the unit's address, or
\* the news of its loss is under way or was not listened for (gateway.c:206, 225,
\* 297, nrf91_lte.c:92-101).
THEOREM AddressIsCurrentInUnit == Spec => []OpenIsCurrent
  BY GatewayUsesLink, AddressIsCurrent, PTL

\* A unit that lost its address by a notification it does not listen for keeps it
\* for good: no later connection makes it read the address again, and only a
\* detachment told as ME DETACH closes the gate, so without one it goes on writing
\* that address into packets (nrf91_lte.c:92-101, 347-369, gateway.c:206, 225).
LostUnseen(a) == pc = "run" /\ act /\ my_addr = a /\ faults.unseen

THEOREM LostAddressKept ==
  ASSUME NEW a \in Addresses
  PROVE  Spec => [](LostUnseen(a) => [](LostUnseen(a) /\ (Open <=> ~detach)))
<1>1. TypeOK /\ LostUnseen(a) /\ [Next]_vars => LostUnseen(a)'
  <2> SUFFICES ASSUME TypeOK, LostUnseen(a), [Next]_vars PROVE LostUnseen(a)'
    OBVIOUS
  <2>1. CASE LinkStep
    <3>1. faults'.unseen
      <4>1. ~MainLoop
        BY DEF LostUnseen, MainLoop, Start, FirstRead, Connect, ModeRead, Disconnect,
               Detached, DetachTimeout, PowerOn, Attached, AttachTimeout, Loop,
               LoopRead, Subscribe, ReadAddress, StoreAddress
      <4>2. faults.unseen
        BY DEF LostUnseen
      <4>3. CASE Drop \/ OtherDrop
        <5>1. PICK kind : Fault(kind)
          BY <4>3 DEF Drop, OtherDrop, Lost
        <5>2. QED
          BY <4>2, <5>1 DEF Fault
      <4>4. CASE Answer \/ Attach \/ Notify
        BY <4>2, <4>4 DEF Answer, Attach, Notify, NotifyAct, NotifyDetach, NotifyOther
      <4>5. QED
        BY <2>1, <4>1, <4>3, <4>4 DEF LinkStep
    <3>2. QED
      BY <2>1, <3>1, RunStays DEF LostUnseen
  <2>2. CASE UNCHANGED linkvars
    BY <2>2 DEF LostUnseen, linkvars
  <2>3. ~Restart
    BY DEF Restart, Reboot, LostUnseen
  <2>4. QED
    BY <2>1, <2>2, <2>3, OwnStepLeavesLink DEF Next, vars
<1>2. LostUnseen(a) => (Open <=> ~detach)
  BY LinkAssumption DEF LostUnseen, Open
<1>3. QED
  BY <1>1, <1>2, Types, PTL DEF Spec

\* A detachment told while the loop runs for good closes the gate for ever: the
\* flag is cleared only on the way to a connection, and nothing leads there, not
\* even the modem's attaching again (nrf91_lte.c:97-100, 365-369).
Detachment == pc = "run" /\ detach

THEOREM ClosedForGood == Spec => [](Detachment => []~Open)
<1>1. TypeOK /\ Detachment /\ [Next]_vars => Detachment'
  <2> SUFFICES ASSUME TypeOK, Detachment, [Next]_vars PROVE Detachment'
    OBVIOUS
  <2>1. CASE LinkStep
    BY <2>1, RunStays DEF Detachment
  <2>2. CASE UNCHANGED linkvars
    BY <2>2 DEF Detachment, linkvars, flags
  <2>3. ~Restart
    BY DEF Restart, Reboot, Detachment
  <2>4. QED
    BY <2>1, <2>2, <2>3 DEF Next, vars, UartPacket, RxThread, Closed, OpenSocket,
                        PollClosed, PollError, Receive, TxThread, SendUart,
                        SendLte, LteEmpty
<1>2. Detachment => ~Open
  BY DEF Detachment, Open
<1>3. QED
  BY <1>1, <1>2, Types, PTL DEF Spec

\* A unit whose interrupt is off while the loop runs for good hears its UART
\* never again: no packet is queued for LTE any more, whether or not its gate is
\* open and its line says that it can be used (gateway.c:286, 357).
Unheard == pc = "run" /\ ~irq

THEOREM DeafForGood ==
  Spec => /\ [](Unheard => []Unheard)
          /\ [][Unheard => Len(lte_msgq') <= Len(lte_msgq)]_vars
<1>1. TypeOK /\ Unheard /\ [Next]_vars
        => Unheard' /\ (lte_msgq' = lte_msgq \/ (lte_msgq # <<>> /\ lte_msgq' = Tail(lte_msgq)))
  <2> SUFFICES ASSUME TypeOK, Unheard, [Next]_vars
               PROVE  /\ Unheard'
                      /\ lte_msgq' = lte_msgq \/ (lte_msgq # <<>> /\ lte_msgq' = Tail(lte_msgq))
    OBVIOUS
  <2>1. CASE LinkStep /\ UNCHANGED gwvars
    BY <2>1, RunStays DEF Unheard, gwvars
  <2>2. CASE UNCHANGED vars
    BY <2>2 DEF Unheard, vars, linkvars, gwvars
  <2>3. CASE RxThread
    BY <2>3 DEF RxThread, Closed, OpenSocket, PollClosed, PollError, Receive, Leave,
                Unheard, linkvars
  <2>4. CASE TxThread
    BY <2>4 DEF TxThread, SendUart, SendLte, LteEmpty, Unheard, linkvars
  <2>5. ~Restart /\ ~UartPacket
    BY DEF Restart, Reboot, UartPacket, Unheard
  <2>6. QED
    BY <2>1, <2>2, <2>3, <2>4, <2>5 DEF Next
<1>2. TypeOK /\ Unheard /\ [Next]_vars => Len(lte_msgq') <= Len(lte_msgq)
  <2> SUFFICES ASSUME TypeOK, Unheard, [Next]_vars
               PROVE  Len(lte_msgq') <= Len(lte_msgq)
    OBVIOUS
  <2>1. lte_msgq \in Seq(Addresses)
    BY DEF TypeOK
  <2>2. lte_msgq # <<>> => Len(Tail(lte_msgq)) = Len(lte_msgq) - 1 /\ Len(lte_msgq) \in Nat
    BY <2>1
  <2>3. QED
    BY <1>1, <2>1, <2>2
<1>3. TypeOK /\ [Next]_vars => [Unheard => Len(lte_msgq') <= Len(lte_msgq)]_vars
  BY <1>2
<1>4. QED
  BY <1>1, <1>3, Types, PTL DEF Spec
===============================================================================
