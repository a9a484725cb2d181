------------------------------- MODULE LteLink -------------------------------
(***************************************************************************)
(* How an nRF9160 unit connects to LTE: the connection loop of             *)
(* nrf91_lte.c, the notifications of the modem and the flags they set, and *)
(* at_cfun_read1, whose static is_done is never cleared, so that every     *)
(* call but the first returns after 10 ms with the answer to this call or, *)
(* when the modem is slower, with the answer to the call before.           *)
(*                                                                         *)
(* The modem is external: CFUN=1 makes it attach some time later, it tells *)
(* what happens in the order it happens, and it attaches again by itself   *)
(* after the network dropped it.  It tells such a loss as +CGEV: ME        *)
(* DETACH, which the unit listens for, or as another +CGEV, NW DETACH or   *)
(* ME or NW PDN DEACT, which it does not.  Waiting times are not counted:  *)
(* a wait ends late when what it waits for comes, or earlier as one of the *)
(* faults, or when nothing is left to wait for.                            *)
(***************************************************************************)
EXTENDS Naturals, Sequences

CONSTANTS
  Addresses,      \* IP addresses the network gives to the unit
  NoAddress,      \* 0, no address
  Faults,         \* what may go wrong
  MaxFaults,      \* bound on how often it does
  MaxNotes        \* bound on notifications under way when a new one is sent

ASSUME LinkAssumption ==
  /\ NoAddress \notin Addresses
  /\ Faults \subseteq {"late_act", "late_detach", "late_answer", "refused", "drop",
                "other_drop"}
  /\ MaxFaults \in Nat /\ MaxNotes \in Nat

VARIABLES
  pc,             \* where nrf91_main_loop_lte is
  round,          \* 1 in the first while (!is_cgev_act_on), 2 in the second
  ip_read,        \* the address in strbuf
  act,            \* is_cgev_act_on
  detach,         \* is_cgev_detach_on
  my_addr,
  query,          \* at_cfun_read1: is_done, at_status1, answer outstanding
  modem,          \* the modem's functional mode and address
  notes,          \* notifications not yet handled
  faults          \* how many faults so far, whether one was for good, and
                  \* whether the address last read was lost unseen

linkvars == <<pc, round, ip_read, act, detach, my_addr, query, modem, notes, faults>>
flags == <<act, detach, my_addr>>

LinkInit == /\ pc = "start" /\ round = 1 /\ ip_read = NoAddress
            /\ act = FALSE /\ detach = FALSE /\ my_addr = NoAddress
            /\ query = [done |-> FALSE, status |-> 0, pending |-> FALSE]
            /\ modem = [cfun |-> 0, ip |-> NoAddress]
            /\ notes = <<>>
            /\ faults = [count |-> 0, lasting |-> FALSE, unseen |-> FALSE]

\* After a drop, or a detachment told later than it is waited for, the flag of
\* the detachment stays set.
Fault(kind) ==
  /\ kind \in Faults /\ faults.count < MaxFaults
  /\ faults' = [count   |-> faults.count + 1,
                lasting |-> faults.lasting \/ kind \in {"drop", "late_detach"},
                unseen  |-> faults.unseen \/ kind = "other_drop"]

-------------------------------------------------------------------------------
(* at_cfun_read1 *)

Ask == query' = [query EXCEPT !.pending = TRUE]

Answer == /\ query.pending
          /\ query' = [done |-> TRUE, status |-> modem.cfun, pending |-> FALSE]
          /\ UNCHANGED <<pc, round, ip_read, flags, modem, notes, faults>>

\* The mode read, CFUN 0 or 4: the modem is off.
ReadOff == query.done /\ query.status = 0
ReadOn  == query.done /\ query.status # 0

-------------------------------------------------------------------------------
(* The connection loop *)

Start == /\ pc = "start"
         /\ act' = FALSE /\ detach' = FALSE
         /\ Ask
         /\ pc' = "first"
         /\ UNCHANGED <<round, ip_read, my_addr, modem, notes, faults>>

FirstRead == /\ pc = "first"
             /\ \/ ReadOff /\ pc' = "connect" /\ UNCHANGED faults
                \/ ReadOn /\ pc' = "loop" /\ UNCHANGED faults
                \/ ~query.done /\ Fault("late_answer") /\ pc' = "exit"
             /\ UNCHANGED <<round, ip_read, flags, query, modem, notes>>

\* while (!is_cgev_act_on): leave, or nrf91_lte_connect from its first read.
\* An AT command is refused while the answer to another is outstanding.
Connect == /\ pc = "connect"
           /\ \/ /\ act
                 /\ pc' = IF round = 1 THEN "loop" ELSE "subscribe"
                 /\ UNCHANGED <<query, faults>>
              \/ ~act /\ ~query.pending /\ Ask /\ pc' = "mode" /\ UNCHANGED faults
              \/ /\ ~act /\ query.pending /\ Fault("late_answer")
                 /\ pc' = "exit" /\ UNCHANGED query
           /\ UNCHANGED <<round, ip_read, flags, modem, notes>>

ModeRead == /\ pc = "mode"
            /\ \/ ReadOff /\ pc' = "power"
               \/ ReadOn /\ pc' = "disconnect"
            /\ UNCHANGED <<round, ip_read, flags, query, modem, notes, faults>>

\* The modem stops; it tells if it was attached.
PowerOff == /\ modem' = [cfun |-> 0, ip |-> NoAddress]
            /\ notes' = IF modem.ip = NoAddress THEN notes ELSE Append(notes, "detach")

\* nrf91_lte_disconnect(0).  What it returns is ignored.
Disconnect ==
  /\ pc = "disconnect" /\ ~query.pending
  /\ \/ Fault("refused") /\ pc' = "power" /\ UNCHANGED <<my_addr, detach, modem, notes>>
     \/ /\ my_addr' = NoAddress /\ detach' = FALSE
        /\ \/ Fault("refused") /\ pc' = "power" /\ UNCHANGED <<modem, notes>>
           \/ PowerOff /\ pc' = "detaching" /\ UNCHANGED faults
  /\ UNCHANGED <<round, ip_read, act, query>>

\* Faulty: the flag stays set.
Detached_KeepFlag ==
  /\ pc = "detaching" /\ detach
  /\ pc' = "power"
  /\ UNCHANGED <<round, ip_read, flags, query, modem, notes, faults>>

Detached == /\ pc = "detaching" /\ detach
            /\ detach' = FALSE
            /\ pc' = "power"
            /\ UNCHANGED <<round, ip_read, act, my_addr, query, modem, notes, faults>>

DetachTimeout == /\ pc = "detaching" /\ ~detach
                 /\ \/ notes = <<>> /\ UNCHANGED faults
                    \/ notes # <<>> /\ Fault("late_detach")
                 /\ pc' = "power"
                 /\ UNCHANGED <<round, ip_read, flags, query, modem, notes>>

PowerOn ==
  /\ pc = "power" /\ ~query.pending
  /\ act' = FALSE
  /\ \/ Fault("refused") /\ pc' = "connect" /\ UNCHANGED modem
     \/ modem' = [modem EXCEPT !.cfun = 1] /\ pc' = "attaching" /\ UNCHANGED faults
  /\ UNCHANGED <<round, ip_read, detach, my_addr, query, notes>>

Attached == /\ pc = "attaching" /\ act
            /\ pc' = "connect"
            /\ UNCHANGED <<round, ip_read, flags, query, modem, notes, faults>>

AttachTimeout == /\ pc = "attaching" /\ ~act
                 /\ \/ modem.ip # NoAddress /\ notes = <<>> /\ UNCHANGED faults
                    \/ Fault("late_act")
                 /\ pc' = "connect"
                 /\ UNCHANGED <<round, ip_read, flags, query, modem, notes>>

Loop == /\ pc = "loop" /\ ~query.pending
        /\ Ask
        /\ pc' = "loop_mode"
        /\ UNCHANGED <<round, ip_read, flags, modem, notes, faults>>

LoopRead == /\ pc = "loop_mode"
            /\ \/ ReadOff /\ act' = FALSE /\ round' = 2 /\ pc' = "connect"
               \/ ReadOn /\ pc' = "subscribe" /\ UNCHANGED <<act, round>>
            /\ UNCHANGED <<ip_read, detach, my_addr, query, modem, notes, faults>>

Subscribe == /\ pc = "subscribe" /\ ~query.pending
             /\ \/ Fault("refused") /\ pc' = "exit"
                \/ pc' = "address" /\ UNCHANGED faults
             /\ UNCHANGED <<round, ip_read, flags, query, modem, notes>>

ReadAddress == /\ pc = "address" /\ modem.ip # NoAddress
               /\ ip_read' = modem.ip
               /\ faults' = [faults EXCEPT !.unseen = FALSE]
               /\ pc' = "store"
               /\ UNCHANGED <<round, flags, query, modem, notes>>

StoreAddress == /\ pc = "store"
                /\ my_addr' = ip_read
                /\ pc' = "run"
                /\ UNCHANGED <<round, ip_read, act, detach, query, modem, notes, faults>>

MainLoop == \/ Start \/ FirstRead \/ Connect \/ ModeRead \/ Disconnect
            \/ Detached \/ DetachTimeout \/ PowerOn \/ Attached \/ AttachTimeout
            \/ Loop \/ LoopRead \/ Subscribe \/ ReadAddress \/ StoreAddress

\* handle_reset
Reboot == /\ pc = "exit"
          /\ pc' = "start" /\ round' = 1 /\ ip_read' = NoAddress
          /\ act' = FALSE /\ detach' = FALSE /\ my_addr' = NoAddress
          /\ query' = [done |-> FALSE, status |-> 0, pending |-> FALSE]
          /\ modem' = [cfun |-> 0, ip |-> NoAddress]
          /\ notes' = <<>>
          /\ UNCHANGED faults

-------------------------------------------------------------------------------
(* Modem and notifications *)

Attach == /\ modem.cfun = 1 /\ modem.ip = NoAddress
          /\ Len(notes) < MaxNotes
          /\ \E a \in Addresses : modem' = [modem EXCEPT !.ip = a]
          /\ notes' = Append(notes, "act")
          /\ UNCHANGED <<pc, round, ip_read, flags, query, faults>>

\* The network takes the unit's address away, and the modem tells it.
Lost(kind, note) == /\ modem.ip # NoAddress
                    /\ Len(notes) < MaxNotes
                    /\ Fault(kind)
                    /\ modem' = [modem EXCEPT !.ip = NoAddress]
                    /\ notes' = Append(notes, note)
                    /\ UNCHANGED <<pc, round, ip_read, flags, query>>

\* Told as +CGEV: ME DETACH.
Drop == Lost("drop", "detach")

\* Told as +CGEV: NW DETACH, ME PDN DEACT or NW PDN DEACT.
OtherDrop == Lost("other_drop", "other")

\* Faulty: an activation takes a detachment back.
NotifyAct_ClearsDetach == /\ notes # <<>> /\ Head(notes) = "act"
                          /\ act' = TRUE /\ detach' = FALSE
                          /\ notes' = Tail(notes)
                          /\ UNCHANGED <<pc, round, ip_read, my_addr, query, modem, faults>>

\* notification_handler
NotifyAct == /\ notes # <<>> /\ Head(notes) = "act"
             /\ act' = TRUE
             /\ notes' = Tail(notes)
             /\ UNCHANGED <<pc, round, ip_read, detach, my_addr, query, modem, faults>>

NotifyDetach == /\ notes # <<>> /\ Head(notes) = "detach"
                /\ detach' = TRUE
                /\ notes' = Tail(notes)
                /\ UNCHANGED <<pc, round, ip_read, act, my_addr, query, modem, faults>>

\* Any other notification is printed and has no effect.
NotifyOther == /\ notes # <<>> /\ Head(notes) = "other"
               /\ notes' = Tail(notes)
               /\ UNCHANGED <<pc, round, ip_read, flags, query, modem, faults>>

Notify == NotifyAct \/ NotifyDetach \/ NotifyOther

\* The news that the unit lost its address is under way.
DetachNoted == \E i \in DOMAIN notes : notes[i] = "detach"

LinkStep == MainLoop \/ Answer \/ Attach \/ Drop \/ OtherDrop \/ Notify

LinkNext == LinkStep \/ Reboot

LinkSpec == LinkInit /\ [][LinkNext]_linkvars

-------------------------------------------------------------------------------
(* Properties *)

LinkTypeOK ==
  /\ pc \in {"start", "first", "connect", "mode", "disconnect", "detaching",
             "power", "attaching", "loop", "loop_mode", "subscribe", "address",
             "store", "run", "exit"}
  /\ round \in {1, 2}
  /\ ip_read \in Addresses \cup {NoAddress}
  /\ act \in BOOLEAN /\ detach \in BOOLEAN
  /\ my_addr \in Addresses \cup {NoAddress}
  /\ query \in [done : BOOLEAN, status : {0, 1}, pending : BOOLEAN]
  /\ modem \in [cfun : {0, 1}, ip : Addresses \cup {NoAddress}]
  /\ notes \in Seq({"act", "detach", "other"})
  /\ faults \in [count : 0 .. MaxFaults, lasting : BOOLEAN, unseen : BOOLEAN]

\* The gate of gateway.c:206, 297 and 314: the unit forwards packets.
Open == my_addr # NoAddress /\ act /\ ~detach

\* While the unit forwards packets the address it writes into them is the one
\* it has now, unless the news that it lost it is still under way, or the news
\* was one the unit does not listen for: no late, early or repeated
\* notification opens the gate on an old address.  The last case is a limit of
\* the code: it looks for +CGEV: ME DETACH alone (nrf91_lte.c:92-101) and reads
\* the address once (nrf91_lte.c:119-130, 255, 347-369).
OpenIsCurrent == Open => my_addr = modem.ip \/ DetachNoted \/ faults.unseen
===============================================================================
