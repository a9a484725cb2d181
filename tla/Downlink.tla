------------------------------- MODULE Downlink -------------------------------
(***************************************************************************)
(* From a packet received on a UART to the frame on the Ethernet: the      *)
(* receive tasks of gw_uart.cpp, eth_tx_lock, and forward_downlink_packet  *)
(* with resolve_arp, which share one frame buffer and one MAC address and  *)
(* wait for an answer that the driver's task enters into the ARP cache.    *)
(*                                                                         *)
(* A packet is the host it goes to; the port map (NatGateway) is a choice  *)
(* between a row found and none.  The request of resolve_arp is left out:  *)
(* what it leads to is an update of the cache or none.  Waiting times are  *)
(* not counted: resolve_arp may give up after any poll.                    *)
(*                                                                         *)
(* The host is read back from the frame buffer right after it is written;  *)
(* only a second task in the buffer could change it; then spoilt holds.    *)
(***************************************************************************)
EXTENDS ArpCache

VARIABLES
  eth_connected,
  eth_tx_lock,
  pc,             \* where each receive task is
  client,         \* the host the task's packet goes to
  eth_packet,     \* the frame under construction: whose packet, and to whom
  mac,            \* the MAC address resolve_arp wrote last
  spoilt          \* two tasks shared the buffers, or a disputed row was read

dlvars == <<eth_connected, eth_tx_lock, pc, client, eth_packet, mac, spoilt>>
vars == <<arpvars, dlvars>>

\* if_eth_start ends when the Ethernet is connected; the tasks start afterwards.
Init == /\ ArpInit
        /\ eth_connected = TRUE /\ eth_tx_lock = FALSE
        /\ pc = [t \in Readers |-> "uart"]
        /\ client = [t \in Readers |-> NoHost]
        /\ eth_packet = [of |-> NoHost, ip |-> NoHost]
        /\ mac = NoHost
        /\ spoilt = FALSE

Go(t, from, to) == pc[t] = from /\ pc' = [pc EXCEPT ![t] = to]

Inside(t) == pc[t] \in {"forward", "resolve", "wait", "copy", "send", "late", "unlock"}

-------------------------------------------------------------------------------
(* operate_gw_uart_rx *)

PacketIn(t) == /\ Go(t, "uart", "test")
               /\ \E h \in Hosts : client' = [client EXCEPT ![t] = h]
               /\ UNCHANGED <<arpvars, eth_connected, eth_tx_lock, eth_packet, mac, spoilt>>

SeeFree(t) == /\ ~eth_tx_lock
              /\ Go(t, "test", "set")
              /\ UNCHANGED <<arpvars, eth_connected, eth_tx_lock, client,
                             eth_packet, mac, spoilt>>

Lock(t) == /\ Go(t, "set", "forward")
           /\ eth_tx_lock' = TRUE
           /\ spoilt' = \E u \in Readers \ {t} : Inside(u)
           /\ UNCHANGED <<arpvars, eth_connected, client, eth_packet, mac>>

\* Faulty: the lock is kept.
Unlock_Kept(t) == /\ Go(t, "unlock", "uart")
                  /\ UNCHANGED <<arpvars, eth_connected, eth_tx_lock, client,
                                 eth_packet, mac, spoilt>>

Unlock(t) == /\ Go(t, "unlock", "uart")
             /\ eth_tx_lock' = FALSE
             /\ client' = [client EXCEPT ![t] = NoHost]
             /\ UNCHANGED <<arpvars, eth_connected, eth_packet, mac, spoilt>>

-------------------------------------------------------------------------------
(* forward_downlink_packet *)

\* No row in the port map, or a checksum is wrong.
Refuse(t) == /\ Go(t, "forward", "unlock")
             /\ UNCHANGED <<arpvars, eth_connected, eth_tx_lock, client,
                            eth_packet, mac, spoilt>>

Build(t) == /\ Go(t, "forward", "resolve")
            /\ eth_packet' = [of |-> t, ip |-> client[t]]
            /\ UNCHANGED <<arpvars, eth_connected, eth_tx_lock, client, mac, spoilt>>

\* esp_eth_transmit; afterwards nothing of the packet is used any more.
Send(t) == /\ Go(t, "send", "unlock") \/ Go(t, "late", "unlock")
           /\ UNCHANGED <<arpvars, eth_connected, eth_tx_lock, client,
                          eth_packet, mac, spoilt>>

-------------------------------------------------------------------------------
(* resolve_arp *)

NotConnected(t) == /\ ~eth_connected
                   /\ Go(t, "resolve", "unlock")
                   /\ UNCHANGED <<arpvars, eth_connected, eth_tx_lock, client,
                                  eth_packet, mac, spoilt>>

\* The cache is searched; without a row the request is sent, or cannot be.
LookUp(t) == /\ eth_connected
             /\ Search(t, client[t])
             /\ IF Found(client[t]) THEN Go(t, "resolve", "copy")
                ELSE Go(t, "resolve", "wait") \/ Go(t, "resolve", "unlock")
             /\ UNCHANGED <<eth_connected, eth_tx_lock, client, eth_packet, mac, spoilt>>

Poll(t) == /\ eth_connected
           /\ Search(t, client[t])
           /\ Go(t, "wait", IF Found(client[t]) THEN "copy" ELSE "wait")
           /\ UNCHANGED <<eth_connected, eth_tx_lock, client, eth_packet, mac, spoilt>>

\* Faulty: only a lost connection ends the wait.
GiveUp_Never(t) == /\ ~eth_connected
                   /\ Go(t, "wait", "late")
                   /\ UNCHANGED <<arpvars, eth_connected, eth_tx_lock, client,
                                  eth_packet, mac, spoilt>>

\* The time is up or the connection is lost.  What is returned is the result of
\* sending the request, ESP_OK, so the frame is sent all the same, to the MAC
\* address left by the packet before.
GiveUp(t) == /\ Go(t, "wait", "late")
             /\ UNCHANGED <<arpvars, eth_connected, eth_tx_lock, client,
                            eth_packet, mac, spoilt>>

\* Faulty: the MAC address is taken to be there already.
CopyMac_Kept(t) == /\ Go(t, "copy", "send")
                   /\ spoilt' = (spoilt \/ reading[t].row \in disputed)
                   /\ Release(t)
                   /\ UNCHANGED <<eth_connected, eth_tx_lock, client, eth_packet, mac>>

CopyMac(t) == /\ Go(t, "copy", "send")
              /\ mac' = arp_cache[reading[t].row].mac
              /\ spoilt' = (spoilt \/ reading[t].row \in disputed)
              /\ Release(t)
              /\ UNCHANGED <<eth_connected, eth_tx_lock, client, eth_packet>>

-------------------------------------------------------------------------------

\* ETH_event
EthEvent == /\ eth_connected' = ~eth_connected
            /\ UNCHANGED <<arpvars, eth_tx_lock, pc, client, eth_packet, mac, spoilt>>

Forward(t) == \/ Refuse(t) \/ Build(t) \/ NotConnected(t) \/ LookUp(t) \/ Poll(t)
              \/ GiveUp(t) \/ CopyMac(t) \/ Send(t) \/ Unlock(t)

Receive(t) == PacketIn(t) \/ SeeFree(t) \/ Lock(t) \/ Forward(t)

Next == \/ \E t \in Readers : Receive(t)
        \/ EthEvent
        \/ (Learn \/ Age) /\ UNCHANGED dlvars

Spec == Init /\ [][Next]_vars

\* The tasks run on, and millis() advances while resolve_arp waits.
Fairness == \A t \in Readers : WF_vars(Forward(t)) /\ WF_vars(GiveUp(t))

FairSpec == Spec /\ Fairness

-------------------------------------------------------------------------------
(* Properties *)

TypeOK ==
  /\ ArpTypeOK
  /\ eth_connected \in BOOLEAN /\ eth_tx_lock \in BOOLEAN /\ spoilt \in BOOLEAN
  /\ pc \in [Readers -> {"uart", "test", "set", "forward", "resolve", "wait",
                         "copy", "send", "late", "unlock"}]
  /\ client \in [Readers -> Hosts \cup {NoHost}]
  /\ eth_packet \in [of : Readers \cup {NoHost}, ip : Hosts \cup {NoHost}]
  /\ mac \in Hosts \cup {NoHost}

\* A frame that goes out after its host was found carries the task's own packet
\* and the MAC address of its host, whatever the other tasks do to the cache
\* and the buffers meanwhile, unless two tasks passed the lock together or the
\* row was disputed (gw_eth.cpp:213-233, hdr_arp.cpp:96-100, 143-147).
RightFrame ==
  \A t \in Readers : pc[t] = "send" /\ ~spoilt =>
    eth_packet = [of |-> t, ip |-> client[t]] /\ mac = client[t]

\* The lock is never left behind by tasks that have gone, in whatever order two
\* tasks that passed it together set and clear it; and a task that entered
\* alone holds it (gw_uart.cpp:532-535).
LockHeld == /\ eth_tx_lock => \E t \in Readers : Inside(t)
            /\ (\E t \in Readers : Inside(t)) /\ ~spoilt => eth_tx_lock

\* The lock is free again and again, although the task that has it waits for an
\* answer that may never come (hdr_arp.cpp:141, gw_uart.cpp:532-535).
GivenBack == []<>~eth_tx_lock
===============================================================================
