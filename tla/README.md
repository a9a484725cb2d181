# TripleLTE Ethernet Gateway: specification and proofs

The repository holds two firmwares. An ESP32 on an Ethernet segment (`src/TripleUart_Ethernet_Gateway_ESP32_8720a`)
forwards IP packets to one of three nRF9160 LTE units over UARTs and back; each nRF9160
(`src/nRF9160_LTE_Uart_Gateway_for_MultipleLteDevice`) forwards between its UART and its modem and tells the
ESP32 with a status line whether its LTE connection can be used. This directory holds TLA+ models of them,
TLC configurations that check the models on small instances, and TLAPS proofs for all values of the constants.

Below, E stands for the ESP32's `src/` and N for the nRF9160's.

## 1. The system

| component | state | operations | hard behaviour |
|---|---|---|---|
| port map (E/hdr_portmap.cpp) | `pmap` (1800 rows: protocol, client, client port, server, LTE port, unit, time stamp), `port_seq` | search by server, by client, for TCP; add; collect rows older than 20 s (start of every search); two port generators | expiry against late replies; `port_seq` wraps while rows live; four tasks and no lock |
| uplink task `task_gw_uart_tx` (E/gw_uart.cpp, core 0) | `cntr`, `eth_rxb_ri` | take a frame from the ring, find or open its row, choose a unit by the status lines, rewrite the port in the slot, send | units come and go; NULL row when the table is full |
| frame ring (E/gw_eth.cpp) | `eth_rxb` (16 slots), `eth_rxb_wi`, `eth_rxb_ri` | `eth_rx_handler` (driver's task) fills, the uplink task empties | two cores, no lock, frames rewritten in place |
| three receive tasks (E/gw_uart.cpp, core 1) | deframer state per UART, `eth_tx_lock` | deframe, translate back, resolve the MAC address, transmit | test-then-set lock, shared static buffers |
| ARP (E/hdr_arp.cpp) | `arp_cache` (96 rows) | learn, search, collect after 20 min, answer requests, resolve with a time-out | four tasks and no lock; the answer arrives in another task |
| Ethernet start and events (E/if_eth.cpp) | `eth_connected`, `my_mac_addr` | start the driver, follow its events | order of start-up |
| UART framing (both) | in frame, in escape, length | STX/ETX/DLE byte stuffing | lost bytes, resynchronisation |
| nRF9160 gateway (N/gateway.c) | two message queues of 8, socket, deframer, status pin | UART interrupt, LTE receive thread, LTE transmit thread | interrupt against threads, full queues, socket errors |
| nRF9160 connection (N/nrf91/nrf91_lte.c) | `is_cgev_act_on`, `is_cgev_detach_on`, `my_addr` | connection loop, modem notifications, reset | notifications at any time |
| AT commands (N/nrf91/nrf91_at_commands.c) | one `is_done` flag per command | ask the modem, wait up to 5 s | late answers |

Uplink: host -> driver task -> ring -> uplink task (port map, unit) -> UART -> nRF interrupt -> `lte_msgq` ->
LTE transmit thread -> modem. Downlink: modem -> LTE receive thread -> `uart_pkt_msgq` -> LTE transmit thread ->
UART -> ESP32 receive task (port map, ARP) -> driver -> host. The status pin of each nRF9160 is read by the uplink task.

## 2. Modules

| module | models | actions and their code |
|---|---|---|
| `Timeout` | `is_timeout` (three copies) and `time_diff` | operators only |
| `TimeoutClock` | one time stamp and the wrapping counter | `Stamp`: `ts = millis()`; `Tick`: time |
| `NatGateway` | port map, unit selection, uplink and downlink translation | `Open`, `OpenFails`, `KeepTcp`, `Reselect`, `Panic`, `IgnoreIcmp`: the branches of `task_gw_uart_tx`; `Deliver`, `Refuse`: the look-up of `forward_downlink_packet`; `Tick`, `LineChange`: time and status lines |
| `PortMapping` | what the port map promises: a set of bindings of flows to ports | `Bind`, `Continue`, `Repeat`: a host's packet; `Answer`: a server's; `Collect`, `Overflow`, `Pass`: expiry, the full table, time |
| `PortMapRace` | the port map as its tasks share it: every collection, every search and every assignment to a row is a step | `Begin`, `Condemn`, `Spare`, `Clear`: `__gc_pmap`; `Find`, `Renew`, `Open`, `Send`: the searches and reads of `task_gw_uart_tx`; `Again`, `ChooseEmpty`, `Fill`, `Panic`: `add_pmap`; `Search`, `Refuse`, `Forward`: the look-up of `forward_downlink_packet` and the reads from the row it returned; `Age`: time |
| `Checksum` | both checksum routines and who uses them: the echo responder, the downlink's check and rewriting, the uplink's rewriting, the payload checksums | `Add32`, `AddRest`: `ip_checksum1`, `check_ics`; `Add16`: `ip_checksum2`; `FoldMore`: the last loop of each; `HasOptions`, `Checked`: the refusals; `Edit`, `Fill16`: the change and the new checksum |
| `PacketQueue` | what a packet buffer promises: a bounded FIFO queue | `Put`, `Take` |
| `EthRing` | the frame ring with its two tasks, step by step | `RxPass`, `RxFull`, `RxAdmit`, `RxCopied`, `RxPublish`: `eth_rx_handler`; `TxFetch`, `TxDrop`, `TxTranslate`, `TxSend`, `TxAdvance`: `task_gw_uart_tx` |
| `L0Framing` | byte stuffing: the sender of both firmwares, a line that loses bytes, the receiver of either | `WriteStx`, `WriteByte`, `WriteEscaped`, `WriteEtx`: `uart_send_L0`, `gw_lte_tx_thread`; `Skip`, `Begin`, `BeginEscape`, `FrameError`, `Store`, `Overrun`, `End`: the branches of `operate_gw_uart_rx` and `gw_uart_serial_cb`; `SerialDiscard`: the function of that name; `Lose`: the line |
| `LteLink` | `nrf91_main_loop_lte` with `nrf91_lte_connect`/`disconnect`, the notification handler, `at_cfun_read1`, `handle_reset` | one action per wait or branch of the loop; `NotifyAct`, `NotifyDetach`, `NotifyOther`: the handler; `Attach`, `Drop`, `OtherDrop`, `Answer`: the modem |
| `NrfGateway` | an nRF9160 unit: `LteLink` composed with the UART interrupt and the two threads of gateway.c | `UartPacket`: the interrupt at the end of a frame; `Closed`, `OpenSocket`, `PollClosed`, `PollError`, `Receive`: `gw_lte_rx_thread`; `SendUart`, `SendLte`, `LteEmpty`: `gw_lte_tx_thread`; `Restart`: `handle_reset` |
| `ArpCache` | the ARP cache with its writers' and readers' steps interleaved | `Choose`, `WriteMac`, `Finish`: `update_arp_cache_by_ip`; `Search`, `Release`: `search_arp_cache_by_ip` and the copy from the row it returned; `Age`: time |
| `Downlink` | `ArpCache` composed with the receive tasks, `eth_tx_lock`, `forward_downlink_packet` and `resolve_arp` | `PacketIn`, `SeeFree`, `Lock`, `Unlock`: `operate_gw_uart_rx`; `Refuse`, `Build`, `Send`: `forward_downlink_packet`; `NotConnected`, `LookUp`, `Poll`, `GiveUp`, `CopyMac`: `resolve_arp`; `EthEvent`: `ETH_event` |

`MC...` modules give the constants values; `...Proofs` modules hold the theorems. Operators whose names end in
`_Something` and whose comment starts with *Faulty* are not part of the models: each is the mutated form of the
definition that follows it, and replacing one by the other must break the property that PROJECT.json names.

### Abstractions

* `NatGateway` treats each handler as one step and reads the clock and the status lines once in it. All that the
  handlers do to the table is in that step, the collection of expired rows included. The tasks really run
  interleaved on two cores; that is the subject of `PortMapRace`.
* `Traffic` is the set of flows whose packets the hosts send. The theorems hold for any; a run names its own.
* In `PortMapRace` the rows are those of one protocol that is found by client and port: UDP, or ICMP apart from the
  identifier 0, which a row whose port is not written yet holds as well. A generated port is any that no live row
  holds; the sequence is in `NatGateway`. Scanning the table is one step, collecting it is one step for each row
  looked at and each field cleared. A row's age is a flag that may change at any time, in both directions (a
  turn of `millis()` makes an old row young again), but not while a task holds a row it has just refreshed: those 20 s
  do not pass within the milliseconds the task needs. `alone` and `disputed` only remember which rows two tasks worked
  on at once, `owner` for which flow a port was last handed out.
* `Checksum` scales the widths: a byte has `ByteMod` values, a 16-bit word `Half = ByteMod * ByteMod`, the
  accumulator `Half * Half`. A packet is any
  sequence of words with one of them the checksum; a last odd byte is a word below `ByteMod`. An address, a port
  or the type of a message is the first word, whatever its place. `MaxLen` bounds the length. With 4 values the
  accumulator wraps and `ip_checksum2` folds in the middle of a packet; with 16 bits the latter needs more than 2^15
  words, which no packet here has.
* Addresses, ports and identifiers are members of small sets; LTE ports are numbers because the generator computes
  with them. The payload, the checksums and the ARP cache do not occur in `NatGateway` and `EthRing`.
* `due` and `out` observe and influence nothing. A request is *due* for PMAP_TIMEOUT_MS after it was sent, or never
  (the packet or its reply is lost). `MaxDue` bounds how many are observed at a time; one is enough, because every
  property about `due` is about a single request, and which one is observed is a free choice at every packet.
* A full table makes `add_pmap` return NULL and the next line read `row->uart`. `Panic` models the trap and the
  restart of the firmware: everything is forgotten, and no reply is expected any more.
* In `EthRing`, `memcpy` of a frame takes two steps and leaves the slot *torn* in between, `tx_func` reads the slot
  again after the port was rewritten, and the frame header is read once when the task finds the frame.
* In `L0Framing` the line holds one byte, so that a loss may hit any byte and the receiver is at most one byte
  behind. A packet is a sequence of bytes whose second is its length; the length
  fields and the tests of the IP header stand behind that byte.
  `limited` tells the ESP32's receiver, which has a bound and clears its buffer, from the nRF9160's, which has none.
* In `LteLink` no time is counted. A wait ends when its event comes, or too early as one of the `Faults`, or when
  there is nothing left that could end it. The modem tells a loss of the address as `+CGEV: ME DETACH` (`Drop`), which
  the handler matches (nrf91_lte.h:84), or as `NW DETACH`, `ME PDN DEACT` or `NW PDN DEACT` (`OtherDrop`, one kind
  "other"), which it prints and ignores. Those that come together with an ME DETACH, as when the modem is switched off,
  are left out, since they change nothing; a modem that only lost its PDN is taken as detached. `faults.lasting` remembers
  the two faults after which the gate stays shut, `faults.unseen` that the address read last was lost by an `OtherDrop`
  (below). In `NrfGateway` `gw_lte_tx_thread` tests the flags and sends in one step and
  `gw_lte_rx_thread` closes the socket and tests the gate in one step; LEDs and the wait for `xmonitor`, whose result
  is ignored, are left out.
* In `ArpCache` every host keeps its MAC address, so the address is named by its host, and a row's age is a flag.
  `job[w].alone` and `disputed` only remember, for the properties, which rows two tasks worked on at once. ARP
  packets that carry the address 0 as their source are left out. Collecting and scanning the table is one step: an
  empty row seen early in a scan may really be taken before the scan ends, which is a dispute over the row as well.
* In `Downlink` the port map is a choice between a row found and none, the ARP request is the choice whether some
  writer learns the host, and `resolve_arp` may give up after any poll. `spoilt` remembers that two tasks shared the
  buffers or that a disputed row was read.

## 3. Runs

| run | bounds | why they are enough |
|---|---|---|
| `ip_util` | counter of 16 values, real age up to 40; words of 4 values, packets of 2 to 5 words, odd or even, one word damaged or none | every start, every age up to two and a half turns, every timeout; the accumulator wraps, both remainders of `ip_checksum1`, folds in `ip_checksum2` |
| `nat_flows` | 2 hosts, 1 port, 2 servers, 5 flows (TCP to two servers, UDP, echo requests of both hosts), 2 rows, 3 ports in the range, expiry after 2 ticks, clock of 3 values | the table fills, the port sequence wraps with rows alive, the clock wraps within the life of a row, restarts; flows that differ in the server only |
| `nat_units` | all 8 sets of ready units, changing at any time | all states of the selection |
| `nat_unready` | as `nat_units` | finds the unit that is used without its line being low |
| `eth_ring` | 4 slots, 2 frames to forward and 1 to ignore | empty, part full and full ring at every position of the indices, every interleaving of the two tasks |
| `eth_mtu` | frames at the edges of the length test | finds the longest IP packets dropped |
| `frames` | either receiver, up to 3 packets whose lengths are control bytes or not, with control bytes at the end and next to each other, one of which becomes another by the loss of its length byte, up to 2 bytes lost, a buffer of 8 bytes | a loss in a packet, in the next one and a sound packet after both; packets made up of what a loss left; frames that run together past the buffer |
| `nrf_unit` | 2 addresses, 3 faults of any of the six kinds, 1 socket error, queues of 2, a new notification only while fewer than 3 are under way | a reconnection with another address while packets of the old one are queued, and a fault on top of it at either end |
| `nrf_status` | 1 drop by the network, told as ME DETACH, no other fault | finds the line that stays high |
| `arp_rows` | 2 hosts, 2 writers, 1 reader, 2 rows | two writers of one row, of two rows, of one host; a row collected and filled anew between search and copy |
| `port_map_race` | 2 hosts, 1 server, 2 rows, 3 ports, the uplink task and 1 receive task | both tasks collect the same row, a row is found half filled, collected and filled again between search and read, a full table; more receive tasks differ in nothing (the theorems hold for any number) |
| `downlink` | 2 receive tasks, 1 writer, 2 hosts, 1 row | both tasks past the test of the lock, hosts whose rows give way to each other while a task waits |

What they show. In `ip_util` the age is exact up to a whole turn, both routines end with the one's complement sum,
what leaves passes the check of whoever gets it, in either byte order, and damage in a part that is checked is dropped, except that a word
of zeros and one of ones look the same. Only the IP header on the way down and the body of echo requests are
checked; everything else gets a new checksum unseen (gw_eth.cpp:191, gateway.c:242). In `nat_flows` two live rows
never share a port in their class, no flow holds two rows, and a reply that is still
due finds its row and only the host that asked. The table refines `PortMapping`: a set of bindings in which only
a flow's own packets change its binding (a TCP packet may also refresh another binding of its client and port), a TCP flow
keeps its unit, an unused binding goes with the first packet after its expiry, and everything goes only when
`MAX_PMAP_ROWS` bindings are in use. One thing in it is not what one would promise: rows are collected only when a
packet is handled, so a binding that nobody collected for a whole turn of `millis()` is young again (`Pass`). `Answerable` covers TCP always, and UDP and ICMP as long as a client
port is used with one server only (`HasOwnRow`, which all flows of the run satisfy): such a row keeps the first server, and what a second server answers
is refused. The search for a port always ends (`GeneratorEnds`), also on a full table.
In `port_map_race` what a receive task reads from the row it found, and the port the uplink task reads back, are
right although rows are found half filled, and no port gets into two live rows, nor any flow into two that are filled
(`RowsApart`). This fails only for rows that one task took
while another was collecting or filling them (`disputed`): such a row can stay live with its client wiped, until one task
alone collects or fills it. Nothing in the repository promises that it cannot happen.
In `nat_units` packets are dropped only with all
lines high, and with all units ready two consecutive packets never take the same unit. In `eth_ring` the ring
refines `PacketQueue`. In `frames` every packet arrives if no byte is lost. With losses the receivers may
pass on a packet that was not sent, because they know one by its length (gateway.c:218-222; the ESP32 also looks at a
protocol number): `<<69, 4, 3, 16>>` without its length byte is `<<69, 3, 16>>`, whose length is right, and the nRF9160
then even writes a new header checksum (gateway.c:227). `OnlyLossesForge` says that this is confined to a packet with a
loss and the one behind it: all else that is passed on is what was sent, once and in order; and a receiver is
in step again after one more packet. `CHECK_DEADLOCK FALSE` is there because the bound
on packets ends the behaviour, as a summed packet and the bound on the age do in `ip_util`.

In `nrf_unit` a packet leaves with the address the unit has then, however long it was queued, with the two exceptions
below; the status line goes high when the gate closes; and the unit comes up. Four limits of the code are in the
properties:

* The notification handler matches `+CGEV: ME DETACH` and no other loss (nrf91_lte.c:92-101), and `my_addr` is read once
  (nrf91_lte.c:328-347). After `NW DETACH` or a `PDN DEACT` the gate stays open and the line LOW, and when the modem attaches
  again with another address packets still leave with the old one: `OpenIsCurrent`, `SourceIsMine` and `ComesUp` except
  such a loss from the reading of the address on (`unseen`), and `LostAddressKept` (section 5) proves that it lasts. The
  README of the repository has the line HIGH when the connection is invalid (README.md:9).
* Between the loss of the address and the ME DETACH that tells it packets still leave with it: `OpenIsCurrent` and
  `SourceIsMine` say that the news is then under way.
* Leaving the receive loop disables the UART's interrupt (gateway.c:357) and nothing enables it again, so after a
  socket error the unit says it can be used and hears nothing: `Hears` is about units without socket errors.
* `is_cgev_detach_on` is cleared only while connecting. A drop told as ME DETACH, or a detachment told after the 10 s
  it is waited for, leaves it set for good: `ComesUp` excludes both (`faults.lasting`).

In `arp_rows` a row that names a host holds the host's MAC address, and a reader that copies from a row after its search
copies the right one, although the row may have been collected and filled anew. This fails only for rows two tasks
took as empty together, and lasts until one task alone updates the row. In `downlink` a frame whose host was found
carries its own packet and the right MAC address, and the lock is free again and again. Two exceptions: two tasks
that both saw the lock free share the static buffers (`spoilt`), and when `resolve_arp` times out it returns the
`ESP_OK` of the request, so the frame goes out to the MAC address of the packet before (the step `late`).

Three runs show that the code does not do what the README says. `nat_unready`: after finding a ready unit the code
rotates once more (gw_uart.cpp:193, 237, 262, 306, 331), so the packet goes to a unit whose line was not looked at.
`eth_mtu`: README.md:18 tells hosts to use an MTU of 1280, and the handler drops IP packets of 1267 to 1280 bytes
because it counts the Ethernet header (gw_eth.cpp:23). `nrf_status`: README.md:9 has the line LOW while the
connection is valid; after one drop that the modem reports as ME DETACH, and an attachment by the modem itself, it stays HIGH
(nrf91_lte.c:97).

## 4. Fairness

* `EthRing`: weak fairness of the uplink task, which has core 0 at a fixed priority, loops for ever with `delay(1)`,
  and whose writing to a UART ends. Nothing is assumed of the arrival of frames.
* `L0Framing`: weak fairness of the sender once it has begun a packet (it writes the whole of it in one call) and of
  the receiver, which is a task's loop or an interrupt. Packets need not come, and losses are not fair.
* `NrfGateway`: weak fairness of the connection loop, of the reset, of the two threads, and of the modem: it answers
  commands, attaches in the end and delivers what it noted. `WF` of the receive thread is over
  `Closed \/ OpenSocket \/ PollClosed`: socket errors and packets are never obliged to happen, and a packet received
  does not keep the thread from the test of the gate, since the loop makes it every time round.
* `Downlink`: weak fairness of each receive task from the moment it has the lock, and of `GiveUp`: `millis()`
  advances while `resolve_arp` polls with `delayMicroseconds(1)` (hdr_arp.cpp:150), so the 100 ms pass. Nothing is assumed of the tasks that wait
  for the lock, of the writers or of the Ethernet.

The other modules have safety and action properties only.

## 5. Proofs

Assumptions: the named ASSUMEs of the modules (positive table sizes and ranges, an expiry below the clock's turn,
no host with address 0, a ring of two slots or more, packets that carry their length and fit the
buffer, a word of two bytes, writers and readers are different tasks). TLC evaluates them in the runs. `RoomForAllFlows`
alone has a hypothesis of its own, which is what it is about: no more flows than rows.

* `IpUtilProofs`. `current` is `start + real` modulo the counter; with it, the age is exact below a whole turn, and
  an expired wait stays expired. For the sums, the accumulator is congruent to the exact sum modulo `Half - 1`, since
  the end-around carry and the fold both take off a multiple of `Half - 1`, and it is 0 only with it (`Represents`); below
  `Half` there is only one such number, which is `SumsExact`. `ip_checksum2` does not look at the top bit after its
  last byte, so the invariant also says that there is room for one more word. The last loop ends after two turns at the
  most (`FoldingEnds`).

  What the sums are good for is a matter of the whole packet. `PacketInv` says that the running sum is the sum of the
  packet's first words, that the checksum is 0 while a new one is computed, and that at most one word differs from what
  was sent. A sum passes the check exactly if it is a multiple of `Half - 1` other than 0 (`PassingSum`, `SumPasses`).
  Writing the complement into a word that was 0 makes it one, hence `Repaired`; two passing sums that differ in one word
  differ by a multiple of `Half - 1`, and the only such words are 0 and all ones, hence `DamageDropped`. Swapping the bytes
  of every word multiplies the sum by `ByteMod` modulo `Half - 1`, because `ByteMod * ByteMod` is 1 there, so the
  same packet passes in the other byte order as well (`EitherByteOrder`). The prefix sums are a recursive function; what
  a proof by induction over them would say, `SumsDef`, `SumsType` and `SumsExcept` get from a smallest counterexample
  (`LeastNumber`, from the library's well-founded order of the naturals).
* `NatGatewayProofs`. Type correctness first. `PortsUnique` is inductive because the generator steps over every live
  port of its class and the new row is the only one that changes its port. `OneRowPerFlow` is inductive because a row
  is opened only when the search for the flow, after the same collection of rows, found none. `DueHeld` is the
  strengthening the reply properties need: every due request has its row, refreshed no earlier than the request; a
  row that young is not collected. `NoCrossTalk` follows from `DueHeld` and `PortsUnique` (the row found has the
  request's port, so it is the request's row), `Answerable` from `DueHeld` and the traffic (the row was opened for a flow of the same client and port, so with the
  request's server). `GeneratorEnds` is counting: the range has one port more than the table has rows, and the probes
  of one turn are different.
  `MappingStable`, `DropOnlyIfNoneReady` and `SpreadWhenAllReady` are action properties proved step by step.
  `TableIsMapping` is the refinement of `PortMapping`. The live rows are mapped to bindings; the bindings that are kept
  are those of the table after its collection (`KeptIsCollected`), and different live rows are different bindings, which
  is `OneRowPerFlow` (`BindingsDiffer`). So a handler that collects and then writes some rows replaces just the
  bindings of those rows (`HandlerUpdates`), whatever the order of the scans; a search that finds nothing means that
  no binding serves the flow (`UnknownIsUnbound`), and a table without an empty row has as many bindings as rows
  (`CountBindings`). A tick adds one to every age except at the end of a turn of the clock, where an age starts again
  (`ElapsedTurn`); that is why the expired bindings of `PortMapping` may return. `MappingStable` says part of this in terms
  of the table.
  `RestartNeedsCrowd` says what it takes to make `add_pmap` return NULL, after which the firmware restarts: every row
  serves another flow used within the last 20 s, because a flow never holds two rows and the collection leaves no older
  one. With no more flows than rows that cannot be, again by counting (`RoomForAllFlows`).
* `EthRingProofs`. The inductive invariant says where the slot being filled and the slot being sent are relative to
  the two indices, that the slots between the indices hold whole frames, and that the slot the task works on holds
  the frame it read. From it `SlotsApart`, `SentIntact`, and the refinement: `RxPublish` is `Put`, `TxAdvance` is
  `Take`, every other step leaves the queue as it is.
* `L0FramingProofs`. The argument goes packet by packet, whatever was lost before. `Aligned`: as long as the packet under
  way has lost no byte, a receiver that is in a frame, be it the right one or a wrong one, takes an escape exactly where the
  sender makes one, so the ETX ends its frame. `InStep`: if the packet before was such a packet, the receiver was out of
  a frame when this one began, and its buffer is what was sent of this one. Hence such a packet (`Clean`) is passed on and
  nothing else with it (`CleanFramesAreExact`). `Delivered` counts them: the clean packets already finished have their
  places in what was passed on, in order, which is `Resync`; without losses all packets are clean and nothing
  else was passed on, which is `Lossless`. `ForgedOnlyByLosses` is the other direction, `OnlyLossesForge`: what was passed on comes in
  the order of sending, a clean packet once and unchanged. `InBuffer` holds for every stream of bytes.
* `NrfGatewayProofs`. `LinkInv`: the address is set only by the last step before the loop runs for good, and from the
  reading of it on either it is the modem's, or the news of its loss is under way, or the flag is set, which nothing
  clears any more, or it was lost by a notification the handler does not match. `OpenIsCurrent` follows. For `SourceIsMine`, `GwInv` adds that every packet queued carries the
  address written last, because packets are queued only through the open gate and the address changes only by a
  restart, which empties the queue. The unit implements `LinkSpec` (`GatewayUsesLink`), so the theorems of the connection
  hold in it. Three of the limits listed in section 3 are theorems as well: once the connection loop runs for good, a unit
  that lost its address unseen keeps it, and only an ME DETACH closes its gate (`LostAddressKept`); once the connection loop runs for good, a
  detachment closes the gate for ever (`ClosedForGood`), and a unit whose UART interrupt is off never queues a packet
  again (`DeafForGood`).
* `ArpCacheProofs`. Whether a write is harmless depends on who else works on the row, so `ArpInv` says: a writer still
  alone in its row is its only writer, and who reads the row reads its host (`Undisturbed`); in an undisputed row only
  such a writer fills an empty row, and every other writer repeats the MAC address that is there (`Harmless`).
  `NoMixUp` and `ReadsRight` are then kept by every step. That the first of a set of rows exists needs the library's
  well-founded ordering of finite sets, since the induction theorems with an operator parameter cannot be used.
* `PortMapRaceProofs`. The invariant `IInv` says of each task what it has under way (`Control`) and of the rows what
  follows from it: a row being collected is cleared as far as the task has come (`Progress`), a row being filled holds
  the flow's fields as far as they are written (`Contents`), a row held is live and young (`HeldYoung`), a task still
  alone in a row is the only one that writes it (`AloneAlone`), and the port of a row about to be filled is in no other
  live row (`Reserved`). With these `PortsApart` is inductive, and `ReadsRight` and `SentRight` follow: the port of a row
  that was found is written only after client and host port, and nobody may collect a young row. `RowsApart` adds the
  flows: a filled row that is undisputed keeps client and port, and none appears but the sender's with its last field
  (`RowsRemain`); as long as the sender's flow waits for its row no such row names it (`Unfiled`), because it began to
  wait when the search found none (`WaitsUnfiled`) and nobody else opens rows.
* `DownlinkProofs`. Every step of `Downlink` is a step of `ArpCache` or leaves the cache alone (`Spec => ArpSpec`), so
  `ArpInv` holds of it. `DlInv` follows each task through its packet: the row it copies from is its client's, and
  while no two tasks are inside the buffers hold what the task wrote. `RightFrame` and `LockHeld` follow.

Proved and not among the properties of a run: `ExpiryIsStable`, which `ExactWithinOneTurn` implies; `DueHeld`, from which
the reply properties follow; `SumIsOfThePacket`, `FoldingEnds`, `EitherByteOrder`; `MappingStable`, which
`IsPortMapping` implies; `RestartNeedsCrowd` and `RoomForAllFlows`; `CleanFramesAreExact`;
`LostAddressKept`, `ClosedForGood` and `DeafForGood`; the types of `TimeoutClock`, `Checksum` and `Downlink`.

Model-checked only:

* Everything about fairness (`HeadLeaves`, `Arrives`, `LineGoesHigh`, `ComesUp`, `GivenBack`): liveness and ENABLED are out
  of the prover's reach. Ends of loops are proved in their safety form (`SearchesEnd`, `FoldingEnds`).

## 6. Not modelled

* The driver's start-up (if_eth.cpp) apart from the state it leaves: calls in a fixed order with early returns, before
  any task runs.
* `ip_htons`, and the branch of `ip_checksum2` for a first part of odd length: the first part is always the pseudo header
  of 12 bytes.
* Functions that nothing calls: `pmap.c` and `arp_cache.c` on the nRF9160, the remove functions and `pmap_status` of the
  port map, `search_arp_cache_empty`, the string helpers of nrf91_util.c, all AT commands but two.
* LEDs, buttons, logging, board and build files.
* Replies to requests sent before a restart of the ESP32. The table is not kept, so the code cannot tell them from
  strangers' packets; `port_seq` starts again at 0 and hands their ports to others.

`NatGateway` and `PortMapRace` look at the same table at two grains and are not connected by a refinement: a handler
that loses a row to another core in its midst is no single step of `NatGateway`, and disputed rows have no counterpart
there.
