# Verification of the nRF9160 LTE-Ethernet gateway

The firmware in `src/` forwards IPv4 packets between an Ethernet LAN and an LTE
modem. It has one public address, so it maps each client's (protocol, address,
port) to a port of its own, and maps replies back. This directory holds a TLA+
model of that program, the TLC configurations that check it on small instances,
and theorems about it that TLAPS checks for every value of the constants.

Line numbers below are of the files under `src/src/`.

## 1. Inventory

| Component | State | Operations | Module |
|---|---|---|---|
| Port-mapping table, `pmap.c` | 2048 rows (protocol, client, client port, server, public port, time of last use) | sweep, two searches, two updates, two removals, add, init | `PmapTable`, `PortMap`, `PmapRace` |
| Port generators, `gateway.c` 62-115 | `port_seq` | one for UDP and TCP, one for ICMP echo identifiers | `PmapTable`, `PortMap` |
| Ethernet to LTE, `eth_recv_cb` 143-428 | `lte_tx_ip_pkt`, `lock` | reassemble, check, map, rewrite, send | `PortMap`, `Gateway`, `Packets` |
| LTE to Ethernet, `eth_tx_thread_func` 458-773 | `lte_sock`, `my_addr`, `lock`, packet buffers | open the modem socket, poll, receive, check, map back, resolve, send | `PortMap`, `PmapRace`, `Gateway`, `Packets` |
| Callback installer, `eth_rx_thread_func` 431-449 | the receive context | `net_context_recv` | `Gateway` |
| ARP cache, `arp_cache.c` | 96 rows (address, MAC, time) | sweep, search, update, `resolve_arp`, `operate_packet_arp` | `ArpCache` |
| LTE link, `nrf91/nrf91_lte.c` | `is_cgev_act_on`, `is_cgev_detach_on`, `my_ip_addr` | notification handler, connect, disconnect, main loop, reset | `LteLink`; a link that comes and goes in `Gateway` |
| AT commands, `nrf91/nrf91_at_commands.c` | `parse_buf`, `at_res_list`, one `is_done` per reader | asynchronous commands, recursive response parser | `LteLink` (`at_cfun_read1`), `AtParser` (the parser and a reader) |
| Internet checksums, `nrf91/nrf91_util.c` 286-393 | none | `check_ics`, `calc_ics`, `ip_checksum2` | `Checksum` |
| Timers and string helpers, rest of `nrf91_util.c` | none | delays, conversions | not modelled: the paths above do not call them |
| Start-up, button, LED, `main.c` | GPIO | straight-line initialisation, `cbf_main` | `cbf_main` in `LteLink`; the rest is I/O only |
| Zephyr network stack, nRF modem library | - | - | outside the repository: assumptions only |

### How they interact

Three threads and one callback share everything without a kernel lock:

* `eth_recv_cb` runs in the network stack's receive thread, which is cooperative
  and of higher priority than every application thread. No application thread
  interrupts it, except where it sleeps (`while (lock)`, line 416) or blocks (in
  `send`, line 418).
* `eth_tx_thread` is preemptible and can lose the processor to the callback
  between any two instructions.
* `eth_rx_thread` only installs the callback while the link is up.
* the main thread brings the LTE link up and down; the modem library's
  notification handler sets the two link flags the others read.

The table is used by the callback (search by client, add) and by
`eth_tx_thread` (search by server); the ARP cache by the callback (update) and by
`eth_tx_thread` (search, `resolve_arp`). The flag `lock` is meant to keep `send`
and `poll`/`recv` apart; it does not protect the table or the cache.

### What is hard

* **Interleaving**: a sweep of the table in `eth_tx_thread` against an add in the
  callback; a row pointer used after the search that found it; the test and the
  store of `lock`.
* **Limits**: a full table, 256 echo identifiers for 2048 rows, a full ARP cache.
* **Time**: leases on a 32-bit millisecond counter that wraps; an ARP answer that
  races a timeout.
* **Failure**: every way out of the two loops of `eth_tx_thread_func`, each with
  its own handling of `lock` and of the socket.
* **The modem**: it answers late, attaches and detaches by itself, and changes its
  address while the threads keep copies; flags and statics outlive what they say.
* **Bytes**: fragments copied into a buffer that holds the last packet, packets
  shorter than their length field, one's complement sums in three word sizes.
* **Long sequences**: port uniqueness across wraps of the generators, searches
  that renew leases, one client port that talks to several servers.

What makes each component correct: for the table, no public port in two hands,
no client with two rows, replies found and never misdelivered, leases that end;
for the generators, that they return; for the threads, that nothing stays locked
or open and both directions go on; for the ARP cache, one row per host, the
right address, and a `resolve_arp` that returns; for the link, that the gateway
comes back after every detach; for the parser and the checksums, agreement with
a reference definition. `PROJECT.json` lists the hazards line by line with the
properties that cover them.

## 2. Modules and how they correspond to the code

`PmapTable` holds the table as constant-level operators, without state: the row
type, `is_timeout` with its two branches, `gc_pmap`, the searches as sets of
matching rows (`IsFirst` picks the row the C loop returns), and the generators.
A generator is not a loop here: the `k`-th turn tries `Candidate(SeqAfter(k))`,
candidates repeat after `port_seq_max + 1` turns, and `FreeSteps` is the set of
turns that would succeed. The loop ends at the least of them, or never.

`PortMap` has the table and `port_seq` as variables. An action is one packet's
use of the table: `EthKnownFlow`, `EthNewFlow`, `EthTableFull` and
`EthGeneratorSpins` are the outcomes of the protocol switch of `eth_recv_cb`
(sweep, search, generate, sweep, add), `LteKnownPort` and `LteInvalidPort` those
of the switch of `eth_tx_thread_func`. `OtherCalls` adds the functions of `pmap.h`
that the gateway does not call; `Spec` is the gateway, `ApiSpec` the gateway's
packets in any order with updates and removals between them. `add_pmap` itself
checks nothing, so it appears only as the gateway calls it, after a search that
found nothing and with a generator's port: what is shown of the table is what
the searches and generators make of it, not a promise of `add_pmap`.
(`pmap.h` declares `update_pmap_by_server_info` and `remove_pmap_by_server_info`;
`pmap.c` defines them with the spelling `serevr`. The model uses the header's.)
Two history variables serve the properties: `flows`, what was sent or answered
within the lease, and `quiet`, how long the table has gone unswept.

`AbstractNat` is what a port mapper promises: a set of bindings of which a step
drops any and adds at most one that clashes with nothing kept. `PortMap`
implements it (`ImplementsNat`), its bindings being the live rows.

`PmapRace` is the same table at the granularity that the threads see. The
callback's use is still one step, because nothing interrupts it.
`eth_tx_thread`'s search is split into its accesses to the table and the clock: the
test whether a row is free (`TxSweep`), the two arguments of `is_timeout`, the `ts`
of the row and the uptime, read in either order (`TxTest`, `TxDecide`), each of
the five stores of the clearing (`TxClear`), each load of a comparison (`TxLoad`,
`TxMiss`), the reading of the uptime and the store of `ts` (`TxTouch`, `TxStamp`), and
the two loads of the copy that reach the frame. Loads of a comparison end at the
first that differs, as the rest has no effect; the compiled code keeps their order
only as far as one thread can tell, so the order is that of the source. Histories serve
the properties: `meant` and `lapsed` record whose row the search met and whether its
lease has ended since, `used` that the callback used the row under the sweep between
its two reads, `overrun` the public ports of which `eth_tx_thread` has undone the
last use, `torn` the rows in use that lost their `lte_port` to a store of the sweep.

`Gateway` abstracts the packets and the tables away and keeps the control of the
threads around `lock` and `lte_sock`: a place of `eth_tx_thread` per test, store
and call of its two loops with every `continue` and `break`, and a callback that
is idle, waits, or sends. `recv` fails with EAGAIN or otherwise; the history
`orphaned` says that the first has left `lock` set on the way back to the loop
that waits for it, `overwrote` that a lost test has let both sides in, `ended` that
a session was closed while a frame waited for `lock`.

`ArpCache` has the cache, the callback's updates in one step each, and
`resolve_arp` in the steps between which the callback can run: the sweep's test
for a free row (`Sweep`), its two reads for `is_timeout`, in either order (`Test`,
`Decide`), its store (`Clear`), the comparison of each row (`Load`), the request
(`Ask`), the turns of the waiting loop, and the two loads of the copy from the row found
(`CopyHead`, `CopyTail`: the `memcpy` of six bytes is a word and a half-word on this
processor). Histories serve the properties: `heard` is what each host last sent
with within the lease; `lapsed` says that the lease of the searched host's row has
ended since the search began; `changed`, that the row found got another address
between the two loads; `renewed`, that the row under the sweep was written between its two
reads; `overrun` holds the hosts that were heard into a row which the sweep was about
to clear, or took for overdue because of such a write, so that their fresh row is lost.
That loss costs one more ARP request, no more, and is excluded by name from
`HeardIsKnown` and `KnownHostKept`.

`LteLink` is `nrf91_lte.c`: a place of the main thread per AT command, wait and
test, with `at_cfun_read1` as one piece of code that four callers share (`site`),
its statics `at_status1` and `is_done`, and an answer that the modem gives when it
likes. `notification_handler` takes notifications in order from a queue. The
session of `eth_tx_thread` is in it with its address only (`OpenSession`,
`CloseSession`). The modem attaches when it is on and detaches when it is off
(external), and, bounded by `MaxTrouble` and allowed by `ModemMay`, does three
things unasked: it detaches and attaches again (`SelfDetach`), it loses its
bearer without a DETACH (`Drop`), it leaves CFUN=1 (`FlightMode`). Every failed
command, unanswered question and late notification counts as trouble too. The
histories `strayed` and `missed` name what went wrong since the board started, so
that each property can say which of these it excepts; `takedowns` counts how often
connect switched an attached modem off.

`Checksum` is the three checksum functions of `nrf91_util.c` as the processor
computes them: 32-bit words with end-around carry, half words, an odd byte,
little-endian. Its loops are functions of the number of turns (`Accumulated`), and
the `while` that folds a sum is a function of the sum, so that they can be proved
about. `RfcSum` is the reference, in network order.

`Packets` is what both paths do to the bytes of a packet: `Reassembled` is the
copy of the fragments, `HeaderOK` and `DataOK` the checks, `Resummed` the checksums at the
end. The fields are fewer and shorter than in IP, but are bytes in buffers, so
that offsets, lengths, remains of earlier packets and carries are real. A packet
comes as it was sent or with one byte damaged or missing, from a driver that cuts
the frame into buffers of one size, with or without padding. The table of ports is
a constant (`pmap`), of which `TableAssumption` takes what `PortMap` shows:
`eth_recv_cb` looks a row up by what the client sent, or takes a port that no row
has, and `eth_tx_thread` looks a row up by the protocol, server and destination port
that it received, damaged or not, and drops the packet if there is none.

`AtParser` is `at_res_parse`, one character after the other, with `parse_buf`, and
a reader around it whose `buf` and `is_done` outlive the call. `__at_res_parse` is
one turn; `Parsed`, a function of the number of characters, is the recursion of the
code. `atoi` computes the number from the digits, and `Decimal` writes it in the way
the modem does (external), so that the two are each other's inverse only if
both are right. `doubt` is the history: a response had failed, and no field has been
read since.

`MCPortMap`, `MCPmapRace`, `MCArpCache` and `MCPackets` give the constants their
small sets; `Gateway` and `LteLink` are run directly. `MCPackets` runs `Packets`
and `AtParser` one beside the other, each while the other is untouched: they
share nothing. `PortMapProofs`, `PmapRaceProofs`, `GatewayProofs`, `ArpCacheProofs`,
`LteLinkProofs`, `PacketProofs` (about `Packets` and `Checksum`) and `AtParserProofs`
hold the theorems, and `DataInduction` the induction over numbers and sequences
that the last two share.

Definitions named `..._NoWrap`, `..._Evict` and so on are mistakes on purpose:
each is a plausible slip in the definition it is named after, and `PROJECT.json`
pairs it with the property that notices it.

### Abstractions worth knowing

* Time is counted in ticks modulo `W`. `Tick` may happen between any two steps,
  but not inside a callback, whose few microseconds are one step.
* A packet is what the table looks at: protocol, addresses, ports. Packets that
  fail a check leave no state behind and are left out.
* In `Packets` the table does not change, and its rows are for one server: how
  rows come about is `PortMap`. A packet that finds no row leaves with a port no row
  has, or is dropped (table full). The tests of MAC address, EtherType and ICMP type are
  left out; only what passes them is sent. Fragments of an IP packet are not sent: they
  have no ports, and the code writes a port and a checksum into their data. A UDP
  checksum that is computed as 0 is sent as 0, by the code and by the reference packet,
  where RFC 768 asks for all ones: its receiver takes the datagram for one without
  a checksum. The
  driver's buffers hold the headers and are no longer than `lte_tx_ip_pkt`
  (`PacketAssumption`; Zephyr's default is 128 bytes). With one buffer longer than
  NRF9160_MTU line 185 would count the Ethernet header twice and leave 14 bytes
  uncopied.
* In `LteLink` the commands that configure the modem are one step, and so is the
  first half of each turn of the main loop; none of them is looked at afterwards.
  The fixed sleeps are the time that may pass between any two steps.
* The terminate flags are never set by any code, so no thread ends.
* `ret > sizeof(...)` after `poll` (line 530) cannot hold for one descriptor, and
  is left out; it would keep `lock`.
* `operate_packet_arp` would learn from broadcast requests, but `eth_recv_cb`
  passes it only frames sent to the gateway's own MAC, so this branch is dead.
* When a generator spins, everything of lower priority stops; `spinning` disables
  all but time.

## 3. Runs

| Run | Instance | Question | Result |
|---|---|---|---|
| `PortMapGateway` | 2 rows, lease 2, W 5, UDP and echo, 3 clients, 1 server, 2 identifiers | does a reply within the lease find its row (`ReplyRoutable`), does no row outlive its traffic (`NoStaleBinding`), does a generator hang only without identifiers (`SpinsOnlyWithoutEchoIds`)? | holds |
| `PortMapApi` | `ApiSpec`, 2 rows, lease 2, W 4, UDP and TCP, 2 clients, 2 servers | one-to-one (`UniqueLtePort`, `UniqueClientKey`), no reply to another client (`NoMisdelivery`), implements `AbstractNat` | holds |
| `PortMapSecondServer` | as the gateway, UDP, 2 servers | `ReplyRoutable` | violated |
| `PortMapEchoIds` | 3 rows, 2 identifiers, echo only | `GeneratorTerminates` | violated |
| `PmapRaceSafe` | 2 rows, lease 2, W 4, echo with 2 identifiers, 2 clients, 1 server | is no identifier given to two clients (`NoSharedPort`), is a mapping lost only if its client used it between two accesses to its row (`MappingSurvives`), does a reply go astray only if the lease of its row ended (`DeliveryNeedsLapse`)? | holds |
| `PmapRaceSweep` | 2 rows, lease 3, W 5, UDP | `MappingKept` | violated |
| `GatewayLocks` | `recv` fails hard and with EAGAIN | `NoOrphanLock`, `ExclusionUnlessOverwritten`, `WaitsInSession`, `NoSocketLeak`, `FrameCompletes`, `GatewayRecovers`, `SocketReleased` | holds |
| `ArpCacheRoom` | 2 hosts, 1 MAC, 2 rows, lease 2, W 4 | a host heard is known (`HeardIsKnown`), `resolve_arp` returns (`ResolveReturns`) | holds |
| `ArpCacheFull` | 3 hosts, 2 MACs, 2 rows, lease 2, W 4 | `UniqueIp`, `WrongMacNeedsLapse`, `KnownHostKept` | holds |
| `LteLink` | 2 addresses, 2 troubles of any kind | is the stamp the modem's address (`StampCurrent`), does a session notice another one (`SessionCurrent`), is an attached modem taken down at most once for a stale status (`StaleTakedownOnce`), has it stopped at a reset (`ResetsDetached`), does the gateway come to forward for good (`ComesUp`)? | holds, with the exceptions named in each |
| `LteLinkDetach` | 1 trouble, a detach by the network | `LinkComesBack` | violated |
| `Packets` | bytes of 16 values, MTU 13, 2 rows, 1 free port, buffers of 8 and 13, payloads of 0 to 4 bytes; responses of 1 or 2 fields | `SumsAgree`, `ForwardedWhole`, `SentVerifies`, `DamageContained`; `ReadsBack` | holds |

### Why these bounds are enough

Two rows and two clients are the least for which two rows can clash, a row can be
taken over and a table can be full; three clients for two identifiers and three
hosts for two ARP rows make the limits bite. A lease of two ticks lets rows of
different ages live together and be renewed in the middle; `W` exceeds the lease
by at least two so that the counter wraps while rows are live, on both branches
of `is_timeout`. With `SEQ_FACTOR` 1 the generators wrap after three ports and
meet ports in use. The relations between the constants are those of the source
(more ports than rows, the lease less than the modulus), except that
`PortMapGateway` has as many echo identifiers as rows: there the generator, which
runs before the table is asked for room, hangs on a full table, where 2048 rows
and 256 identifiers let it hang well before; `PortMapEchoIds` has fewer
identifiers than rows. The theorems take over where the bounds stop.

`PortMapApi` and the runs of `PmapRace` identify states by `Ages`, which replaces
times by their distance from `uptime` and forgets the `ts` of free rows and `quiet`. All
comparisons of times are of such distances, so states with the same view behave
alike; the view of `PmapRace` forgets as much of free rows, of a search for an identifier
that no row can have, and of `overrun` where no flow has the port. `PmapRaceSafe` runs without a bound on time, through every wrap of the counter
during a sweep or search. Its protocol is echo because the identifiers start at 0,
the value that a clearing stores; two of them for two rows let a generator meet an
identifier in use, and hang. `W` is two more than the lease, so that an age
that has come out as almost the whole counter is told from one within the lease; the
violation of `MappingKept` has a longer lease, to show that the lease has just begun.

`LteLink` allows two troubles in a run of the program, because the interesting
cases are pairs: a late detach and a second connection, a failure during the
recovery from a drop. Reboots do not give them back, so `ComesUp` speaks of what
happens when they are used up. `takedowns` is counted to one more than
`StaleTakedownOnce` allows.

`Packets` has bytes of 16 values because TLC's integers have 32 bits: a word of
four bytes is then 2^16, and carries out of it happen as they do out of 2^32.
Payloads have every length modulo four around the MTU, two make carries and one
makes the packet too long; the fragments are cut inside and at the end of the
headers. `Hurt` has one position of each kind of field, the destination port among
them; the ports of the two rows are 3 and 11, which one damaged byte turns into each
other, and a third, 13, is free for a packet whose damaged source port has no row. Both ways are explored
with the other's buffer untouched, and after damaged packets nothing follows but
what undamaged ones of one client leave, which is as much as the buffers can hold. The reader
goes on after responses that fail, short ones, and the longest: the ones that
leave something behind.

### What the violations say

* **Second server** (gateway.c:280, 300, 320; pmap.c:59). A client port keeps the
  row of its first server. Packets to a second server leave with the same public
  port, and the answers match no row.
* **Echo identifiers** (gateway.c:94). With 256 live ICMP rows, the next new echo
  keeps the receive thread in an endless loop. The sweep that could free a row
  is not part of the loop.
* **Two reads of a sweep** (pmap.c:31, 23). `eth_tx_thread` reads the uptime, the
  callback uses the row a tick later, the thread reads the row's `ts`: the start
  is now after the present, `is_timeout` takes that for a wrap, and the row that was just
  used is cleared. The same lines are in `arp_cache.c` (42, 28), where the loss costs an
  ARP request. `MappingSurvives`, `HeardIsKnown` and `KnownHostKept` show that this, and the
  overtaking of a sweep or search that has read an old `ts`, is all that can happen.
* **Detach by the network** (nrf91_lte.c:356, 95). `is_cgev_detach_on` stays set
  when the modem attaches again by itself, since the main loop then has no reason
  to call `nrf91_lte_connect`, and nothing else clears it.

Some passing runs except a weakness by name instead of showing it in a run of
its own. `MappingSurvives`: the sweep of `eth_tx_thread` can clear the fields of
a row renewed or filled anew (pmap.c:33), and its search can set the time of a row
back (pmap.c:62). `DeliveryNeedsLapse`: the row found is copied after the search
(gateway.c:656), so that a reply goes to the client that took the row over, but only if
the lease of the row has just ended. `WrongMacNeedsLapse`: the same of an ARP row, and a
frame to an address that is half the old and half the new one of a host that changes its
card between the two loads of the copy (arp_cache.c:126, 186, 93). `DamageContained`: a TCP
segment from LTE with a damaged destination port goes to the client of that port, because
its checksum is not verified, and is then computed anew (gateway.c:606, 681, 710).
`NoSharedPort`: a row given away under such a sweep may be left with
identifier 0 (pmap.c:36). `KnownHostKept` and `HeardIsKnown`: the same sweep in
`arp_cache.c`. `NoOrphanLock`, `FrameCompletes`,
`GatewayRecovers`, `SocketReleased`: after a `recv` that fails with EAGAIN
(gateway.c:539) both directions wait for ever. `ComesUp`: the same as the detach
by the network follows when a detach takes longer than the 10 s of
nrf91_lte.c:116-121; and a session that sleeps through a time without the link
keeps its address. `StampCurrent`: a lost bearer without DETACH leaves the old
address in use. `ForwardedWhole`: UDP without a checksum is dropped from LTE
(gateway.c:600), and for the same reason damage to one is outside
`DamageContained`: what would notice it is a checksum it does not have, so it passes
when it happens to agree with zero. `SentVerifies` and `DamageContained`: what is
damaged on the LAN leaves with right checksums (gateway.c:343-389). `ReadsBack`: the number after a
response that failed.

### Fairness

`Gateway` assumes weak fairness of `eth_tx_thread`, of `eth_rx_thread` and of the
return of `send`, as the scheduler runs threads that can run and modem calls
return. Strong fairness of `RxAcquire` says that a callback which finds `lock`
free again and again takes it once: between two uses of `lock`, `eth_tx_thread`
asks the modem for its address, an AT round trip of many times the microsecond
for which the callback sleeps. Strong fairness of the three modem successes says
that a modem asked for ever answers once; `GatewayRecovers` needs them, no
safety property does. There is no fairness of `LinkChange` or of frames.

`ArpCache` assumes that time passes (`WF` of `Tick`), that `eth_tx_thread` runs
(`WF` of its steps together), and, by strong fairness of `GiveUp`, that a turn of
the waiting loop falls into some period in which the time is over: a turn takes
microseconds, while the difference of the times stays above the timeout until
the counter has wrapped, after 49.7 days less a second. `BoundedSearch`, a bound
in the guard of `Tick`, says the same of one sweep and search: it does not last
until the counter has gone round to the time at which `resolve_arp` began.

`LteLink` assumes weak fairness of the main thread, whose waits are bounded sleeps
and AT commands that return; of `eth_tx_thread`, which looks at the flags and asks
for its address in every turn; of the answer to AT+CFUN?; of the delivery of
notifications; and of a modem that is on to attach and one that is off to detach.
Nothing is fair about troubles, which need not happen, and a wait that ends too
early while the modem is about to speak is a trouble.

`PortMap`, `PmapRace`, `Packets` and `AtParser` promise only safety and have no fairness.

## 4. Proofs

All proofs are of the specifications that TLC runs and use only the named
assumptions on the constants (`PmapAssumption`, `PortWidthAssumption`,
`ArpAssumption`, `RecvAssumption`, `ModemAssumption`, `ByteAssumption`,
`PacketAssumption`, `TableAssumption`, `ResponseAssumption`), which say what the header
files and the driver fix, what `PortMap` shows of the table, and of which characters a
response is made.

**Port mapper** (`PortMapProofs`, about `ApiSpec`, and through `SpecIsApiSpec` about
`Spec`). The inductive invariant is `TypeOK` with `UniqueLtePort` and
`UniqueClientKey`, in the form of one predicate `GoodTable` of a table. Type
correctness does not need the other two, but neither of them is inductive for
the gateway alone: `UniqueClientKey` is kept because `EthNewFlow` runs only after a
search found nothing, `UniqueLtePort` because the generator compares with every
live row of its pool, and both because a sweep between the search and the add
only removes rows. One lemma per table operation (`SweptTable`, `TouchedTable`,
`RemovedTable`, `FilledTable`) says that it keeps `GoodTable`; the step lemmas
cite them. From the invariant follow `TypeCorrect`, `PortsUnique` and
`ClientsUnique`.

`Refinement` proves `ApiSpec => ImplementsNat`. The lemmas on bindings say that a
sweep and a removal drop bindings, a touch changes none and a fill adds one; the
step from there to `AbstractNat`'s `Drop` or `Bind` needs the invariant in both
states.

`UdpTcpGeneratorReturns` and `SpinsOnlyWithoutEchoIdsHolds` are pigeonhole
arguments: different turns give different ports (`TurnsDiffer`, arithmetic modulo
`port_seq_max + 1`), there are more turns than rows, so one turn meets a port
that no row has. For echo the same count is made over the rows of the ICMP pool.

**Traffic** (also `PortMapProofs`). What the table does for the flows of the history. Ages are
differences modulo `W`, and a few facts about them (`Elapsed...`) are all the
arithmetic: an age is zero now, a tick adds one to it until it wraps, and both branches of
`is_timeout` compare it with the lease. `FlowInv` says that each flow in its lease has a row
of its own (`Owned`), as fresh as the flow, with the client and the public port the
server was told: a sweep spares it because it is as fresh, an addition because its
port differs. With `UniqueLtePort` it gives `RepliesReachTheirClient`, for any
number of servers. That the search also *finds* the row needs the server of the
row to be the server that answers, so `RepliesAreRouted` and `MappingsEndWithTraffic`
assume `SingleServer`: the repository's README has one server ("communicate with
the server via LTE"), and `PortMapSecondServer` shows that with two it is false.
`MappingsEndWithTraffic` is about the other direction, that a row is as old as its
latest flow (`RowInv`), as long as no more than `QuietBound` passes between two sweeps.

**Two threads on the table** (`PmapRaceProofs`). A packet from Ethernet changes the
table in three ways (`EthChange`) and a step of `eth_tx_thread` in three (`TxChange`), one
of them a single store of a clearing; the proofs are about those. A row that is filled
while its clearing is under way loses its fields one by one. Of these only the store of
`lte_port` can make two rows in use alike, and it leaves a 0 and an entry in `torn`:
hence `RacePortsUnique`, for echo identifiers as for ports. `HeldInv` follows the row
that the search has met: until its lease ends it keeps its endpoint, because nothing but
its own client renews it and no sweep of the callback takes it, and the copy becomes that endpoint
field by field; `DeliveryIsLapse` follows, for any number of servers. `MapInv` is
about all flows: each has a row that answers it, is as fresh as it, and is `Safe`
from the sweep, unless `eth_tx_thread` has undone its last use. Safe means that what the
sweep has read so far shows a row in its lease, unless the row was used since: the
arithmetic is that an uptime read, and then overtaken by `ts`, makes the wrapped difference
large, while one that is not overtaken gives the true age. `MappingOutlivesSweep` follows
with `SingleServer`.

**Threads** (`GatewayProofs`). The invariant relates `lock` to the places at which
a thread believes it holds it, unless `overwrote`, and the socket to the place of
`eth_tx_thread`; it gives `Exclusion` and `SocketNotLeaked`. `LockNotOrphaned` has
an invariant of its own, in which a lock that nobody holds is one `orphaned` by an
EAGAIN. `WaitSeesSession` builds on both: `lock` is set by somebody at work or
orphaned, and inside the loop the socket is open.

**LTE link** (`LteLinkProofs`). Three invariants beside `TypeOK`. `ResetInv` follows
a disconnect from place to place: unless one of the exceptions has happened
(`Excused`), a DETACH is under way only while disconnect waits for it, it is the
last notification, and the modem is by then detached; so a wait that has ended
means a modem that has stopped, and it stays off up to the reset. `StampInv` says
that while the main thread serves, notifications are subscribed, and the flag is
set, or the stored address is the modem's, or a DETACH is on its way, or there was
a drop; its difficult step is the delivery of a notification, where the queue
loses its head and the flag takes over. `SessionInv` says the same of `my_addr`,
with the blink, a time without the link that the session did not see, as one more
way to go stale.

**Takedowns** (also `LteLinkProofs`). `StaleTakedownOnce` compares two counters and says
nothing of why; its inductive form does. `Debt`, a function of the state, is the number of
takedowns that may still follow without another failure: an old answer to AT+CFUN?
can cause one, and so can each notification in the queue that is no longer true or that is
heard in place of another. `Pays` says that no step but the reboot lets
`takedowns + Debt` grow by more than it adds to `trouble`; `DebtInv` follows, and bounds the
sum by `trouble + 1`. What a step does to `Debt` depends on the queue through its
length in attachments and its two ends only (`NotesAppend`, `NotesTail`, by counting
positions). Which values of `Debt` a place can have rests on `PathInv`: who called connect and
disconnect and which command was given by then, and that the queue never tells of two
detaches in a row. TLC checked `DebtInv` and the step inequality with three failures
before the proof.

**ARP cache** (`ArpCacheProofs`). All its safety properties. `TypeOK` with
`UniqueIp` is inductive: an update writes to the host's row if it has one, and
only else to a free one. `LeaseInv` adds what relates the rows to the history and
to the place of `eth_tx_thread`: a row of a host heard within the lease holds what
was heard (`RowsAsHeard`), so that it is never overdue (`HeardNotOverdue`, by
arithmetic modulo `W`); the row about to be cleared belongs to no such host,
except one in `overrun`, because what the sweep read of a row that nobody wrote
between its two reads shows the true age, in either order of the reads (`OverdueAsRead`);
behind the sweep no row of the searched host is overdue, and the row found is the
host's, until the lease ends (`SearchInLease`, `HitIsHost`); and between the two loads of
the copy the half that is loaded is still in the row, or the row has `changed`
(`HeadIsRow`). From it follow `KnownKept` and `WrongMacIsLapse`. `HeardFound` adds
`HeardHasRow`, whose step for a new host is a pigeonhole argument (`FreeRow`): if
no row were free, all rows would be taken by fewer other hosts.

**Checksums** (`PacketProofs`). Two sums are `Like` each other if they differ by a
multiple of `M` = 2^16 - 1; `Norm` is the representative that a one's complement sum
has, zero for zero only. Every step of the code keeps the likeness: an addition with
end-around carry, because a word of 32 bits is like the sum of its halves; a fold; the
byte that remains. So `check_ics` is the complement of `Norm` of the sum of all bytes
with their weights (`CheckIcs`), `ip_checksum2` is the same (`IpChecksum`) without ever
leaving its 32 bits (`FoldingFits`), and swapping the two bytes of the result is
multiplying by 2^8 modulo `M`, which is what the other byte order does to every
weight (`ChecksumIsRfc`). The loops are functions on `0..n` and the sums are over
sequences of any length; what is said of all lengths is proved with `DataInduction`.
These theorems hold for every width of a byte, 256 values included, where TLC
has 16.

**Packets** (also `PacketProofs`). `TypeOK` is the whole invariant: each of the other
properties is about one step from any buffers whatever, which is stronger than from
the ones TLC reaches. `ReassembledIs` follows the loop over the fragments: after `k` of
them the buffer starts with what the first `k` hold of the packet, and the rest of it
is as it was. `ResummedIs` says that storing the checksums gives the packet that a host
would have built with the same fields, and `ResummedVerifies` that they are right whatever
the rest is. For `DamageStopped`, a changed byte adds less than `M` to the sum and
not zero, hence changes `Norm` of it (`ChangeSeen`): the damaged header or the damaged
data fails its check. What passes goes by the row of the port that came, which is the
row of the port that was sent unless the damage hit it; a datagram without a checksum and
a TCP segment are the cases in which such damage is not stopped. A packet that comes one byte short is one with a changed byte,
the one that an earlier packet left there. The theorems hold for any payloads, fragment
sizes, buffer length, damaged positions and tables.

**Parser** (`AtParserProofs`). `NumbersReadBack`: `atoi` of what is printed for an
integer is that integer, for all of them. `Value` of a sequence with one more digit is ten
times the value plus the digit (`ValueAppend`), and `Decimal` puts the last digit
behind those of a tenth (`DecimalIs`), which meet by induction on the number.
`ResponsesReadBack` is `ReadsBack` for any numbers and texts, any responses of another form and any
number of fields. The parser is followed character by character: while a field is
read, `parse_buf` begins with what has been read of it, and holds nothing else if it
held nothing before (`Collects`). So a field and the character behind it add to the
list what the modem wrote, whatever was left in `parse_buf`, unless the field is a number
(`FieldParsed`). A text stays right because its length is counted, a number may
be read together with the digits left behind its end, and both leave `parse_buf` empty,
so at most the first number of a response can be wrong (`ResponseParsed`). `ReadsBack` alone is
not inductive: it also takes that something is left in `parse_buf` only if the last
response failed, or an earlier one and all fields since were empty
(`LeftoverDoubted`), and, as `is_done` stays set and a call may parse `buf` once more,
that a response that was read is still at the front of `buf` (`ResponseHeld`). The
first of them rests on what any text whatever does, of the right form or not: the parser
never collects behind the characters that `parse_buf` holds, and where it stops
without failing, `parse_buf` is empty, or as before with only empty fields read
(`TextLeaves`). TLC checked the invariant on the instance of `Packets` before the proof.

**Induction over data** (`DataInduction`). The library's induction theorems take a
predicate as a parameter, which the installed provers cannot instantiate. Here they are
about sets: a set with 0 and every successor holds all naturals (`Induction`), one
with the empty sequence and everything one element longer holds all sequences
(`SequenceInduction`), from which a function defined by recursion has its values
(`Recursion`). All of it follows from the well-foundedness of < on the naturals.

**Only model-checked**: all liveness (`FrameCompletes`, `GatewayRecovers`,
`SocketReleased`, `ResolveReturns`, `ComesUp`), which is beyond this prover. Every
invariant and action property of the passing runs is a theorem. Without `SingleServer`,
`ReplyRoutable`, `NoStaleBinding` and `MappingSurvives` are not theorems: the code looks a reply
up by the server of the row's first packet.

## 5. Not modelled, and the plan

What remains to be done is `Gateway` composed with `LteLink` in place of
`LinkChange`, so that what `send` finds in `lte_sock` (gateway.c:418) is related to the
address of the frame.

Left out for good: `main.c` but for `cbf_main` (initialisation, GPIO), `pmap_status`
(a reading for the log), logging; the readers of `nrf91_at_commands.c` other than
the two modelled, which no code calls or which differ only in the command and the
fields they pick; the timers and string helpers of `nrf91_util.c`, which the
gateway does not use; and the internals of Zephyr and the modem library, among
them the ownership of `net_buf`s after `net_buf_unref` and `net_pkt_unref` on
lines 150-164, which only Zephyr's code decides.
