------------------------------- MODULE PmapRace -------------------------------
(***************************************************************************)
(* The port-mapping table under its two users at the granularity of        *)
(* loads and stores.  eth_recv_cb runs in the network stack's cooperative  *)
(* RX thread: its use of the table is never interrupted by the other side, *)
(* so it is a step of PortMap.  search_pmap_by_server_info and the copy of *)
(* the row it returns run in eth_tx_thread, preemptible at any instruction *)
(* and not protected by `lock'.  A field is a word or less, so it is       *)
(* loaded and stored at once; two fields, or a field and the uptime, never *)
(* are.                                                                    *)
(***************************************************************************)
EXTENDS PortMap, Sequences

VARIABLES
  tx,       \* where eth_tx_thread is, the row it looks at, what it searches
  copy,     \* the static copy of the row found: client_ip and eth_port
  meant,    \* history: the endpoint of the row under the search
  lapsed,   \* history: that row's lease has ended since the search met it
  used,     \* history: the row under the sweep was used between its reads
  overrun,  \* history: public ports whose last use the sweep or the search undid
  torn      \* history: rows that lost their port while they were live

rvars == <<vars, tx, copy, meant, lapsed, used, overrun, torn>>

(* The stores of __gc_pmap and the loads of search_pmap_by_server_info, in *)
(* their order.                                                            *)
Stores == <<"ip_protocol", "server_ip", "client_ip", "lte_port", "eth_port">>
Loads  == <<"ip_protocol", "lte_port", "server_ip">>

Targets == [ip_protocol : Protocols, server_ip : ServerIPs, lte_port : LtePorts]
NoTarget == [ip_protocol |-> NoProto, server_ip |-> NoIP, lte_port |-> 0]

Places == {"idle", "sweep", "test", "ts", "clock", "clear", "load",
           "touch", "stamp", "copy1", "copy2", "deliver"}

RaceTypeOK ==
  /\ TypeOK
  /\ tx \in [at : Places, row : RowIdx, step : 1..5, read : Uptime,
             target : Targets \cup {NoTarget}]
  /\ (tx.at = "idle") <=> (tx.target = NoTarget)
  /\ {copy, meant} \subseteq
       [client_ip : ClientIPs \cup {NoIP}, eth_port : EthPorts \cup {0}]
  /\ lapsed \in BOOLEAN
  /\ used \in BOOLEAN
  /\ overrun \subseteq Protocols \X LtePorts
  /\ torn \subseteq RowIdx

Endpoint(row) == [client_ip |-> row.client_ip, eth_port |-> row.eth_port]
NoCopy == Endpoint(EmptyRow)
Idle   == [at |-> "idle", row |-> 0, step |-> 1, read |-> 0, target |-> NoTarget]

Age(time) == (uptime - time) % W

(* What the servers see of a mapping.                                      *)
Public(row) == <<row.ip_protocol, row.lte_port>>

Target(f) == [ip_protocol |-> f.proto, server_ip |-> f.server, lte_port |-> f.lport]

Matches(row, target) ==
  /\ row.ip_protocol = target.ip_protocol
  /\ row.server_ip = target.server_ip
  /\ row.lte_port = target.lte_port

RaceInit ==
  /\ Init
  /\ tx = Idle
  /\ copy = NoCopy
  /\ meant = NoCopy
  /\ lapsed = FALSE
  /\ used = FALSE
  /\ overrun = {}
  /\ torn = {}

-----------------------------------------------------------------------------
(* eth_tx_thread.  Nothing else of it runs while a generator spins.        *)

TxAt(place) == ~spinning /\ tx.at = place

(* A packet from server for port lport passes the checks.                  *)
TxStart(target) ==
  /\ TxAt("idle")
  /\ tx' = [Idle EXCEPT !.at = "sweep", !.target = target]
  /\ UNCHANGED <<vars, copy, meant, lapsed, used, overrun, torn>>

(* The next row of the sweep, or the first row of the search, which starts *)
(* when the table is swept.                                                *)
NextSwept ==
  LET next == [tx EXCEPT !.step = 1, !.read = 0]
  IN  IF tx.row + 1 \in RowIdx THEN [next EXCEPT !.at = "sweep", !.row = @ + 1]
                               ELSE [next EXCEPT !.at = "load", !.row = 0]

SweepsWhenDone == quiet' = IF tx'.at = "load" /\ quiet <= QuietBound THEN 0 ELSE quiet

(* __gc_pmap skips a free row ...                                          *)
TxSweep ==
  /\ TxAt("sweep")
  /\ tx' = IF Live(pmap[tx.row]) THEN [tx EXCEPT !.at = "test"] ELSE NextSwept
  /\ SweepsWhenDone
  /\ UNCHANGED <<pmap, port_seq, uptime, spinning, flows, copy, meant, lapsed,
                 used, overrun, torn>>

(* ... and calls is_timeout for any other.  C leaves the order of the      *)
(* arguments open: the uptime is read first, or the ts of the row ...      *)
TxTest ==
  /\ TxAt("test")
  /\ \/ tx' = [tx EXCEPT !.at = "ts", !.read = uptime]
     \/ tx' = [tx EXCEPT !.at = "clock", !.read = pmap[tx.row].ts]
  /\ UNCHANGED <<vars, copy, meant, lapsed, used, overrun, torn>>

(* ... then the other one, and the row is cleared if they are a lease      *)
(* apart, whatever happened to it in between.                              *)
TxDecide ==
  LET row     == pmap[tx.row]
      overdue == IF tx.at = "ts" THEN is_timeout(PMAP_TIMEOUT, row.ts, tx.read)
                                 ELSE is_timeout(PMAP_TIMEOUT, tx.read, uptime)
  IN  /\ TxAt("ts") \/ TxAt("clock")
      /\ tx' = IF overdue THEN [tx EXCEPT !.at = "clear", !.read = 0] ELSE NextSwept
      /\ used' = FALSE
      /\ overrun' = IF overdue /\ used /\ Live(row) THEN overrun \cup {Public(row)}
                                                    ELSE overrun
      /\ SweepsWhenDone
      /\ UNCHANGED <<pmap, port_seq, uptime, spinning, flows, copy, meant, lapsed, torn>>

(* The row is cleared a field at a time.                                   *)
TxClear ==
  LET field == Stores[tx.step]
  IN  /\ TxAt("clear")
      /\ pmap' = [pmap EXCEPT ![tx.row] = [@ EXCEPT ![field] = EmptyRow[field]]]
      /\ tx' = IF tx.step < Len(Stores) THEN [tx EXCEPT !.step = @ + 1] ELSE NextSwept
      /\ torn' = IF Live(pmap'[tx.row])
                   THEN IF field = "lte_port" THEN torn \cup {tx.row} ELSE torn
                   ELSE torn \ {tx.row}
      /\ SweepsWhenDone
      /\ UNCHANGED <<port_seq, uptime, spinning, flows, copy, meant, lapsed, used,
                     overrun>>

(* search_pmap_by_server_info loads the fields of a row one after another. *)
Agrees == pmap[tx.row][Loads[tx.step]] = tx.target[Loads[tx.step]]

TxLoad ==
  /\ TxAt("load")
  /\ Agrees
  /\ tx' = IF tx.step < Len(Loads) THEN [tx EXCEPT !.step = @ + 1]
                                   ELSE [tx EXCEPT !.at = "touch", !.step = 1]
  /\ IF tx.step = 1 THEN /\ meant' = Endpoint(pmap[tx.row])
                         /\ lapsed' = (Age(pmap[tx.row].ts) >= PMAP_TIMEOUT)
                    ELSE UNCHANGED <<meant, lapsed>>
  /\ UNCHANGED <<vars, copy, used, overrun, torn>>

(* A field differs: the next row, or the packet is dropped.                *)
TxMiss ==
  /\ TxAt("load")
  /\ ~Agrees
  /\ tx' = IF tx.row + 1 \in RowIdx THEN [tx EXCEPT !.row = @ + 1, !.step = 1] ELSE Idle
  /\ meant' = NoCopy
  /\ lapsed' = FALSE
  /\ UNCHANGED <<vars, copy, used, overrun, torn>>

(* All agree: the thread reads the uptime ...                              *)
TxTouch ==
  /\ TxAt("touch")
  /\ tx' = [tx EXCEPT !.at = "stamp", !.read = uptime]
  /\ UNCHANGED <<vars, copy, meant, lapsed, used, overrun, torn>>

(* ... stores it in the row, which may have been used since, and returns a *)
(* pointer to the row, whatever that has become.                           *)
TxStamp ==
  LET answered == {f \in flows : Matches(pmap[tx.row], Target(f))}
      later    == {f \in answered : Age(f.at) < Age(tx.read)}
  IN  /\ TxAt("stamp")
      /\ pmap' = [pmap EXCEPT ![tx.row].ts = tx.read]
      /\ flows' = (flows \ answered) \cup later
                    \cup {[f EXCEPT !.at = tx.read] : f \in answered \ later}
      /\ overrun' = overrun \cup {<<f.proto, f.lport>> : f \in later}
      /\ lapsed' = (lapsed \/ Age(tx.read) >= PMAP_TIMEOUT)
      /\ tx' = [tx EXCEPT !.at = "copy1", !.read = 0]
      /\ UNCHANGED <<port_seq, uptime, spinning, quiet, copy, meant, used, torn>>

(* memcpy(&row, prow, sizeof(row)), its loads in the order of the fields.  *)
TxCopyClient ==
  /\ TxAt("copy1")
  /\ copy' = [copy EXCEPT !.client_ip = pmap[tx.row].client_ip]
  /\ tx' = [tx EXCEPT !.at = "copy2"]
  /\ UNCHANGED <<vars, meant, lapsed, used, overrun, torn>>

TxCopyPort ==
  /\ TxAt("copy2")
  /\ copy' = [copy EXCEPT !.eth_port = pmap[tx.row].eth_port]
  /\ tx' = [tx EXCEPT !.at = "deliver"]
  /\ UNCHANGED <<vars, meant, lapsed, used, overrun, torn>>

(* The frame is built from the copy and sent.                              *)
TxDeliver ==
  /\ TxAt("deliver")
  /\ tx' = Idle
  /\ copy' = NoCopy
  /\ meant' = NoCopy
  /\ lapsed' = FALSE
  /\ UNCHANGED <<vars, used, overrun, torn>>

-----------------------------------------------------------------------------
(* The callback uses the row of the endpoint it serves, if that has one: a *)
(* use is undone if the row is about to be cleared, or else it makes good  *)
(* what was undone before.                                                 *)
RxPacket ==
  \E proto \in Protocols, client \in ClientIPs, ethPort \in EthPorts :
    LET served  == {i \in RowIdx : IsFirst(i, RowsByClient(pmap', proto, client, ethPort))}
        publics == {Public(pmap'[i]) : i \in served}
    IN  /\ EthPacketFrom(proto, client, ethPort)
        /\ used' = (used \/ (tx.at \in {"ts", "clock"} /\ tx.row \in served))
        /\ overrun' = IF tx.at = "clear" /\ tx.row \in served THEN overrun \cup publics
                                                              ELSE overrun \ publics
        /\ torn' = {i \in torn : Live(Swept[i])}
        /\ UNCHANGED <<tx, copy, meant, lapsed>>

(* The search has met a row and has not done with it.                      *)
Holding == (tx.at = "load" /\ tx.step > 1)
             \/ tx.at \in {"touch", "stamp", "copy1", "copy2", "deliver"}

RaceTick ==
  /\ Tick
  /\ lapsed' = (lapsed \/ (Holding /\ (uptime' - pmap[tx.row].ts) % W >= PMAP_TIMEOUT))
  /\ UNCHANGED <<tx, copy, meant, used, overrun, torn>>

RaceNext ==
  \/ RxPacket
  \/ RaceTick
  \/ \E target \in Targets : TxStart(target)
  \/ TxSweep
  \/ TxTest
  \/ TxDecide
  \/ TxClear
  \/ TxLoad
  \/ TxMiss
  \/ TxTouch
  \/ TxStamp
  \/ TxCopyClient
  \/ TxCopyPort
  \/ TxDeliver

RaceSpec == RaceInit /\ [][RaceNext]_rvars

-----------------------------------------------------------------------------
(* Properties.                                                             *)

(* What a client sent within the lease can be answered: no sweep clears a  *)
(* row that is in use, and the search finds it.                            *)
MappingKept == \A f \in flows : \E i \in RowIdx : Matches(pmap[i], Target(f))

(* A reply reaches another client only if the lease of its own row ended   *)
(* between the first load of the search and the last one of the copy,      *)
(* wherever eth_tx_thread is preempted, with any number of servers.        *)
DeliveryNeedsLapse == tx.at = "deliver" => copy = meant \/ lapsed

(* With one server a mapping is lost within its lease only if the client   *)
(* used it while eth_tx_thread was between two accesses to its row (the    *)
(* reads of a sweep and the stores that follow, or the uptime read and the *)
(* store of a search) and has not sent since.  A sweep that found the row  *)
(* unused, and every other row, never harms it.                            *)
MappingSurvives ==
  \A f \in flows :
    <<f.proto, f.lport>> \notin overrun => \E i \in RowIdx : Matches(pmap[i], Target(f))

(* No public port or echo identifier is given to two clients, even after   *)
(* the stores of a sweep fell on a row that was given away meanwhile: two  *)
(* live rows have the same one only if it is the 0 that such a store left. *)
NoSharedPort ==
  \A i, j \in RowIdx :
    /\ i # j
    /\ Live(pmap[i])
    /\ Live(pmap[j])
    /\ SamePool(pmap[i].ip_protocol, pmap[j].ip_protocol)
    /\ pmap[i].lte_port = pmap[j].lte_port
    => pmap[i].lte_port = 0 /\ {i, j} \cap torn # {}
=============================================================================
