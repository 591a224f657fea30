---------------------------- MODULE PmapRaceProofs ----------------------------
(***************************************************************************)
(* Theorems about PmapRace: what the two users of the table can and cannot *)
(* do to each other, for every table, lease, modulus of the clock and set  *)
(* of addresses and ports, wherever eth_tx_thread is preempted.            *)
(*                                                                         *)
(* The callback changes the table in one of three ways (EthChange), a step *)
(* of eth_tx_thread stores at most one field of one row (TxChange): each   *)
(* theorem says once what such a change keeps.                             *)
(***************************************************************************)
EXTENDS PmapRace, PortMapProofs

-----------------------------------------------------------------------------
(* What a step does to the table.                                          *)

(* A packet from Ethernet sweeps it, and may then use a row or fill one.   *)
Filled(i, row) ==
  /\ ~Live(Swept[i])
  /\ row \in pmap_row_t
  /\ Live(row)
  /\ row.server_ip \in ServerIPs
  /\ row.ts = uptime
  /\ ~is_dup(Swept, row.ip_protocol, row.lte_port)
  /\ pmap' = [Swept EXCEPT ![i] = row]

EthChange ==
  \/ pmap' = Swept
  \/ \E i \in RowIdx : pmap' = Touched(i)
  \/ \E i \in RowIdx, row \in pmap_row_t : Filled(i, row)

(* eth_tx_thread stores one field of one row.                              *)
TxChange ==
  \/ pmap' = pmap
  \/ TxAt("stamp") /\ pmap' = [pmap EXCEPT ![tx.row].ts = tx.read]
  \/ TxAt("clear") /\ pmap' = [pmap EXCEPT ![tx.row] =
                [@ EXCEPT ![Stores[tx.step]] = EmptyRow[Stores[tx.step]]]]

LEMMA TableTypes ==
  ASSUME TypeOK
  PROVE  /\ pmap \in [RowIdx -> pmap_row_t]
         /\ Swept \in [RowIdx -> pmap_row_t]
         /\ uptime \in Uptime
         /\ RestOK
         /\ \A i \in RowIdx : Live(Swept[i]) => Swept[i] = pmap[i]
<1>1. pmap \in [RowIdx -> pmap_row_t] /\ RestOK
  BY DEF TypeOK, RestOK
<1>2. \A i \in RowIdx : /\ Swept[i] \in pmap_row_t
                         /\ Live(Swept[i]) => Swept[i] = pmap[i]
  BY <1>1, SweptRow, ClearedRow DEF Swept
<1>3. Swept \in [RowIdx -> pmap_row_t]
  BY <1>1, SweptRow, ClearedRow DEF Swept, gc_pmap
<1>4. QED
  BY <1>1, <1>2, <1>3 DEF RestOK

(* A field of a row is emptied, and the others stay.                       *)
Emptied(row, n) == [row EXCEPT ![Stores[n]] = EmptyRow[Stores[n]]]

LEMMA EmptiedRow ==
  ASSUME NEW row \in pmap_row_t, NEW n \in 1..5
  PROVE  /\ Emptied(row, n) \in pmap_row_t
         /\ Live(Emptied(row, n)) =>
              /\ Emptied(row, n).ip_protocol = row.ip_protocol
              /\ Emptied(row, n).lte_port = IF n = 4 THEN 0 ELSE row.lte_port
              /\ Emptied(row, n).server_ip = IF n = 2 THEN NoIP ELSE row.server_ip
              /\ Emptied(row, n).client_ip = IF n = 3 THEN NoIP ELSE row.client_ip
<1>1. n = 1 \/ n = 2 \/ n = 3 \/ n = 4 \/ n = 5
  OBVIOUS
<1>2. CASE n = 1
  <2>1. Emptied(row, n) = [row EXCEPT !.ip_protocol = NoProto]
    BY <1>2 DEF Emptied, Stores, EmptyRow
  <2>2. QED
    BY <1>2, <2>1 DEF pmap_row_t, Live
<1>3. CASE n = 2
  <2>1. Emptied(row, n) = [row EXCEPT !.server_ip = NoIP]
    BY <1>3 DEF Emptied, Stores, EmptyRow
  <2>2. QED
    BY <1>3, <2>1 DEF pmap_row_t, Live
<1>4. CASE n = 3
  <2>1. Emptied(row, n) = [row EXCEPT !.client_ip = NoIP]
    BY <1>4 DEF Emptied, Stores, EmptyRow
  <2>2. QED
    BY <1>4, <2>1 DEF pmap_row_t, Live
<1>5. CASE n = 4
  <2>1. Emptied(row, n) = [row EXCEPT !.lte_port = 0]
    BY <1>5 DEF Emptied, Stores, EmptyRow
  <2>2. QED
    BY <1>5, <2>1 DEF pmap_row_t, Live
<1>6. CASE n = 5
  <2>1. Emptied(row, n) = [row EXCEPT !.eth_port = 0]
    BY <1>6 DEF Emptied, Stores, EmptyRow
  <2>2. QED
    BY <1>6, <2>1 DEF pmap_row_t, Live
<1>7. QED
  BY <1>1, <1>2, <1>3, <1>4, <1>5, <1>6

TxPlace ==
  tx \in [at : Places, row : RowIdx, step : 1..5, read : Uptime,
          target : Targets \cup {NoTarget}]

LEMMA TxChangeType ==
  ASSUME TypeOK, TxPlace, TxChange
  PROVE  pmap' \in [RowIdx -> pmap_row_t]
<1>1. tx.row \in RowIdx /\ tx.step \in 1..5 /\ tx.read \in Uptime
  BY DEF TxPlace
<1>2. pmap[tx.row] \in pmap_row_t
  BY <1>1, TableTypes
<1>3. Emptied(pmap[tx.row], tx.step) \in pmap_row_t
  BY <1>1, <1>2, EmptiedRow
<1>4. CASE pmap' = pmap
  BY <1>4, TableTypes
<1>5. CASE pmap' = [pmap EXCEPT ![tx.row].ts = tx.read]
  BY <1>1, <1>2, <1>5, TableTypes DEF pmap_row_t
<1>6. CASE pmap' = [pmap EXCEPT ![tx.row] = Emptied(@, tx.step)]
  BY <1>1, <1>3, <1>6, TableTypes
<1>7. QED
  BY <1>4, <1>5, <1>6 DEF TxChange, Emptied

LEMMA EthChangeType ==
  ASSUME TypeOK, EthChange
  PROVE  pmap' \in [RowIdx -> pmap_row_t]
<1>1. CASE pmap' = Swept
  BY <1>1, TableTypes
<1>2. CASE \E i \in RowIdx : pmap' = Touched(i)
  BY <1>2, TableTypes DEF Touched, pmap_row_t
<1>3. CASE \E i \in RowIdx, row \in pmap_row_t : Filled(i, row)
  BY <1>3, TableTypes DEF Filled
<1>4. QED
  BY <1>1, <1>2, <1>3 DEF EthChange

(* The row that a packet from Ethernet leaves with, if there is one.       *)
ServedRows(proto, client, ethPort) ==
  {i \in RowIdx : IsFirst(i, RowsByClient(pmap', proto, client, ethPort))}

(* Row i is used for the packet, or filled for it.                         *)
Served(i, proto, client, ethPort, server) ==
  /\ pmap'[i].ip_protocol = proto
  /\ pmap'[i].client_ip = client
  /\ pmap'[i].ts = uptime
  /\ \/ pmap' = Touched(i) /\ Live(Swept[i])
     \/ \E row \in pmap_row_t : Filled(i, row) /\ row.server_ip = server
  /\ flows' = Sent(proto, client, ethPort, server, pmap'[i].lte_port)

LEMMA FirstIsOne ==
  ASSUME NEW S \in SUBSET RowIdx, NEW i \in RowIdx, IsFirst(i, S)
  PROVE  {j \in RowIdx : IsFirst(j, S)} = {i}
<1>1. RowIdx \subseteq Int
  BY DEF RowIdx
<1>2. ASSUME NEW j \in RowIdx, IsFirst(j, S) PROVE j = i
  BY <1>1, <1>2 DEF IsFirst
<1>3. QED
  BY <1>2

LEMMA EthServes ==
  ASSUME TypeOK,
         NEW proto \in Protocols, NEW client \in ClientIPs, NEW ethPort \in EthPorts,
         EthPacketFrom(proto, client, ethPort)
  PROVE  /\ RestOK' /\ uptime' = uptime
         /\ \/ /\ pmap' = Swept /\ flows' = flows
               /\ ServedRows(proto, client, ethPort) = {}
            \/ \E i \in RowIdx, server \in ServerIPs :
                 /\ Served(i, proto, client, ethPort, server)
                 /\ ServedRows(proto, client, ethPort) = {i}
<1>1. RestOK /\ Swept \in [RowIdx -> pmap_row_t] /\ uptime \in Uptime
  BY TableTypes
<1>2. ASSUME NEW server \in ServerIPs,
             EthKnownFlow(proto, client, ethPort, server)
      PROVE  /\ RestOK' /\ uptime' = uptime
             /\ \E i \in RowIdx :
                  /\ Served(i, proto, client, ethPort, server)
                  /\ ServedRows(proto, client, ethPort) = {i}
  <2>1. PICK i \in RowIdx :
          /\ IsFirst(i, RowsByClient(Swept, proto, client, ethPort))
          /\ pmap' = Touched(i)
          /\ flows' = Sent(proto, client, ethPort, server, Swept[i].lte_port)
          /\ Sweeps /\ UNCHANGED <<port_seq, uptime, spinning>>
    BY <1>2 DEF EthKnownFlow
  <2>2. Swept[i].lte_port \in LtePorts
    BY <1>1, LtePortsHasZero DEF pmap_row_t
  <2>3. flows' \subseteq Flow
    BY <1>1, <2>1, <2>2, SentType
  <2>4. RestOK' /\ uptime' = uptime
    BY <1>1, <2>1, <2>3, SweepsType DEF RestOK
  <2>5. \A j \in RowIdx :
          /\ pmap'[j].ip_protocol = Swept[j].ip_protocol
          /\ pmap'[j].client_ip = Swept[j].client_ip
          /\ pmap'[j].eth_port = Swept[j].eth_port
          /\ pmap'[j].lte_port = Swept[j].lte_port
    BY <1>1, <2>1 DEF Touched, pmap_row_t
  <2>6. RowsByClient(pmap', proto, client, ethPort)
          = RowsByClient(Swept, proto, client, ethPort)
    BY <2>5 DEF RowsByClient
  <2>7. RowsByClient(pmap', proto, client, ethPort) \in SUBSET RowIdx
    BY DEF RowsByClient
  <2>8. ServedRows(proto, client, ethPort) = {i}
    BY <2>1, <2>6, <2>7, FirstIsOne DEF ServedRows
  <2>9. /\ Swept[i].ip_protocol = proto /\ Swept[i].client_ip = client
        /\ Live(Swept[i]) /\ pmap'[i].ts = uptime
    BY <1>1, <2>1, ProtocolsAreLive DEF IsFirst, RowsByClient, Live, Touched, pmap_row_t
  <2>10. Served(i, proto, client, ethPort, server)
    BY <2>1, <2>5, <2>9 DEF Served
  <2>11. QED
    BY <2>4, <2>8, <2>10
<1>3. ASSUME NEW server \in ServerIPs,
             EthNewFlow(proto, client, ethPort, server)
      PROVE  /\ RestOK' /\ uptime' = uptime
             /\ \E i \in RowIdx :
                  /\ Served(i, proto, client, ethPort, server)
                  /\ ServedRows(proto, client, ethPort) = {i}
  <2>1. PICK i \in RowIdx, lport \in LtePorts :
          /\ ~Live(Swept[i])
          /\ ~is_dup(Swept, proto, lport)
          /\ RowsByClient(Swept, proto, client, ethPort) = {}
          /\ pmap' = [Swept EXCEPT ![i] =
                       NewRow(proto, client, ethPort, server, lport)]
          /\ flows' = Sent(proto, client, ethPort, server, lport)
          /\ Sweeps /\ uptime' = uptime
          /\ port_seq' \in 0..port_seq_max /\ spinning' = spinning
    BY <1>1, <1>3, NewFlowFills DEF RestOK
  <2> DEFINE row == NewRow(proto, client, ethPort, server, lport)
  <2>2. /\ row \in pmap_row_t /\ row.server_ip \in ServerIPs
        /\ Live(row) /\ row.ts = uptime
        /\ row.ip_protocol = proto /\ row.lte_port = lport
        /\ row.client_ip = client /\ row.eth_port = ethPort
        /\ row.server_ip = server
        /\ row = NewRow(proto, client, ethPort, server, lport)
    BY <1>1, ProtocolsAreLive DEF NewRow, pmap_row_t, Live
  <2> HIDE DEF row
  <2>3. Filled(i, row)
    BY <2>1, <2>2 DEF Filled
  <2>4. pmap'[i] = row /\ \A j \in RowIdx \ {i} : pmap'[j] = Swept[j]
    BY <1>1, <2>1, <2>2
  <2>5. RowsByClient(pmap', proto, client, ethPort) = {i}
    BY <2>1, <2>2, <2>4 DEF RowsByClient
  <2>6. IsFirst(i, {i})
    BY DEF IsFirst, RowIdx
  <2>7. ServedRows(proto, client, ethPort) = {i}
    BY <2>5, <2>6, FirstIsOne DEF ServedRows
  <2>8. Served(i, proto, client, ethPort, server)
    BY <2>1, <2>2, <2>3, <2>4 DEF Served
  <2>9. flows' \subseteq Flow
    BY <1>1, <2>1, SentType
  <2>10. QED
    BY <1>1, <2>1, <2>7, <2>8, <2>9, SweepsType DEF RestOK
<1>4. ASSUME RowsByClient(Swept, proto, client, ethPort) = {}, pmap' = Swept
      PROVE  ServedRows(proto, client, ethPort) = {}
  BY <1>4 DEF ServedRows, IsFirst
<1>5. CASE EthTableFull(proto, client, ethPort)
  <2>1. PICK k \in 1..(port_seq_max + 1) : port_seq' = SeqAfter(port_seq, k)
    BY <1>5 DEF EthTableFull
  <2>2. port_seq' \in 0..port_seq_max
    BY <1>1, <2>1, GeneratedPort DEF RestOK
  <2>3. QED
    BY <1>1, <1>4, <1>5, <2>2, SweepsType DEF EthTableFull, NeedsPort, RestOK
<1>6. CASE EthGeneratorSpins(proto, client, ethPort)
  BY <1>1, <1>4, <1>6, SweepsType DEF EthGeneratorSpins, NeedsPort, RestOK
<1>7. QED
  BY <1>2, <1>3, <1>5, <1>6 DEF EthPacketFrom

LEMMA ServedChange ==
  ASSUME NEW i \in RowIdx, NEW proto, NEW client, NEW ethPort, NEW server,
         Served(i, proto, client, ethPort, server)
  PROVE  EthChange
BY DEF Served, EthChange

(* A step of the callback: what it does to the histories follows from the  *)
(* row that it uses.                                                       *)
Untouched ==
  /\ pmap' = Swept /\ flows' = flows
  /\ overrun' = overrun /\ used' = used

UsedFor(i, server) ==
  /\ \E proto \in Protocols, client \in ClientIPs, ethPort \in EthPorts :
       Served(i, proto, client, ethPort, server)
  /\ used' = (used \/ (tx.at \in {"ts", "clock"} /\ tx.row = i))
  /\ overrun' = IF tx.at = "clear" /\ tx.row = i
                  THEN overrun \cup {Public(pmap'[i])}
                  ELSE overrun \ {Public(pmap'[i])}

LEMMA RxSteps ==
  ASSUME TypeOK, used \in BOOLEAN, RxPacket
  PROVE  /\ RestOK' /\ uptime' = uptime /\ EthChange
         /\ UNCHANGED <<tx, copy, meant, lapsed>>
         /\ torn' = {i \in torn : Live(Swept[i])}
         /\ Untouched \/ \E i \in RowIdx, server \in ServerIPs : UsedFor(i, server)
<1>1. PICK proto \in Protocols, client \in ClientIPs, ethPort \in EthPorts :
        LET served  == ServedRows(proto, client, ethPort)
            publics == {Public(pmap'[i]) : i \in served}
        IN  /\ EthPacketFrom(proto, client, ethPort)
            /\ used' = (used \/ (tx.at \in {"ts", "clock"} /\ tx.row \in served))
            /\ overrun' = IF tx.at = "clear" /\ tx.row \in served
                            THEN overrun \cup publics ELSE overrun \ publics
            /\ torn' = {i \in torn : Live(Swept[i])}
            /\ UNCHANGED <<tx, copy, meant, lapsed>>
  BY DEF RxPacket, ServedRows
<1>2. CASE /\ pmap' = Swept /\ flows' = flows
           /\ ServedRows(proto, client, ethPort) = {}
  <2>1. overrun' = overrun
    BY <1>1, <1>2
  <2>2. used' = used
    BY <1>1, <1>2, Zenon
  <2>3. Untouched /\ EthChange
    BY <1>2, <2>1, <2>2 DEF Untouched, EthChange
  <2>4. QED
    BY <1>1, <2>3, EthServes
<1>3. ASSUME NEW i \in RowIdx, NEW server \in ServerIPs,
             Served(i, proto, client, ethPort, server),
             ServedRows(proto, client, ethPort) = {i}
      PROVE  EthChange /\ UsedFor(i, server)
  <2>1. tx.row \in ServedRows(proto, client, ethPort) <=> tx.row = i
    BY <1>3
  <2>2. {Public(pmap'[j]) : j \in ServedRows(proto, client, ethPort)} = {Public(pmap'[i])}
    BY <1>3
  <2>3. used' = (used \/ (tx.at \in {"ts", "clock"} /\ tx.row = i))
    BY <1>1, <2>1, Zenon
  <2>4. overrun' = IF tx.at = "clear" /\ tx.row = i
                     THEN overrun \cup {Public(pmap'[i])}
                     ELSE overrun \ {Public(pmap'[i])}
    BY <1>1, <2>1, <2>2
  <2>5. QED
    BY <1>3, <2>3, <2>4, ServedChange DEF UsedFor
<1>4. QED
  BY <1>1, <1>2, <1>3, EthServes

-----------------------------------------------------------------------------
(* Types.                                                                  *)

TxNext ==
  \/ \E target \in Targets : TxStart(target)
  \/ TxSweep \/ TxTest \/ TxDecide \/ TxClear \/ TxLoad \/ TxMiss \/ TxTouch
  \/ TxStamp \/ TxCopyClient \/ TxCopyPort \/ TxDeliver

(* The histories of flows after the store of a search.                     *)
LEMMA StampedFlows ==
  ASSUME flows \subseteq Flow, TxPlace, TxStamp
  PROVE  /\ flows' \subseteq Flow
         /\ \A f \in flows' :
              \/ /\ f \in flows
                 /\ ~Matches(pmap[tx.row], Target(f))
              \/ /\ f \in flows
                 /\ <<f.proto, f.lport>> \in overrun'
              \/ \E g \in flows :
                   /\ Matches(pmap[tx.row], Target(g))
                   /\ ~(Age(g.at) < Age(tx.read))
                   /\ Target(f) = Target(g) /\ f.at = tx.read
<1> DEFINE answered == {f \in flows : Matches(pmap[tx.row], Target(f))}
           later    == {f \in answered : Age(f.at) < Age(tx.read)}
<1>1. /\ flows' = (flows \ answered) \cup later
                    \cup {[f EXCEPT !.at = tx.read] : f \in answered \ later}
      /\ overrun' = overrun \cup {<<f.proto, f.lport>> : f \in later}
  BY DEF TxStamp
<1>2. \A f \in flows : /\ [f EXCEPT !.at = tx.read] \in Flow
                        /\ Target([f EXCEPT !.at = tx.read]) = Target(f)
                        /\ [f EXCEPT !.at = tx.read].at = tx.read
  BY DEF TxPlace, Flow, Target
<1>3. ASSUME NEW f \in flows'
      PROVE  /\ f \in Flow
             /\ \/ f \in flows /\ ~Matches(pmap[tx.row], Target(f))
                \/ f \in flows /\ <<f.proto, f.lport>> \in overrun'
                \/ \E g \in flows :
                     /\ Matches(pmap[tx.row], Target(g))
                     /\ ~(Age(g.at) < Age(tx.read))
                     /\ Target(f) = Target(g) /\ f.at = tx.read
  <2>1. CASE f \in flows \ answered
    BY <2>1
  <2>2. CASE f \in later
    BY <1>1, <2>2
  <2>3. CASE f \in {[g EXCEPT !.at = tx.read] : g \in answered \ later}
    <3>1. PICK g \in answered \ later : f = [g EXCEPT !.at = tx.read]
      BY <2>3
    <3>2. g \in flows /\ Matches(pmap[tx.row], Target(g)) /\ ~(Age(g.at) < Age(tx.read))
      BY <3>1
    <3>3. f \in Flow /\ Target(f) = Target(g) /\ f.at = tx.read
      BY <1>2, <3>1, <3>2
    <3>4. QED
      BY <3>2, <3>3
  <2>4. QED
    BY <1>1, <1>3, <2>1, <2>2, <2>3
<1>4. QED
  BY <1>3

LEMMA TxChanges ==
  ASSUME TypeOK, TxPlace, TxNext
  PROVE  TxChange /\ RestOK' /\ uptime' = uptime
<1>1. RestOK
  BY TableTypes
<1> USE DEF TxChange, RestOK, vars
<1>2. ASSUME NEW target, TxStart(target) PROVE TxChange /\ RestOK' /\ uptime' = uptime
  BY <1>1, <1>2 DEF TxStart
<1>3. CASE TxSweep \/ TxDecide \/ TxClear
  <2>1. quiet' \in {quiet, 0}
    BY <1>3 DEF TxSweep, TxDecide, TxClear, SweepsWhenDone
  <2>2. quiet' \in 0..(W + 1)
    BY <1>1, <2>1, SizesAreNat
  <2>3. QED
    BY <1>1, <1>3, <2>2 DEF TxSweep, TxDecide, TxClear
<1>4. CASE TxTest \/ TxLoad \/ TxMiss \/ TxTouch
  BY <1>1, <1>4 DEF TxTest, TxLoad, TxMiss, TxTouch
<1>5. CASE TxStamp
  <2>1. flows' \subseteq Flow
    BY <1>1, <1>5, StampedFlows
  <2>2. QED
    BY <1>1, <1>5, <2>1 DEF TxStamp
<1>6. CASE TxCopyClient \/ TxCopyPort \/ TxDeliver
  BY <1>1, <1>6 DEF TxCopyClient, TxCopyPort, TxDeliver
<1>7. QED
  BY <1>2, <1>3, <1>4, <1>5, <1>6 DEF TxNext

Endpoints == [client_ip : ClientIPs \cup {NoIP}, eth_port : EthPorts \cup {0}]

HistoryOK ==
  /\ copy \in Endpoints /\ meant \in Endpoints
  /\ lapsed \in BOOLEAN /\ used \in BOOLEAN
  /\ overrun \subseteq Protocols \X LtePorts
  /\ torn \subseteq RowIdx

LEMMA RaceTypeParts ==
  RaceTypeOK <=> /\ TypeOK
                 /\ TxPlace
                 /\ (tx.at = "idle") <=> (tx.target = NoTarget)
                 /\ HistoryOK
BY DEF RaceTypeOK, TxPlace, Endpoints, HistoryOK

LEMMA TypeParts == TypeOK <=> pmap \in [RowIdx -> pmap_row_t] /\ RestOK
BY DEF TypeOK, RestOK

LEMMA TargetsAreNot == NoTarget \notin Targets
BY ProtocolsAreLive DEF NoTarget, Targets

LEMMA FirstRow == 0 \in RowIdx /\ RowIdx \subseteq Nat
BY PmapAssumption DEF RowIdx

LEMMA ZeroTime == 0 \in Uptime
BY PmapAssumption DEF Uptime

LEMMA NextSweptIs ==
  ASSUME TxPlace
  PROVE  NextSwept \in [at : {"sweep", "load"}, row : RowIdx, step : {1},
                        read : {0}, target : {tx.target}]
<1> DEFINE next == [tx EXCEPT !.step = 1, !.read = 0]
<1>1. next \in [at : Places, row : RowIdx, step : {1}, read : {0},
                target : {tx.target}]
  BY DEF TxPlace
<1>2. next.row = tx.row
  BY DEF TxPlace
<1>3. NextSwept =
        IF tx.row + 1 \in RowIdx THEN [next EXCEPT !.at = "sweep", !.row = @ + 1]
                                 ELSE [next EXCEPT !.at = "load", !.row = 0]
  BY DEF NextSwept
<1> HIDE DEF next
<1>4. CASE tx.row + 1 \in RowIdx
  <2>1. NextSwept = [next EXCEPT !.at = "sweep", !.row = next.row + 1]
    BY <1>3, <1>4
  <2>2. QED
    BY <1>1, <1>2, <1>4, <2>1
<1>5. CASE tx.row + 1 \notin RowIdx
  <2>1. NextSwept = [next EXCEPT !.at = "load", !.row = 0]
    BY <1>3, <1>5
  <2>2. QED
    BY <1>1, <2>1, FirstRow
<1>6. QED
  BY <1>4, <1>5

(* The steps of eth_tx_thread from place to place.                         *)
LEMMA TxPlaceKept ==
  ASSUME RaceTypeOK, TxNext
  PROVE  /\ TxPlace'
         /\ (tx'.at = "idle") <=> (tx'.target = NoTarget)
<1>1. /\ TxPlace /\ ((tx.at = "idle") <=> (tx.target = NoTarget))
      /\ uptime \in Uptime /\ pmap[tx.row].ts \in Uptime
  <2>1. TxPlace /\ TypeOK /\ ((tx.at = "idle") <=> (tx.target = NoTarget))
    BY RaceTypeParts
  <2>2. pmap[tx.row] \in pmap_row_t /\ uptime \in Uptime
    BY <2>1, TableTypes DEF TxPlace
  <2>3. QED
    BY <2>1, <2>2 DEF pmap_row_t
<1> USE FirstRow, ZeroTime DEF TxPlace, Places, TxAt
<1>2. ASSUME NEW target \in Targets, TxStart(target)
      PROVE  /\ TxPlace'
             /\ (tx'.at = "idle") <=> (tx'.target = NoTarget)
  <2>1. tx' \in [at : {"sweep"}, row : {0}, step : {1}, read : {0}, target : {target}]
    BY <1>2 DEF TxStart, Idle
  <2>2. QED
    BY <2>1, TargetsAreNot
<1>3. CASE TxSweep
  BY <1>1, <1>3, NextSweptIs DEF TxSweep
<1>4. CASE TxTest
  BY <1>1, <1>4 DEF TxTest
<1>5. CASE TxDecide
  <2>1. \/ tx' = NextSwept
        \/ tx' = [tx EXCEPT !.at = "clear", !.read = 0]
    BY <1>5 DEF TxDecide
  <2>2. tx.at # "idle"
    BY <1>5 DEF TxDecide
  <2>3. CASE tx' = NextSwept
    BY <1>1, <2>2, <2>3, NextSweptIs
  <2>4. CASE tx' = [tx EXCEPT !.at = "clear", !.read = 0]
    BY <1>1, <2>2, <2>4
  <2>5. QED
    BY <2>1, <2>3, <2>4
<1>6. CASE TxClear
  <2>1. CASE tx.step < Len(Stores)
    <3>1. Len(Stores) = 5
      BY DEF Stores
    <3>2. tx' = [tx EXCEPT !.step = @ + 1]
      BY <1>6, <2>1 DEF TxClear
    <3>3. QED
      BY <1>1, <1>6, <2>1, <3>1, <3>2 DEF TxClear
  <2>2. CASE ~(tx.step < Len(Stores))
    <3>1. tx' = NextSwept
      BY <1>6, <2>2 DEF TxClear
    <3>2. QED
      BY <1>1, <1>6, <3>1, NextSweptIs DEF TxClear
  <2>3. QED
    BY <2>1, <2>2
<1>7. CASE TxLoad
  <2>1. Len(Loads) = 3
    BY DEF Loads
  <2>2. \/ tx.step < 3 /\ tx' = [tx EXCEPT !.step = @ + 1]
        \/ tx' = [tx EXCEPT !.at = "touch", !.step = 1]
    BY <1>7, <2>1 DEF TxLoad
  <2>3. tx.at = "load"
    BY <1>7 DEF TxLoad
  <2>4. CASE tx.step < 3 /\ tx' = [tx EXCEPT !.step = @ + 1]
    BY <1>1, <2>3, <2>4
  <2>5. CASE tx' = [tx EXCEPT !.at = "touch", !.step = 1]
    <3>1. 1 \in 1..5
      OBVIOUS
    <3>2. QED
      BY <1>1, <2>3, <2>5, <3>1
  <2>6. QED
    BY <2>2, <2>4, <2>5
<1>8. CASE TxMiss
  <2>1. CASE tx.row + 1 \in RowIdx
    <3>1. tx' = [tx EXCEPT !.row = tx.row + 1, !.step = 1] /\ tx.at = "load"
      BY <1>8, <2>1 DEF TxMiss
    <3>2. 1 \in 1..5
      OBVIOUS
    <3>3. QED
      BY <1>1, <2>1, <3>1, <3>2
  <2>2. CASE tx.row + 1 \notin RowIdx
    BY <1>8, <2>2 DEF TxMiss, Idle
  <2>3. QED
    BY <2>1, <2>2
<1>9. CASE TxTouch \/ TxStamp \/ TxCopyClient \/ TxCopyPort
  BY <1>1, <1>9 DEF TxTouch, TxStamp, TxCopyClient, TxCopyPort
<1>10. CASE TxDeliver
  BY <1>10 DEF TxDeliver, Idle
<1>11. QED
  BY <1>2, <1>3, <1>4, <1>5, <1>6, <1>7, <1>8, <1>9, <1>10 DEF TxNext

LEMMA EndpointType ==
  ASSUME NEW row \in pmap_row_t
  PROVE  Endpoint(row) \in Endpoints
BY DEF Endpoint, Endpoints, pmap_row_t

LEMMA PublicType ==
  ASSUME NEW row \in pmap_row_t, Live(row)
  PROVE  Public(row) \in Protocols \X LtePorts
BY LtePortsHasZero DEF Public, pmap_row_t, Live

LEMMA HistoryKept ==
  ASSUME RaceTypeOK, TxNext
  PROVE  HistoryOK'
<1>1. HistoryOK /\ pmap[tx.row] \in pmap_row_t /\ tx.row \in RowIdx /\ flows \subseteq Flow
  BY RaceTypeParts, TableTypes DEF TxPlace, RestOK
<1>2. NoCopy \in Endpoints
  BY EmptyRowType, EndpointType DEF NoCopy
<1>3. Endpoint(pmap[tx.row]) \in Endpoints
  BY <1>1, EndpointType
<1>4. ASSUME NEW target, TxStart(target) PROVE HistoryOK'
  BY <1>1, <1>4 DEF TxStart, HistoryOK
<1>5. CASE TxSweep \/ TxTest \/ TxTouch
  BY <1>1, <1>5 DEF TxSweep, TxTest, TxTouch, HistoryOK
<1>6. CASE TxDecide
  <2> DEFINE overdue ==
        IF tx.at = "ts" THEN is_timeout(PMAP_TIMEOUT, pmap[tx.row].ts, tx.read)
                        ELSE is_timeout(PMAP_TIMEOUT, tx.read, uptime)
  <2>0. overrun' = IF overdue /\ used /\ Live(pmap[tx.row])
                     THEN overrun \cup {Public(pmap[tx.row])} ELSE overrun
    BY <1>6 DEF TxDecide
  <2> HIDE DEF overdue
  <2>1. \/ overrun' = overrun
        \/ Live(pmap[tx.row]) /\ overrun' = overrun \cup {Public(pmap[tx.row])}
    BY <2>0
  <2>2. overrun' \subseteq Protocols \X LtePorts
    BY <1>1, <2>1, PublicType DEF HistoryOK
  <2>3. QED
    BY <1>1, <1>6, <2>2 DEF TxDecide, HistoryOK
<1>7. CASE TxClear
  <2>1. torn' \subseteq torn \cup {tx.row}
    BY <1>7 DEF TxClear
  <2>2. QED
    BY <1>1, <1>7, <2>1 DEF TxClear, HistoryOK
<1>8. CASE TxLoad
  <2>1. meant' \in {meant, Endpoint(pmap[tx.row])}
    BY <1>8 DEF TxLoad
  <2>2. lapsed' \in BOOLEAN
    <3>1. CASE tx.step = 1
      <4>1. lapsed' = (Age(pmap[tx.row].ts) >= PMAP_TIMEOUT)
        BY <1>8, <3>1 DEF TxLoad
      <4>2. QED
        BY <4>1
    <3>2. CASE tx.step # 1
      BY <1>1, <1>8, <3>2 DEF TxLoad, HistoryOK
    <3>3. QED
      BY <3>1, <3>2
  <2>3. QED
    BY <1>1, <1>3, <1>8, <2>1, <2>2 DEF TxLoad, HistoryOK
<1>9. CASE TxMiss \/ TxDeliver
  BY <1>1, <1>2, <1>9 DEF TxMiss, TxDeliver, HistoryOK
<1>10. CASE TxStamp
  <2>1. overrun' \subseteq overrun \cup {<<f.proto, f.lport>> : f \in flows}
    BY <1>10 DEF TxStamp
  <2>2. \A f \in flows : f.proto \in Protocols /\ f.lport \in LtePorts
    BY <1>1 DEF Flow
  <2>3. overrun' \subseteq Protocols \X LtePorts
    BY <1>1, <2>1, <2>2 DEF HistoryOK
  <2>4. lapsed' \in BOOLEAN
    BY <1>10, Zenon DEF TxStamp
  <2>5. QED
    BY <1>1, <1>10, <2>3, <2>4 DEF TxStamp, HistoryOK
<1>11. CASE TxCopyClient \/ TxCopyPort
  BY <1>1, <1>11 DEF TxCopyClient, TxCopyPort, HistoryOK, Endpoints, pmap_row_t
<1>12. QED
  BY <1>4, <1>5, <1>6, <1>7, <1>8, <1>9, <1>10, <1>11 DEF TxNext

LEMMA RaceTypeInit == RaceInit => RaceTypeOK
<1> SUFFICES ASSUME RaceInit PROVE RaceTypeOK
  OBVIOUS
<1>1. TypeOK
  BY InvInit DEF RaceInit, IInv
<1>2. TxPlace /\ ((tx.at = "idle") <=> (tx.target = NoTarget))
  BY FirstRow, ZeroTime DEF RaceInit, Idle, TxPlace, Places
<1>3. NoCopy \in Endpoints
  BY EmptyRowType, EndpointType DEF NoCopy
<1>4. HistoryOK
  BY <1>3 DEF RaceInit, HistoryOK
<1>5. QED
  BY <1>1, <1>2, <1>4, RaceTypeParts

LEMMA RaceTypeKept == RaceTypeOK /\ [RaceNext]_rvars => RaceTypeOK'
<1> SUFFICES ASSUME RaceTypeOK, [RaceNext]_rvars PROVE RaceTypeOK'
  OBVIOUS
<1>1. /\ TypeOK /\ TxPlace /\ ((tx.at = "idle") <=> (tx.target = NoTarget))
      /\ HistoryOK
  BY RaceTypeParts
<1> SUFFICES /\ TypeOK' /\ TxPlace'
             /\ (tx'.at = "idle") <=> (tx'.target = NoTarget)
             /\ HistoryOK'
  BY DEF RaceTypeOK, TxPlace, Endpoints, HistoryOK
<1>2. CASE RxPacket
  <2>1. /\ RestOK' /\ EthChange /\ UNCHANGED <<tx, copy, meant, lapsed>>
        /\ torn' = {i \in torn : Live(Swept[i])}
        /\ Untouched \/ \E i \in RowIdx, server \in ServerIPs : UsedFor(i, server)
    BY <1>1, <1>2, RxSteps DEF HistoryOK
  <2>2. TypeOK'
    BY <1>1, <2>1, EthChangeType DEF TypeOK, RestOK
  <2>3. used' \in BOOLEAN /\ overrun' \subseteq Protocols \X LtePorts
    <3>1. CASE Untouched
      BY <1>1, <3>1 DEF Untouched, HistoryOK
    <3>2. ASSUME NEW i \in RowIdx, NEW server \in ServerIPs, UsedFor(i, server)
          PROVE  used' \in BOOLEAN /\ overrun' \subseteq Protocols \X LtePorts
      <4>1. used' \in BOOLEAN
        BY <3>2, Zenon DEF UsedFor
      <4>2. pmap'[i] \in pmap_row_t /\ pmap'[i].ip_protocol \in Protocols
        BY <2>2, <3>2 DEF UsedFor, Served, TypeOK
      <4>3. Public(pmap'[i]) \in Protocols \X LtePorts
        BY <4>2, PublicType, ProtocolsAreLive DEF Live
      <4>4. QED
        BY <1>1, <3>2, <4>1, <4>3 DEF UsedFor, HistoryOK
    <3>3. QED
      BY <2>1, <3>1, <3>2
  <2>4. torn' \subseteq torn
    BY <2>1
  <2>5. QED
    BY <1>1, <2>1, <2>2, <2>3, <2>4 DEF TxPlace, HistoryOK
<1>3. CASE RaceTick
  <2>1. TypeOK'
    <3>1. uptime' \in Uptime
      BY <1>1, <1>3, SizesAreNat DEF RaceTick, Tick, TypeOK, Uptime
    <3>2. quiet' \in 0..(W + 1)
      BY <1>1, <1>3, SizesAreNat DEF RaceTick, Tick, TypeOK, QuietBound
    <3>3. flows' \subseteq flows
      BY <1>3 DEF RaceTick, Tick
    <3>4. QED
      BY <1>1, <1>3, <3>1, <3>2, <3>3 DEF RaceTick, Tick, TypeOK
  <2>2. lapsed' \in BOOLEAN
    BY <1>3, Zenon DEF RaceTick
  <2>3. QED
    BY <1>1, <1>3, <2>1, <2>2 DEF RaceTick, TxPlace, HistoryOK
<1>4. CASE TxNext
  <2>1. TypeOK'
    BY <1>1, <1>4, TxChanges, TxChangeType DEF TypeOK, RestOK
  <2>2. QED
    BY <1>4, <2>1, TxPlaceKept, HistoryKept
<1>5. CASE UNCHANGED rvars
  BY <1>1, <1>5 DEF rvars, vars, TypeOK, TxPlace, HistoryOK
<1>6. QED
  BY <1>2, <1>3, <1>4, <1>5 DEF RaceNext, TxNext

(* The types of the table survive the two users' stores in any order.      *)
THEOREM RaceTypeCorrect == RaceSpec => []RaceTypeOK
<1>1. QED
  BY RaceTypeInit, RaceTypeKept, PTL DEF RaceSpec

-----------------------------------------------------------------------------
(* Ports.                                                                  *)

(* Of two live rows that have kept their port each has its own, and one    *)
(* that has lost it has 0.                                                 *)
PortsDiffer(t, lost) ==
  /\ \A i, j \in RowIdx :
       /\ i # j
       /\ Live(t[i])
       /\ Live(t[j])
       /\ SamePool(t[i].ip_protocol, t[j].ip_protocol)
       /\ {i, j} \cap lost = {}
       => t[i].lte_port # t[j].lte_port
  /\ \A i \in lost : Live(t[i]) => t[i].lte_port = 0

(* A change makes no two ports equal if the live rows keep their pool, and *)
(* their port unless they lose it.                                         *)
LEMMA PortsStillDiffer ==
  ASSUME NEW s, NEW t, NEW lost, NEW lost2, lost2 \subseteq RowIdx,
         PortsDiffer(s, lost),
         \A i \in RowIdx : Live(t[i]) =>
           /\ t[i].ip_protocol = s[i].ip_protocol
           /\ IF i \in lost2 THEN t[i].lte_port = 0
                             ELSE i \notin lost /\ t[i].lte_port = s[i].lte_port
  PROVE  PortsDiffer(t, lost2)
<1>1. ASSUME NEW i \in RowIdx, NEW j \in RowIdx, i # j, Live(t[i]), Live(t[j]),
             SamePool(t[i].ip_protocol, t[j].ip_protocol),
             {i, j} \cap lost2 = {}
      PROVE  t[i].lte_port # t[j].lte_port
  <2>1. /\ Live(s[i]) /\ Live(s[j])
        /\ SamePool(s[i].ip_protocol, s[j].ip_protocol)
        /\ s[i].lte_port = t[i].lte_port /\ s[j].lte_port = t[j].lte_port
        /\ {i, j} \cap lost = {}
    BY <1>1 DEF Live
  <2>2. QED
    BY <1>1, <2>1 DEF PortsDiffer
<1>2. \A i \in lost2 : Live(t[i]) => t[i].lte_port = 0
  OBVIOUS
<1>3. QED
  BY <1>1, <1>2 DEF PortsDiffer

LEMMA PortsAfterEth ==
  ASSUME TypeOK, torn \subseteq RowIdx, PortsDiffer(pmap, torn), EthChange,
         torn' = {i \in torn : Live(Swept[i])}
  PROVE  PortsDiffer(pmap', torn')
<1>1. PortsDiffer(Swept, torn')
  <2>1. ASSUME NEW i \in RowIdx, Live(Swept[i])
        PROVE  /\ Swept[i].ip_protocol = pmap[i].ip_protocol
               /\ IF i \in torn' THEN Swept[i].lte_port = 0
                    ELSE i \notin torn /\ Swept[i].lte_port = pmap[i].lte_port
    BY <2>1, TableTypes DEF PortsDiffer
  <2>2. QED
    BY <2>1, PortsStillDiffer
<1>2. CASE pmap' = Swept
  BY <1>1, <1>2
<1>3. CASE \E i \in RowIdx : pmap' = Touched(i)
  <2>1. \A i \in RowIdx : /\ pmap'[i].ip_protocol = Swept[i].ip_protocol
                          /\ pmap'[i].lte_port = Swept[i].lte_port
    BY <1>3, TableTypes DEF Touched, pmap_row_t
  <2>2. torn' \subseteq RowIdx
    OBVIOUS
  <2>3. QED
    BY <1>1, <2>1, <2>2 DEF PortsDiffer, Live
<1>4. CASE \E i \in RowIdx, row \in pmap_row_t : Filled(i, row)
  <2>1. PICK n \in RowIdx, row \in pmap_row_t : Filled(n, row)
    BY <1>4
  <2>2. pmap'[n] = row /\ \A i \in RowIdx \ {n} : pmap'[i] = Swept[i]
    BY <2>1, TableTypes DEF Filled
  <2>3. \A i \in RowIdx :
          Live(Swept[i]) /\ SamePool(row.ip_protocol, Swept[i].ip_protocol)
            => Swept[i].lte_port # row.lte_port
    BY <2>1 DEF Filled, is_dup
  <2>4. n \notin torn'
    BY <2>1 DEF Filled
  <2>5. \A p, q : SamePool(p, q) <=> SamePool(q, p)
    BY DEF SamePool
  <2>6. QED
    BY <1>1, <2>2, <2>3, <2>4, <2>5 DEF PortsDiffer
<1>5. QED
  BY <1>2, <1>3, <1>4 DEF EthChange

LEMMA PortsAfterTx ==
  ASSUME RaceTypeOK, PortsDiffer(pmap, torn), TxNext
  PROVE  PortsDiffer(pmap', torn')
<1>1. /\ TypeOK /\ TxPlace /\ torn \subseteq RowIdx
      /\ tx.row \in RowIdx /\ tx.step \in 1..5 /\ pmap[tx.row] \in pmap_row_t
  BY RaceTypeParts, TableTypes DEF TxPlace, HistoryOK
<1>2. CASE TxClear
  <2>1. \A i \in RowIdx :
          pmap'[i] = IF i = tx.row THEN Emptied(pmap[i], tx.step) ELSE pmap[i]
    BY <1>1, <1>2, TableTypes DEF TxClear, Emptied
  <2>2. torn' = IF Live(pmap'[tx.row])
                  THEN IF tx.step = 4 THEN torn \cup {tx.row} ELSE torn
                  ELSE torn \ {tx.row}
    <3>1. Stores[tx.step] = "lte_port" <=> tx.step = 4
      BY <1>1 DEF Stores
    <3>2. QED
      BY <1>2, <3>1 DEF TxClear
  <2>3. ASSUME NEW i \in RowIdx, Live(pmap'[i])
        PROVE  /\ pmap'[i].ip_protocol = pmap[i].ip_protocol
               /\ IF i \in torn' THEN pmap'[i].lte_port = 0
                    ELSE i \notin torn /\ pmap'[i].lte_port = pmap[i].lte_port
    <3>1. CASE i = tx.row
      <4>1. /\ pmap'[i].ip_protocol = pmap[i].ip_protocol
            /\ pmap'[i].lte_port = IF tx.step = 4 THEN 0 ELSE pmap[i].lte_port
        BY <1>1, <2>1, <2>3, <3>1, EmptiedRow
      <4>2. Live(pmap[i])
        BY <2>3, <4>1 DEF Live
      <4>3. QED
        BY <2>2, <2>3, <3>1, <4>1, <4>2 DEF PortsDiffer
    <3>2. CASE i # tx.row
      BY <2>1, <2>2, <2>3, <3>2 DEF PortsDiffer
    <3>3. QED
      BY <3>1, <3>2
  <2>4. torn' \subseteq RowIdx
    BY <1>1, <2>2
  <2>5. QED
    BY <2>3, <2>4, PortsStillDiffer
<1>3. CASE ~TxClear
  <2>1. torn' = torn
    BY <1>3 DEF TxNext, TxStart, TxSweep, TxTest, TxDecide, TxLoad, TxMiss, TxTouch,
                TxStamp, TxCopyClient, TxCopyPort, TxDeliver
  <2>2. \A i \in RowIdx : /\ pmap'[i].ip_protocol = pmap[i].ip_protocol
                          /\ pmap'[i].lte_port = pmap[i].lte_port
    <3>1. CASE TxStamp
      <4>1. pmap' = [pmap EXCEPT ![tx.row].ts = tx.read]
        BY <3>1 DEF TxStamp
      <4>2. QED
        BY <4>1, <1>1, TableTypes DEF pmap_row_t
    <3>2. CASE ~TxStamp
      <4>1. pmap' = pmap
        BY <1>3, <3>2 DEF TxNext, TxStart, TxSweep, TxTest, TxDecide, TxLoad,
                TxMiss, TxTouch, TxCopyClient, TxCopyPort, TxDeliver, vars
      <4>2. QED
        BY <4>1
    <3>3. QED
      BY <3>1, <3>2
  <2>3. QED
    BY <1>1, <2>1, <2>2 DEF PortsDiffer, Live
<1>4. QED
  BY <1>2, <1>3

(* Even when a sweep of eth_tx_thread is overtaken and clears a row that   *)
(* was given away meanwhile, no public port or echo identifier is given to *)
(* two clients.                                                            *)
THEOREM RacePortsUnique == RaceSpec => []NoSharedPort
<1>1. RaceInit => PortsDiffer(pmap, torn)
  BY EmptyRowType DEF RaceInit, Init, PortsDiffer
<1>2. RaceTypeOK /\ PortsDiffer(pmap, torn) /\ [RaceNext]_rvars
        => PortsDiffer(pmap, torn)'
  <2> SUFFICES ASSUME RaceTypeOK, PortsDiffer(pmap, torn), [RaceNext]_rvars
               PROVE  PortsDiffer(pmap', torn')
    BY DEF PortsDiffer
  <2>1. TypeOK /\ TxPlace /\ HistoryOK
    BY RaceTypeParts
  <2>2. CASE RxPacket
    BY <2>1, <2>2, RxSteps, PortsAfterEth DEF HistoryOK
  <2>3. CASE TxNext
    BY <2>3, PortsAfterTx
  <2>4. CASE RaceTick \/ UNCHANGED rvars
    BY <2>4 DEF RaceTick, Tick, rvars, vars
  <2>5. QED
    BY <2>2, <2>3, <2>4 DEF RaceNext, TxNext
<1>3. RaceTypeOK /\ PortsDiffer(pmap, torn) => NoSharedPort
  BY DEF NoSharedPort, PortsDiffer
<1>4. QED
  BY <1>1, <1>2, <1>3, RaceTypeCorrect, PTL DEF RaceSpec

-----------------------------------------------------------------------------
(* Deliveries.                                                             *)

(* A row whose lease has not ended since the search met it is still the    *)
(* row that it met, and the copy becomes its endpoint field by field.      *)
HeldInv ==
  Holding /\ ~lapsed =>
    /\ Live(pmap[tx.row])
    /\ Endpoint(pmap[tx.row]) = meant
    /\ Elapsed(pmap[tx.row].ts, uptime) < PMAP_TIMEOUT
    /\ tx.at \in {"copy2", "deliver"} => copy.client_ip = meant.client_ip
    /\ tx.at = "deliver" => copy.eth_port = meant.eth_port

LEMMA InLease ==
  ASSUME TypeOK, NEW i \in RowIdx, Live(pmap[i]),
         Elapsed(pmap[i].ts, uptime) < PMAP_TIMEOUT
  PROVE  /\ ~is_timeout(PMAP_TIMEOUT, pmap[i].ts, uptime)
         /\ Swept[i] = pmap[i]
<1>1. pmap[i] \in pmap_row_t /\ uptime \in Uptime
  BY TableTypes
<1>2. pmap[i].ts \in Uptime
  BY <1>1 DEF pmap_row_t
<1>3. Elapsed(pmap[i].ts, uptime) \in Int /\ PMAP_TIMEOUT \in Int
  BY <1>1, <1>2, ElapsedType, SizesAreNat
<1>4. ~is_timeout(PMAP_TIMEOUT, pmap[i].ts, uptime)
  BY <1>1, <1>2, <1>3, TimeoutIsAge
<1>5. QED
  BY <1>4 DEF Swept, gc_pmap

LEMMA LeaseStarts == ASSUME TypeOK PROVE Elapsed(uptime, uptime) = 0 /\ 0 < PMAP_TIMEOUT
BY TableTypes, ElapsedNow, PmapAssumption

LEMMA AgeIsElapsed == \A time : Age(time) = Elapsed(time, uptime)
BY DEF Age, Elapsed

(* The callback does not change what a live row that is in its lease maps. *)
LEMMA EthSpares ==
  ASSUME TypeOK, EthChange, uptime' = uptime, NEW i \in RowIdx, Live(pmap[i]),
         Elapsed(pmap[i].ts, uptime) < PMAP_TIMEOUT
  PROVE  /\ Live(pmap'[i])
         /\ BindingOf(pmap'[i]) = BindingOf(pmap[i])
         /\ Elapsed(pmap'[i].ts, uptime') < PMAP_TIMEOUT
<1>1. Swept[i] = pmap[i] /\ Swept \in [RowIdx -> pmap_row_t]
  BY InLease, TableTypes
<1>2. CASE pmap' = Swept
  BY <1>1, <1>2
<1>3. CASE \E n \in RowIdx : pmap' = Touched(n)
  <2>1. /\ pmap'[i].ip_protocol = pmap[i].ip_protocol
        /\ pmap'[i].client_ip = pmap[i].client_ip
        /\ pmap'[i].eth_port = pmap[i].eth_port
        /\ pmap'[i].server_ip = pmap[i].server_ip
        /\ pmap'[i].lte_port = pmap[i].lte_port
        /\ pmap'[i].ts \in {pmap[i].ts, uptime}
    BY <1>1, <1>3 DEF Touched, pmap_row_t
  <2>2. QED
    BY <2>1, LeaseStarts DEF Live, BindingOf
<1>4. CASE \E n \in RowIdx, row \in pmap_row_t : Filled(n, row)
  <2>1. pmap'[i] = pmap[i]
    BY <1>1, <1>4 DEF Filled
  <2>2. QED
    BY <2>1
<1>5. QED
  BY <1>2, <1>3, <1>4 DEF EthChange

LEMMA SameBinding ==
  ASSUME NEW r, NEW q, BindingOf(r) = BindingOf(q)
  PROVE  Endpoint(r) = Endpoint(q)
BY DEF BindingOf, Endpoint

(* The steps of a sweep end before the search meets a row.                 *)
LEMMA NotHolding ==
  ASSUME RaceTypeOK,
         \/ \E target \in Targets : TxStart(target)
         \/ TxSweep \/ TxTest \/ TxDecide \/ TxClear \/ TxMiss \/ TxDeliver
  PROVE  ~Holding'
<1>1. TxPlace
  BY RaceTypeParts
<1>2. NextSwept.at \in {"sweep", "load"} /\ NextSwept.step = 1
  BY <1>1, NextSweptIs
<1> USE DEF Holding, TxPlace, TxAt
<1>3. CASE \E target \in Targets : TxStart(target)
  BY <1>3 DEF TxStart, Idle
<1>4. CASE TxSweep
  BY <1>1, <1>2, <1>4 DEF TxSweep
<1>5. CASE TxTest
  BY <1>1, <1>5 DEF TxTest
<1>6. CASE TxDecide
  <2>1. tx' = NextSwept \/ tx' = [tx EXCEPT !.at = "clear", !.read = 0]
    BY <1>6 DEF TxDecide
  <2>2. [tx EXCEPT !.at = "clear", !.read = 0].at = "clear"
    BY <1>1
  <2>3. tx'.at \in {"sweep", "clear"} \/ (tx'.step = 1 /\ tx'.at = "load")
    BY <1>2, <2>1, <2>2
  <2>4. QED
    BY <2>3
<1>7. CASE TxClear
  <2>1. tx' = NextSwept \/ tx' = [tx EXCEPT !.step = @ + 1]
    BY <1>7 DEF TxClear
  <2>2. [tx EXCEPT !.step = @ + 1].at = "clear"
    BY <1>1, <1>7 DEF TxClear
  <2>3. tx'.at \in {"sweep", "clear"} \/ (tx'.step = 1 /\ tx'.at = "load")
    BY <1>2, <2>1, <2>2
  <2>4. QED
    BY <2>3
<1>8. CASE TxMiss
  <2>1. CASE tx.row + 1 \in RowIdx
    <3>1. tx' = [tx EXCEPT !.row = tx.row + 1, !.step = 1] /\ tx.at = "load"
      BY <1>8, <2>1 DEF TxMiss
    <3>2. tx'.step = 1 /\ tx'.at = "load"
      BY <1>1, <3>1
    <3>3. QED
      BY <3>2
  <2>2. CASE tx.row + 1 \notin RowIdx
    BY <1>8, <2>2 DEF TxMiss, Idle
  <2>3. QED
    BY <2>1, <2>2
<1>9. CASE TxDeliver
  BY <1>9 DEF TxDeliver, Idle
<1>10. QED
  BY <1>3, <1>4, <1>5, <1>6, <1>7, <1>8, <1>9

LEMMA HeldInvInit == RaceInit => HeldInv
BY DEF RaceInit, Idle, HeldInv, Holding

LEMMA HeldInvKept == RaceTypeOK /\ HeldInv /\ [RaceNext]_rvars => HeldInv'
<1> SUFFICES ASSUME RaceTypeOK, HeldInv, [RaceNext]_rvars, Holding', ~lapsed'
             PROVE  HeldInv'
  BY DEF HeldInv
<1>1. /\ TypeOK /\ TxPlace /\ HistoryOK /\ tx.row \in RowIdx
      /\ pmap[tx.row] \in pmap_row_t /\ uptime \in Uptime /\ tx.read \in Uptime
  BY RaceTypeParts, TableTypes DEF TxPlace
<1>2. CASE RxPacket
  <2>1. /\ EthChange /\ uptime' = uptime /\ UNCHANGED <<tx, copy, meant, lapsed>>
    BY <1>1, <1>2, RxSteps DEF HistoryOK
  <2>2. Holding /\ ~lapsed
    BY <2>1 DEF Holding
  <2>3. /\ Live(pmap[tx.row]) /\ Endpoint(pmap[tx.row]) = meant
        /\ Elapsed(pmap[tx.row].ts, uptime) < PMAP_TIMEOUT
    BY <2>2 DEF HeldInv
  <2>4. /\ Live(pmap'[tx.row])
        /\ Endpoint(pmap'[tx.row]) = Endpoint(pmap[tx.row])
        /\ Elapsed(pmap'[tx.row].ts, uptime') < PMAP_TIMEOUT
    BY <1>1, <2>1, <2>3, EthSpares, SameBinding
  <2>5. QED
    BY <2>1, <2>2, <2>3, <2>4 DEF HeldInv
<1>3. CASE RaceTick
  <2>1. UNCHANGED <<pmap, tx, copy, meant>> /\ uptime' \in Uptime
    <3>1. uptime' = (uptime + 1) % W
      BY <1>3 DEF RaceTick, Tick
    <3>2. uptime' \in Uptime
      BY <1>1, <3>1, SizesAreNat DEF Uptime
    <3>3. QED
      BY <1>3, <3>2 DEF RaceTick, Tick
  <2>2. Holding /\ ~lapsed
    BY <1>1, <1>3, <2>1 DEF RaceTick, Holding, HistoryOK
  <2>3. ~(Elapsed(pmap[tx.row].ts, uptime') >= PMAP_TIMEOUT)
    BY <1>3, <2>2 DEF RaceTick, Elapsed
  <2>4. pmap[tx.row].ts \in Uptime
    BY <1>1 DEF pmap_row_t
  <2>5. Elapsed(pmap[tx.row].ts, uptime') \in Int /\ PMAP_TIMEOUT \in Int
    BY <2>1, <2>4, ElapsedType, SizesAreNat
  <2>6. Elapsed(pmap[tx.row].ts, uptime') < PMAP_TIMEOUT
    BY <2>3, <2>5
  <2>7. QED
    BY <2>1, <2>2, <2>6 DEF HeldInv
<1>4. CASE TxLoad
  <2>1. UNCHANGED <<vars, copy>> /\ tx.at = "load"
    BY <1>4 DEF TxLoad, TxAt
  <2>2. tx'.row = tx.row /\ tx'.at \in {"load", "touch"}
    BY <1>1, <1>4 DEF TxLoad, TxAt, TxPlace
  <2>3. CASE tx.step = 1
    <3>1. /\ meant' = Endpoint(pmap[tx.row])
          /\ ~(Elapsed(pmap[tx.row].ts, uptime) >= PMAP_TIMEOUT)
      BY <1>4, <2>3, AgeIsElapsed DEF TxLoad
    <3>2. pmap[tx.row].ts \in Uptime
      BY <1>1 DEF pmap_row_t
    <3>3. Elapsed(pmap[tx.row].ts, uptime) < PMAP_TIMEOUT
      BY <1>1, <3>1, <3>2, ElapsedType, SizesAreNat
    <3>4. pmap[tx.row].ip_protocol = tx.target.ip_protocol
      BY <1>4, <2>3 DEF TxLoad, Agrees, Loads
    <3>5. tx.target \in Targets
      BY <1>1, <2>1, RaceTypeParts DEF TxPlace
    <3>6. Live(pmap[tx.row])
      BY <3>4, <3>5, ProtocolsAreLive DEF Targets, Live
    <3>7. QED
      BY <2>1, <2>2, <3>1, <3>3, <3>6 DEF HeldInv, vars
  <2>4. CASE tx.step # 1
    <3>1. UNCHANGED <<meant, lapsed>>
      BY <1>4, <2>4 DEF TxLoad
    <3>2. Holding /\ ~lapsed
      BY <1>1, <2>1, <2>4, <3>1 DEF Holding, TxPlace
    <3>3. QED
      BY <2>1, <2>2, <3>1, <3>2 DEF HeldInv, vars
  <2>5. QED
    BY <2>3, <2>4
<1>5. CASE TxTouch
  <2>1. /\ UNCHANGED <<vars, copy, meant, lapsed>> /\ tx.at = "touch"
        /\ tx'.row = tx.row /\ tx'.at = "stamp"
    BY <1>1, <1>5 DEF TxTouch, TxAt, TxPlace
  <2>2. QED
    BY <2>1 DEF HeldInv, Holding, vars
<1>6. CASE TxStamp
  <2>1. /\ UNCHANGED <<uptime, copy, meant>> /\ tx.at = "stamp"
        /\ tx'.row = tx.row /\ tx'.at = "copy1"
        /\ pmap' = [pmap EXCEPT ![tx.row].ts = tx.read]
    BY <1>1, <1>6 DEF TxStamp, TxAt, TxPlace
  <2>2. ~lapsed /\ ~(Age(tx.read) >= PMAP_TIMEOUT)
    BY <1>6 DEF TxStamp
  <2>3. Elapsed(tx.read, uptime) < PMAP_TIMEOUT
    BY <1>1, <2>2, AgeIsElapsed, ElapsedType, SizesAreNat
  <2>4. /\ Live(pmap[tx.row]) /\ Endpoint(pmap[tx.row]) = meant
    BY <2>1, <2>2 DEF HeldInv, Holding
  <2>5. /\ pmap'[tx.row].ip_protocol = pmap[tx.row].ip_protocol
        /\ pmap'[tx.row].client_ip = pmap[tx.row].client_ip
        /\ pmap'[tx.row].eth_port = pmap[tx.row].eth_port
        /\ pmap'[tx.row].ts = tx.read
    BY <1>1, <2>1, TableTypes DEF pmap_row_t
  <2>6. QED
    BY <2>1, <2>3, <2>4, <2>5 DEF HeldInv, Live, Endpoint
<1>7. CASE TxCopyClient
  <2>1. /\ UNCHANGED <<vars, meant, lapsed>> /\ tx.at = "copy1"
        /\ tx'.row = tx.row /\ tx'.at = "copy2"
        /\ copy'.client_ip = pmap[tx.row].client_ip
    BY <1>1, <1>7 DEF TxCopyClient, TxAt, TxPlace, HistoryOK, Endpoints
  <2>2. /\ Live(pmap[tx.row]) /\ Endpoint(pmap[tx.row]) = meant
        /\ Elapsed(pmap[tx.row].ts, uptime) < PMAP_TIMEOUT
    BY <2>1 DEF HeldInv, Holding
  <2>3. meant.client_ip = pmap[tx.row].client_ip
    BY <2>2 DEF Endpoint
  <2>4. QED
    BY <2>1, <2>2, <2>3 DEF HeldInv, vars
<1>8. CASE TxCopyPort
  <2>1. /\ UNCHANGED <<vars, meant, lapsed>> /\ tx.at = "copy2"
        /\ tx'.row = tx.row /\ tx'.at = "deliver"
        /\ copy'.eth_port = pmap[tx.row].eth_port
        /\ copy'.client_ip = copy.client_ip
    BY <1>1, <1>8 DEF TxCopyPort, TxAt, TxPlace, HistoryOK, Endpoints
  <2>2. /\ Live(pmap[tx.row]) /\ Endpoint(pmap[tx.row]) = meant
        /\ Elapsed(pmap[tx.row].ts, uptime) < PMAP_TIMEOUT
        /\ copy.client_ip = meant.client_ip
    BY <2>1 DEF HeldInv, Holding
  <2>3. meant.eth_port = pmap[tx.row].eth_port
    BY <2>2 DEF Endpoint
  <2>4. QED
    BY <2>1, <2>2, <2>3 DEF HeldInv, vars
<1>9. CASE \/ \E target \in Targets : TxStart(target)
           \/ TxSweep \/ TxTest \/ TxDecide \/ TxClear \/ TxMiss \/ TxDeliver
  BY <1>9, NotHolding
<1>10. CASE UNCHANGED rvars
  BY <1>10 DEF rvars, vars, HeldInv, Holding
<1>11. QED
  BY <1>2, <1>3, <1>4, <1>5, <1>6, <1>7, <1>8, <1>9, <1>10 DEF RaceNext

(* A reply reaches another client than the one whose row the search met    *)
(* only if the lease of that row ended meanwhile, with any number of       *)
(* servers.                                                                *)
THEOREM DeliveryIsLapse == RaceSpec => []DeliveryNeedsLapse
<1>1. RaceTypeOK /\ HeldInv => DeliveryNeedsLapse
  <2> SUFFICES ASSUME RaceTypeOK, HeldInv, tx.at = "deliver", ~lapsed
               PROVE  copy = meant
    BY DEF DeliveryNeedsLapse
  <2>1. copy \in Endpoints /\ meant \in Endpoints
    BY RaceTypeParts DEF HistoryOK
  <2>2. copy.client_ip = meant.client_ip /\ copy.eth_port = meant.eth_port
    BY DEF HeldInv, Holding
  <2>3. QED
    BY <2>1, <2>2 DEF Endpoints
<1>2. QED
  BY <1>1, HeldInvInit, HeldInvKept, RaceTypeCorrect, PTL DEF RaceSpec

-----------------------------------------------------------------------------
(* Mappings.                                                               *)

FlowsInLease == \A f \in flows : Elapsed(f.at, uptime) < PMAP_TIMEOUT

(* A row that the callback may find by its client has the server it was    *)
(* made for, unless a sweep is between the stores of these two.            *)
RowsServed ==
  \A i \in RowIdx :
    Live(pmap[i]) /\ pmap[i].client_ip \in ClientIPs =>
      \/ pmap[i].server_ip \in ServerIPs
      \/ tx.at = "clear" /\ tx.row = i /\ tx.step = 3

(* The sweep is not about to clear row i: it has not looked yet, or has    *)
(* read what shows that the row is in its lease, unless the row was used   *)
(* since.                                                                  *)
Safe(i) ==
  tx.row = i =>
    /\ tx.at # "clear"
    /\ tx.at = "ts" /\ ~used => ~is_timeout(PMAP_TIMEOUT, pmap[i].ts, tx.read)
    /\ tx.at = "clock" /\ ~used => tx.read = pmap[i].ts

(* A safe row answers flow f, and was last used no earlier than f.         *)
Owns(i, f) ==
  /\ Matches(pmap[i], Target(f))
  /\ Elapsed(pmap[i].ts, uptime) <= Elapsed(f.at, uptime)
  /\ Safe(i)

FlowsOwned ==
  \A f \in flows :
    <<f.proto, f.lport>> \notin overrun => \E i \in RowIdx : Owns(i, f)

MapInv == FlowsInLease /\ RowsServed /\ FlowsOwned

LEMMA FlowTypes ==
  ASSUME TypeOK, NEW f \in flows
  PROVE  /\ f \in Flow /\ f.at \in Uptime /\ f.proto # NoProto
         /\ f.server \in ServerIPs /\ Elapsed(f.at, uptime) \in Int
BY TableTypes, ProtocolsAreLive, ElapsedType DEF RestOK, Flow

LEMMA OwnerInLease ==
  ASSUME TypeOK, FlowsInLease, NEW f \in flows, NEW i \in RowIdx, Owns(i, f)
  PROVE  /\ Live(pmap[i])
         /\ Elapsed(pmap[i].ts, uptime) < PMAP_TIMEOUT
         /\ ~is_timeout(PMAP_TIMEOUT, pmap[i].ts, uptime)
         /\ Swept[i] = pmap[i]
         /\ Public(pmap[i]) = <<f.proto, f.lport>>
<1>1. Live(pmap[i]) /\ Public(pmap[i]) = <<f.proto, f.lport>>
  BY FlowTypes DEF Owns, Matches, Target, Live, Public
<1>2. pmap[i] \in pmap_row_t /\ uptime \in Uptime
  BY TableTypes
<1>3. Elapsed(pmap[i].ts, uptime) \in Int
  BY <1>2, ElapsedType DEF pmap_row_t
<1>4. Elapsed(pmap[i].ts, uptime) < PMAP_TIMEOUT
  BY <1>3, FlowTypes, SizesAreNat DEF Owns, FlowsInLease
<1>5. QED
  BY <1>1, <1>4, InLease

(* After a step of the callback that uses no row.                          *)
LEMMA MapAfterUntouched ==
  ASSUME TypeOK, MapInv, Untouched, uptime' = uptime, tx' = tx
  PROVE  MapInv'
<1>1. \A i \in RowIdx : Live(Swept[i]) => Swept[i] = pmap[i]
  BY TableTypes
<1>2. RowsServed'
  BY <1>1 DEF MapInv, RowsServed, Untouched, Live
<1>3. FlowsInLease'
  BY DEF MapInv, FlowsInLease, Untouched
<1>4. ASSUME NEW f \in flows', <<f.proto, f.lport>> \notin overrun'
      PROVE  \E i \in RowIdx : Owns(i, f)'
  <2>1. f \in flows /\ <<f.proto, f.lport>> \notin overrun
    BY <1>4 DEF Untouched
  <2>2. PICK i \in RowIdx : Owns(i, f)
    BY <2>1 DEF MapInv, FlowsOwned
  <2>3. pmap'[i] = pmap[i] /\ used' = used
    BY <2>1, <2>2, OwnerInLease DEF MapInv, Untouched
  <2>4. QED
    BY <2>2, <2>3 DEF Owns, Safe
<1>5. QED
  BY <1>2, <1>3, <1>4 DEF MapInv, FlowsOwned

(* After a step that uses row i.                                           *)
LEMMA MapAfterUse ==
  ASSUME SingleServer, TypeOK, used \in BOOLEAN, MapInv, uptime' = uptime, tx' = tx,
         NEW i \in RowIdx, NEW server \in ServerIPs, UsedFor(i, server)
  PROVE  MapInv'
<1>1. PICK proto \in Protocols, client \in ClientIPs, ethPort \in EthPorts :
        Served(i, proto, client, ethPort, server)
  BY DEF UsedFor
<1>2. /\ pmap'[i].ip_protocol = proto /\ pmap'[i].client_ip = client
      /\ pmap'[i].ts = uptime
      /\ flows' = Sent(proto, client, ethPort, server, pmap'[i].lte_port)
  BY <1>1 DEF Served
<1>3. /\ Swept \in [RowIdx -> pmap_row_t] /\ uptime \in Uptime
      /\ \A j \in RowIdx : Live(Swept[j]) => Swept[j] = pmap[j]
      /\ \A j \in RowIdx \ {i} : pmap'[j] = Swept[j]
  BY <1>1, TableTypes DEF Served, Touched, Filled
<1>4. \/ /\ Live(Swept[i])
         /\ pmap'[i].lte_port = Swept[i].lte_port
         /\ pmap'[i].ip_protocol = Swept[i].ip_protocol
         /\ pmap'[i].server_ip = Swept[i].server_ip
         /\ pmap'[i].client_ip = Swept[i].client_ip
      \/ ~Live(Swept[i]) /\ pmap'[i].server_ip = server
  <2>1. CASE pmap' = Touched(i) /\ Live(Swept[i])
    BY <1>3, <2>1 DEF Touched, pmap_row_t
  <2>2. CASE \E row \in pmap_row_t : Filled(i, row) /\ row.server_ip = server
    BY <1>3, <2>2 DEF Filled
  <2>3. QED
    BY <1>1, <2>1, <2>2 DEF Served
<1>5. RowsServed'
  <2>1. ASSUME NEW j \in RowIdx, Live(pmap'[j]), pmap'[j].client_ip \in ClientIPs
        PROVE  \/ pmap'[j].server_ip \in ServerIPs
               \/ tx'.at = "clear" /\ tx'.row = j /\ tx'.step = 3
    <3>1. CASE j = i /\ ~Live(Swept[i])
      BY <1>4, <3>1
    <3>2. CASE j # i \/ Live(Swept[i])
      <4>1. /\ Live(pmap[j]) /\ pmap'[j].client_ip = pmap[j].client_ip
            /\ pmap'[j].server_ip = pmap[j].server_ip
        BY <1>3, <1>4, <2>1, <3>2 DEF Live
      <4>2. QED
        BY <2>1, <4>1 DEF MapInv, RowsServed
    <3>3. QED
      BY <3>1, <3>2
  <2>2. QED
    BY <2>1 DEF RowsServed
<1>6. FlowsInLease'
  <2>1. \A f \in flows' : f \in flows \/ f.at = uptime
    BY <1>2 DEF Sent
  <2>2. QED
    BY <2>1, LeaseStarts DEF MapInv, FlowsInLease
<1>7. ASSUME NEW f \in flows', <<f.proto, f.lport>> \notin overrun'
      PROVE  \E j \in RowIdx : Owns(j, f)'
  <2>1. \/ f \in flows
        \/ /\ f.proto = proto /\ f.lport = pmap'[i].lte_port
           /\ f.server = server /\ f.at = uptime
    BY <1>2 DEF Sent
  <2>2. f.server \in ServerIPs /\ f.at \in Uptime
    BY <1>3, <2>1, FlowTypes
  <2>3. CASE <<f.proto, f.lport>> = Public(pmap'[i])
    <3>1. ~(tx.at = "clear" /\ tx.row = i)
      BY <1>7, <2>3 DEF UsedFor
    <3>2. pmap'[i].server_ip \in ServerIPs
      <4>1. CASE Live(Swept[i])
        <5>1. Live(pmap[i]) /\ pmap[i].client_ip \in ClientIPs
              /\ pmap'[i].server_ip = pmap[i].server_ip
          BY <1>2, <1>3, <1>4, <4>1
        <5>2. QED
          BY <3>1, <5>1 DEF MapInv, RowsServed
      <4>2. CASE ~Live(Swept[i])
        BY <1>4, <4>2
      <4>3. QED
        BY <4>1, <4>2
    <3>3. Matches(pmap'[i], Target(f))
      BY <2>2, <2>3, <3>2, SingleServer DEF SingleServer, Matches, Target, Public
    <3>4. Elapsed(pmap'[i].ts, uptime') <= Elapsed(f.at, uptime')
      BY <1>2, <1>3, <2>2, LeaseStarts, ElapsedType
    <3>5. Safe(i)'
      <4>1. tx.row = i /\ tx.at \in {"ts", "clock"} => used'
        BY Zenon DEF UsedFor
      <4>2. QED
        BY <3>1, <4>1 DEF Safe
    <3>6. QED
      BY <3>3, <3>4, <3>5 DEF Owns
  <2>4. CASE <<f.proto, f.lport>> # Public(pmap'[i])
    <3>1. f \in flows /\ <<f.proto, f.lport>> \notin overrun
      BY <1>2, <1>7, <2>1, <2>4 DEF UsedFor, Public
    <3>2. PICK j \in RowIdx : Owns(j, f)
      BY <3>1 DEF MapInv, FlowsOwned
    <3>3. /\ Live(Swept[j]) /\ Swept[j] = pmap[j]
          /\ Public(pmap[j]) = <<f.proto, f.lport>>
      BY <3>1, <3>2, OwnerInLease DEF MapInv
    <3>4. j # i
      BY <1>4, <2>4, <3>3 DEF Public
    <3>5. pmap'[j] = pmap[j]
      BY <1>3, <3>3, <3>4
    <3>6. tx.row = j => used' = used
      BY <3>4 DEF UsedFor
    <3>7. Owns(j, f)'
      BY <3>2, <3>5, <3>6 DEF Owns, Safe
    <3>8. QED
      BY <3>7
  <2>5. QED
    BY <2>3, <2>4
<1>8. QED
  BY <1>5, <1>6, <1>7 DEF MapInv, FlowsOwned

(* After a tick.                                                           *)
LEMMA MapAfterTick == ASSUME TypeOK, MapInv, RaceTick PROVE MapInv'
<1>1. /\ uptime \in Uptime /\ uptime' = (uptime + 1) % W /\ uptime' \in Uptime
      /\ pmap' = pmap /\ tx' = tx /\ used' = used /\ overrun' = overrun
      /\ flows' = {f \in flows : (uptime' - f.at) % W < PMAP_TIMEOUT}
  <2>1. uptime \in Uptime
    BY TableTypes
  <2>2. (uptime + 1) % W \in Uptime
    BY <2>1, SizesAreNat DEF Uptime
  <2>3. QED
    BY <2>1, <2>2 DEF RaceTick, Tick
<1>2. RowsServed'
  BY <1>1 DEF MapInv, RowsServed
<1>3. FlowsInLease'
  BY <1>1 DEF FlowsInLease, Elapsed
<1>4. ASSUME NEW f \in flows', <<f.proto, f.lport>> \notin overrun'
      PROVE  \E i \in RowIdx : Owns(i, f)'
  <2>1. f \in flows
    BY <1>1
  <2>2. PICK i \in RowIdx : Owns(i, f)
    BY <1>1, <1>4, <2>1 DEF MapInv, FlowsOwned
  <2>3. /\ Elapsed(pmap[i].ts, uptime) < PMAP_TIMEOUT
        /\ Elapsed(f.at, uptime) < PMAP_TIMEOUT
        /\ pmap[i].ts \in Uptime /\ f.at \in Uptime
    BY <2>1, <2>2, OwnerInLease, FlowTypes, TableTypes
       DEF MapInv, FlowsInLease, pmap_row_t
  <2>4. /\ Elapsed(pmap[i].ts, uptime) < W - 1 /\ Elapsed(f.at, uptime) < W - 1
        /\ Elapsed(pmap[i].ts, uptime) \in Int /\ Elapsed(f.at, uptime) \in Int
    BY <1>1, <2>3, ElapsedType, PmapAssumption
  <2>5. /\ Elapsed(pmap[i].ts, uptime') = Elapsed(pmap[i].ts, uptime) + 1
        /\ Elapsed(f.at, uptime') = Elapsed(f.at, uptime) + 1
    BY <1>1, <2>3, <2>4, ElapsedTick
  <2>6. Elapsed(pmap[i].ts, uptime') <= Elapsed(f.at, uptime')
    BY <2>2, <2>4, <2>5 DEF Owns
  <2>7. QED
    BY <1>1, <2>2, <2>6 DEF Owns, Safe
<1>5. QED
  BY <1>2, <1>3, <1>4 DEF MapInv, FlowsOwned

(* After a step of eth_tx_thread that changes nothing here, and leaves the *)
(* sweep or has not got to the row's timestamp.                            *)
LEMMA MapAfterLook ==
  ASSUME MapInv, UNCHANGED <<pmap, flows, uptime, overrun>>,
         tx.at # "clear", tx'.at \notin {"ts", "clock", "clear"}
  PROVE  MapInv'
<1>1. \A i \in RowIdx : Safe(i)'
  BY DEF Safe
<1>2. RowsServed' /\ FlowsInLease'
  BY DEF MapInv, RowsServed, FlowsInLease
<1>3. FlowsOwned'
  BY <1>1 DEF MapInv, FlowsOwned, Owns
<1>4. QED
  BY <1>2, <1>3 DEF MapInv

LEMMA TxLooks ==
  ASSUME RaceTypeOK,
         \/ \E target \in Targets : TxStart(target)
         \/ TxSweep \/ TxLoad \/ TxMiss \/ TxTouch
         \/ TxCopyClient \/ TxCopyPort \/ TxDeliver
  PROVE  /\ UNCHANGED <<pmap, flows, uptime, overrun>>
         /\ tx.at # "clear" /\ tx'.at \notin {"ts", "clock", "clear"}
<1>1. TxPlace
  BY RaceTypeParts
<1>2. NextSwept.at \in {"sweep", "load"}
  BY <1>1, NextSweptIs
<1> USE DEF TxPlace, TxAt, vars
<1>3. CASE \E target \in Targets : TxStart(target)
  BY <1>3 DEF TxStart, Idle
<1>4. CASE TxSweep
  BY <1>1, <1>2, <1>4 DEF TxSweep
<1>5. CASE TxLoad
  BY <1>1, <1>5 DEF TxLoad
<1>6. CASE TxMiss
  <2>1. tx' = [tx EXCEPT !.row = @ + 1, !.step = 1] \/ tx' = Idle
    BY <1>6 DEF TxMiss
  <2>2. tx'.at \in {"load", "idle"}
    BY <1>1, <1>6, <2>1 DEF TxMiss, Idle
  <2>3. QED
    BY <1>6, <2>2 DEF TxMiss
<1>7. CASE TxTouch
  BY <1>1, <1>7 DEF TxTouch
<1>8. CASE TxCopyClient \/ TxCopyPort
  BY <1>1, <1>8 DEF TxCopyClient, TxCopyPort
<1>9. CASE TxDeliver
  BY <1>9 DEF TxDeliver, Idle
<1>10. QED
  BY <1>3, <1>4, <1>5, <1>6, <1>7, <1>8, <1>9

(* After the first read of a sweep: what it read shows that the row is in  *)
(* its lease.                                                              *)
LEMMA MapAfterTest == ASSUME TypeOK, TxPlace, MapInv, TxTest PROVE MapInv'
<1>1. /\ UNCHANGED <<pmap, flows, uptime, overrun, used>>
      /\ tx.at = "test" /\ tx'.row = tx.row
      /\ \/ tx'.at = "ts" /\ tx'.read = uptime
         \/ tx'.at = "clock" /\ tx'.read = pmap[tx.row].ts
  BY DEF TxTest, TxPlace, TxAt, vars
<1>2. RowsServed' /\ FlowsInLease'
  BY <1>1 DEF MapInv, RowsServed, FlowsInLease
<1>3. ASSUME NEW f \in flows', <<f.proto, f.lport>> \notin overrun'
      PROVE  \E i \in RowIdx : Owns(i, f)'
  <2>1. PICK i \in RowIdx : Owns(i, f)
    BY <1>1, <1>3 DEF MapInv, FlowsOwned
  <2>2. ~is_timeout(PMAP_TIMEOUT, pmap[i].ts, uptime)
    BY <1>1, <2>1, OwnerInLease DEF MapInv
  <2>3. Safe(i)'
    BY <1>1, <2>2 DEF Safe
  <2>4. QED
    BY <1>1, <2>1, <2>3 DEF Owns
<1>4. QED
  BY <1>2, <1>3 DEF MapInv, FlowsOwned

(* After the decision: a row that is about to be cleared owns nothing.     *)
LEMMA MapAfterDecide ==
  ASSUME TypeOK, TxPlace, used \in BOOLEAN, MapInv, TxDecide
  PROVE  MapInv'
<1> DEFINE overdue ==
      IF tx.at = "ts" THEN is_timeout(PMAP_TIMEOUT, pmap[tx.row].ts, tx.read)
                      ELSE is_timeout(PMAP_TIMEOUT, tx.read, uptime)
<1>1. /\ UNCHANGED <<pmap, flows, uptime>> /\ tx.at \in {"ts", "clock"}
      /\ tx' = IF overdue THEN [tx EXCEPT !.at = "clear", !.read = 0] ELSE NextSwept
      /\ overrun' = IF overdue /\ used /\ Live(pmap[tx.row])
                      THEN overrun \cup {Public(pmap[tx.row])} ELSE overrun
  BY DEF TxDecide, TxAt
<1>2. /\ tx.at = "ts" =>
           (overdue <=> is_timeout(PMAP_TIMEOUT, pmap[tx.row].ts, tx.read))
      /\ tx.at = "clock" => (overdue <=> is_timeout(PMAP_TIMEOUT, tx.read, uptime))
  OBVIOUS
<1> HIDE DEF overdue
<1>3. ~overdue => tx'.at \in {"sweep", "load"}
  BY <1>1, NextSweptIs
<1>4. overdue => tx'.row = tx.row /\ tx'.at = "clear"
  BY <1>1 DEF TxPlace
<1>5. RowsServed' /\ FlowsInLease'
  BY <1>1 DEF MapInv, RowsServed, FlowsInLease
<1>6. ASSUME NEW f \in flows', <<f.proto, f.lport>> \notin overrun'
      PROVE  \E i \in RowIdx : Owns(i, f)'
  <2>1. f \in flows /\ <<f.proto, f.lport>> \notin overrun
    BY <1>1, <1>6
  <2>2. PICK i \in RowIdx : Owns(i, f)
    BY <2>1 DEF MapInv, FlowsOwned
  <2>3. /\ Live(pmap[i]) /\ Public(pmap[i]) = <<f.proto, f.lport>>
        /\ ~is_timeout(PMAP_TIMEOUT, pmap[i].ts, uptime)
    BY <2>1, <2>2, OwnerInLease DEF MapInv
  <2>4. overdue => i # tx.row
    <3>1. CASE used
      BY <1>1, <1>6, <2>3, <3>1
    <3>2. CASE ~used
      BY <1>1, <1>2, <2>2, <2>3, <3>2 DEF Owns, Safe
    <3>3. QED
      BY <3>1, <3>2
  <2>5. Safe(i)'
    BY <1>3, <1>4, <2>4 DEF Safe
  <2>6. QED
    BY <1>1, <2>2, <2>5 DEF Owns
<1>7. QED
  BY <1>5, <1>6 DEF MapInv, FlowsOwned

(* After a store of a sweep.                                               *)
LEMMA MapAfterClear == ASSUME TypeOK, TxPlace, MapInv, TxClear PROVE MapInv'
<1> DEFINE r == tx.row
<1>1. /\ pmap \in [RowIdx -> pmap_row_t] /\ r \in RowIdx /\ tx.step \in 1..5
      /\ pmap' = [pmap EXCEPT ![r] = Emptied(pmap[r], tx.step)]
      /\ UNCHANGED <<flows, uptime, overrun>> /\ tx.at = "clear"
  BY TableTypes DEF TxClear, TxAt, TxPlace, Emptied
<1>2. \/ tx.step < 5 /\ tx' = [tx EXCEPT !.step = @ + 1]
      \/ tx.step = 5 /\ tx'.at \in {"sweep", "load"}
  <2>1. Len(Stores) = 5
    BY DEF Stores
  <2>2. QED
    BY <1>1, <2>1, NextSweptIs DEF TxClear
<1>3. /\ pmap'[r] = Emptied(pmap[r], tx.step)
      /\ \A i \in RowIdx \ {r} : pmap'[i] = pmap[i]
  BY <1>1
<1>4. RowsServed'
  <2>1. ASSUME NEW i \in RowIdx, Live(pmap'[i]), pmap'[i].client_ip \in ClientIPs
        PROVE  \/ pmap'[i].server_ip \in ServerIPs
               \/ tx'.at = "clear" /\ tx'.row = i /\ tx'.step = 3
    <3>1. CASE i # r
      BY <1>3, <2>1, <3>1 DEF MapInv, RowsServed
    <3>2. CASE i = r
      <4>1. pmap[r] \in pmap_row_t /\ NoIP \notin ClientIPs
        BY <1>1, PmapAssumption
      <4>2. /\ tx.step # 3
            /\ pmap'[r].client_ip = pmap[r].client_ip
            /\ tx.step # 2 => pmap'[r].server_ip = pmap[r].server_ip
        BY <1>1, <1>3, <2>1, <3>2, <4>1, EmptiedRow
      <4>3. CASE tx.step = 2
        BY <1>1, <1>2, <3>2, <4>3 DEF TxPlace
      <4>4. CASE tx.step # 2
        <5>1. Live(pmap[r])
          BY <1>1, <1>3, <2>1, <3>2, <4>1, EmptiedRow DEF Live
        <5>2. QED
          BY <2>1, <3>2, <4>2, <4>4, <5>1 DEF MapInv, RowsServed
      <4>5. QED
        BY <4>3, <4>4
    <3>3. QED
      BY <3>1, <3>2
  <2>2. QED
    BY <2>1 DEF RowsServed
<1>5. FlowsInLease'
  BY <1>1 DEF MapInv, FlowsInLease
<1>6. ASSUME NEW f \in flows', <<f.proto, f.lport>> \notin overrun'
      PROVE  \E i \in RowIdx : Owns(i, f)'
  <2>1. PICK i \in RowIdx : Owns(i, f)
    BY <1>1, <1>6 DEF MapInv, FlowsOwned
  <2>2. i # r
    BY <1>1, <2>1 DEF Owns, Safe
  <2>3. Safe(i)'
    BY <1>2, <2>2 DEF Safe, TxPlace
  <2>4. QED
    BY <1>1, <1>3, <2>1, <2>2, <2>3 DEF Owns
<1>7. QED
  BY <1>4, <1>5, <1>6 DEF MapInv, FlowsOwned

(* After the store of a search.                                            *)
LEMMA MapAfterStamp == ASSUME TypeOK, TxPlace, MapInv, TxStamp PROVE MapInv'
<1> DEFINE r == tx.row
<1>1. /\ pmap \in [RowIdx -> pmap_row_t] /\ r \in RowIdx /\ flows \subseteq Flow
      /\ uptime \in Uptime /\ tx.read \in Uptime
      /\ pmap' = [pmap EXCEPT ![r].ts = tx.read] /\ uptime' = uptime
      /\ overrun \subseteq overrun' /\ tx.at = "stamp" /\ tx'.at = "copy1"
  BY TableTypes DEF TxStamp, TxAt, TxPlace, RestOK
<1>2. \A f \in flows' :
        \/ f \in flows /\ ~Matches(pmap[r], Target(f))
        \/ f \in flows /\ <<f.proto, f.lport>> \in overrun'
        \/ \E g \in flows : /\ Matches(pmap[r], Target(g))
                            /\ ~(Age(g.at) < Age(tx.read))
                            /\ Target(f) = Target(g) /\ f.at = tx.read
  BY <1>1, StampedFlows
<1>3. /\ \A i \in RowIdx \ {r} : pmap'[i] = pmap[i]
      /\ pmap'[r].ip_protocol = pmap[r].ip_protocol
      /\ pmap'[r].client_ip = pmap[r].client_ip
      /\ pmap'[r].server_ip = pmap[r].server_ip
      /\ pmap'[r].lte_port = pmap[r].lte_port
      /\ pmap'[r].ts = tx.read
  BY <1>1 DEF pmap_row_t
<1>4. RowsServed'
  <2>1. \A i \in RowIdx : /\ pmap'[i].ip_protocol = pmap[i].ip_protocol
                           /\ pmap'[i].client_ip = pmap[i].client_ip
                           /\ pmap'[i].server_ip = pmap[i].server_ip
    BY <1>3
  <2>2. QED
    BY <1>1, <2>1 DEF MapInv, RowsServed, Live
<1>5. FlowsInLease'
  <2>1. ASSUME NEW g \in flows, ~(Age(g.at) < Age(tx.read))
        PROVE  Elapsed(tx.read, uptime) < PMAP_TIMEOUT
    <3>1. /\ ~(Elapsed(g.at, uptime) < Elapsed(tx.read, uptime))
          /\ Elapsed(g.at, uptime) < PMAP_TIMEOUT
      BY <2>1, AgeIsElapsed DEF MapInv, FlowsInLease
    <3>2. Elapsed(g.at, uptime) \in Int /\ Elapsed(tx.read, uptime) \in Int
      BY <1>1, FlowTypes, ElapsedType
    <3>3. QED
      BY <3>1, <3>2, SizesAreNat
  <2>2. QED
    BY <1>1, <1>2, <2>1 DEF MapInv, FlowsInLease
<1>6. ASSUME NEW f \in flows', <<f.proto, f.lport>> \notin overrun'
      PROVE  \E i \in RowIdx : Owns(i, f)'
  <2>1. CASE f \in flows /\ ~Matches(pmap[r], Target(f))
    <3>1. PICK i \in RowIdx : Owns(i, f)
      BY <1>1, <1>6, <2>1 DEF MapInv, FlowsOwned
    <3>2. pmap'[i] = pmap[i]
      BY <1>3, <2>1, <3>1 DEF Owns
    <3>3. QED
      BY <1>1, <3>1, <3>2 DEF Owns, Safe
  <2>2. CASE \E g \in flows : /\ Matches(pmap[r], Target(g))
                              /\ Target(f) = Target(g) /\ f.at = tx.read
    <3>1. Matches(pmap'[r], Target(f))
      BY <1>3, <2>2 DEF Matches
    <3>2. Elapsed(pmap'[r].ts, uptime') <= Elapsed(f.at, uptime')
      BY <1>1, <1>3, <2>2, ElapsedType
    <3>3. QED
      BY <1>1, <3>1, <3>2 DEF Owns, Safe
  <2>3. QED
    BY <1>2, <1>6, <2>1, <2>2
<1>7. QED
  BY <1>4, <1>5, <1>6 DEF MapInv, FlowsOwned

LEMMA MapInvInit == RaceInit => MapInv
BY EmptyRowType
   DEF RaceInit, Init, MapInv, FlowsInLease, RowsServed, FlowsOwned

LEMMA MapInvKept == SingleServer /\ RaceTypeOK /\ MapInv /\ [RaceNext]_rvars => MapInv'
<1> SUFFICES ASSUME SingleServer, RaceTypeOK, MapInv, [RaceNext]_rvars PROVE MapInv'
  OBVIOUS
<1>1. TypeOK /\ TxPlace /\ used \in BOOLEAN
  BY RaceTypeParts DEF HistoryOK
<1>2. CASE RxPacket
  BY <1>1, <1>2, RxSteps, MapAfterUntouched, MapAfterUse
<1>3. CASE RaceTick
  BY <1>1, <1>3, MapAfterTick
<1>4. CASE TxTest
  BY <1>1, <1>4, MapAfterTest
<1>5. CASE TxDecide
  BY <1>1, <1>5, MapAfterDecide
<1>6. CASE TxClear
  BY <1>1, <1>6, MapAfterClear
<1>7. CASE TxStamp
  BY <1>1, <1>7, MapAfterStamp
<1>8. CASE \/ \E target \in Targets : TxStart(target)
           \/ TxSweep \/ TxLoad \/ TxMiss \/ TxTouch
           \/ TxCopyClient \/ TxCopyPort \/ TxDeliver
  BY <1>8, TxLooks, MapAfterLook
<1>9. CASE UNCHANGED rvars
  BY <1>9 DEF rvars, vars, MapInv, FlowsInLease, RowsServed, FlowsOwned, Owns, Safe
<1>10. QED
  BY <1>2, <1>3, <1>4, <1>5, <1>6, <1>7, <1>8, <1>9 DEF RaceNext

(* With one server a client that sent within the lease can be answered,    *)
(* unless eth_tx_thread undid its last use of its row: wherever that is    *)
(* preempted, a sweep harms no row that was not used under it.             *)
THEOREM MappingOutlivesSweep ==
  ASSUME SingleServer
  PROVE  RaceSpec => []MappingSurvives
<1>1. MapInv => MappingSurvives
  BY DEF MapInv, FlowsOwned, Owns, MappingSurvives
<1>2. SingleServer
  OBVIOUS
<1>3. RaceTypeOK /\ MapInv /\ [RaceNext]_rvars => MapInv'
  BY <1>2, MapInvKept
<1>4. QED
  BY <1>1, <1>3, MapInvInit, RaceTypeCorrect, PTL DEF RaceSpec

=============================================================================
