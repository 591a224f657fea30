---------------------------- MODULE PortMapProofs ----------------------------
(***************************************************************************)
(* Theorems about PortMap, for every size of the table, lease, modulus of  *)
(* the clock and set of clients, servers and ports.                        *)
(*                                                                         *)
(* The inductive invariant is TypeOK together with the two uniqueness      *)
(* properties.  They only depend on each other through the sweep, which    *)
(* clears rows and never changes one, so it is proved first that a swept   *)
(* table keeps them (SweptTable), and then that each way of changing a     *)
(* swept table does: touching a row, clearing a row, filling a free row    *)
(* with a port and an endpoint that no live row has.                       *)
(*                                                                         *)
(* The second half relates the table to the traffic it serves: whom a      *)
(* reply reaches, that it reaches somebody, and that a mapping ends with   *)
(* its traffic.  Its invariants say of each flow of the history that its   *)
(* client has a row, no older than the flow (FlowInv), and of each row, as *)
(* long as the sweeps come in time, that it is as old as its latest flow   *)
(* (RowInv).  What a step does to them depends on ages modulo W only       *)
(* through the four facts about Elapsed.                                   *)
(***************************************************************************)
EXTENDS PortMap, FiniteSetTheorems, TLAPS

(* A table of rows in which ports and endpoints are unique.                *)
GoodTable(t) ==
  /\ t \in [RowIdx -> pmap_row_t]
  /\ \A i, j \in RowIdx :
       /\ i # j
       /\ Live(t[i])
       /\ Live(t[j])
       /\ SamePool(t[i].ip_protocol, t[j].ip_protocol)
       => t[i].lte_port # t[j].lte_port
  /\ \A i, j \in RowIdx :
       i # j /\ Live(t[i]) => ~SameEndpoint(t[i], t[j])

IInv == TypeOK /\ UniqueLtePort /\ UniqueClientKey

-----------------------------------------------------------------------------
(* A sweep leaves a row as it is or clears it.                             *)
LEMMA SweptRow ==
  ASSUME NEW t \in [RowIdx -> pmap_row_t], NEW now, NEW i \in RowIdx
  PROVE  \/ gc_pmap(t, now)[i] = t[i]
         \/ gc_pmap(t, now)[i] = Cleared(t[i])
BY DEF gc_pmap

LEMMA ClearedRow ==
  ASSUME NEW r \in pmap_row_t
  PROVE  Cleared(r) \in pmap_row_t /\ ~Live(Cleared(r))
BY DEF Cleared, EmptyRow, pmap_row_t, Live

LEMMA EmptyRowType == EmptyRow \in pmap_row_t /\ ~Live(EmptyRow)
BY PmapAssumption DEF EmptyRow, pmap_row_t, Live, Uptime

(* No protocol of a packet is the mark of a free row.                      *)
LEMMA ProtocolsAreLive == NoProto \notin Protocols
BY PmapAssumption
   DEF NoProto, IPPROTO_ICMP, IPPROTO_UDP, IPPROTO_TCP

(* What is swept is a good table if it was one before.                     *)
LEMMA SweptTable ==
  ASSUME NEW t, GoodTable(t), NEW now
  PROVE  GoodTable(gc_pmap(t, now))
<1> DEFINE s == gc_pmap(t, now)
<1>1. t \in [RowIdx -> pmap_row_t]
  BY DEF GoodTable
<1>2. \A i \in RowIdx : s[i] \in pmap_row_t /\ (Live(s[i]) => s[i] = t[i])
  BY <1>1, SweptRow, ClearedRow
<1>3. s \in [RowIdx -> pmap_row_t]
  BY <1>2 DEF gc_pmap
<1>4. \A i, j \in RowIdx :
        i # j /\ Live(s[i]) /\ ~Live(s[j]) => ~SameEndpoint(s[i], s[j])
  BY DEF SameEndpoint, Live
<1> SUFFICES GoodTable(s) OBVIOUS
<1> HIDE DEF s
<1>5. QED
  BY <1>2, <1>3, <1>4 DEF GoodTable

(* A new time stamp on a row changes neither its port nor its endpoint.    *)
LEMMA TouchedTable ==
  ASSUME NEW t, GoodTable(t), NEW i \in RowIdx, NEW now \in Uptime
  PROVE  GoodTable([t EXCEPT ![i].ts = now])
<1> DEFINE s == [t EXCEPT ![i].ts = now]
<1>1. t \in [RowIdx -> pmap_row_t]
  BY DEF GoodTable
<1>2. s \in [RowIdx -> pmap_row_t]
  BY <1>1 DEF pmap_row_t
<1>3. \A j \in RowIdx : /\ s[j].ip_protocol = t[j].ip_protocol
                        /\ s[j].client_ip = t[j].client_ip
                        /\ s[j].eth_port = t[j].eth_port
                        /\ s[j].lte_port = t[j].lte_port
  BY <1>1 DEF pmap_row_t
<1> SUFFICES GoodTable(s) OBVIOUS
<1> HIDE DEF s
<1>4. QED
  BY <1>2, <1>3 DEF GoodTable, Live, SameEndpoint

(* A row that becomes free takes part in neither property.                 *)
LEMMA RemovedTable ==
  ASSUME NEW t, GoodTable(t), NEW i \in RowIdx
  PROVE  GoodTable([t EXCEPT ![i] = EmptyRow])
<1> DEFINE s == [t EXCEPT ![i] = EmptyRow]
<1>1. t \in [RowIdx -> pmap_row_t]
  BY DEF GoodTable
<1>2. s \in [RowIdx -> pmap_row_t]
  BY <1>1, EmptyRowType
<1>3. \A j \in RowIdx : Live(s[j]) => s[j] = t[j]
  BY <1>1, EmptyRowType
<1>4. \A j, k \in RowIdx :
        Live(s[j]) /\ ~Live(s[k]) => ~SameEndpoint(s[j], s[k])
  BY DEF SameEndpoint, Live
<1> SUFFICES GoodTable(s) OBVIOUS
<1> HIDE DEF s
<1>5. QED
  BY <1>2, <1>3, <1>4 DEF GoodTable

(* add_pmap with a port no live row of the pool has, for an endpoint no    *)
(* row has.                                                                *)
LEMMA FilledTable ==
  ASSUME NEW t, GoodTable(t), NEW i \in RowIdx, ~Live(t[i]),
         NEW r \in pmap_row_t, Live(r),
         ~is_dup(t, r.ip_protocol, r.lte_port),
         RowsByClient(t, r.ip_protocol, r.client_ip, r.eth_port) = {}
  PROVE  GoodTable([t EXCEPT ![i] = r])
<1> DEFINE s == [t EXCEPT ![i] = r]
<1>1. t \in [RowIdx -> pmap_row_t]
  BY DEF GoodTable
<1>2. s \in [RowIdx -> pmap_row_t]
  BY <1>1
<1>3. s[i] = r /\ \A j \in RowIdx \ {i} : s[j] = t[j]
  BY <1>1
<1> SUFFICES GoodTable(s) OBVIOUS
<1> HIDE DEF s
<1>4. ASSUME NEW j \in RowIdx \ {i}
      PROVE  /\ Live(s[j]) /\ SamePool(r.ip_protocol, s[j].ip_protocol)
                => s[j].lte_port # r.lte_port
             /\ ~SameEndpoint(r, s[j])
             /\ ~SameEndpoint(s[j], r)
  BY <1>3, <1>4 DEF is_dup, RowsByClient, SameEndpoint
<1>5. \A j \in RowIdx \ {i} :
        SamePool(s[j].ip_protocol, r.ip_protocol)
        <=> SamePool(r.ip_protocol, s[j].ip_protocol)
  BY DEF SamePool
<1>6. QED
  BY <1>2, <1>3, <1>4, <1>5 DEF GoodTable

-----------------------------------------------------------------------------
(* Ports.                                                                  *)

LEMMA SizesAreNat ==
  /\ port_seq_max \in Nat \ {0}
  /\ W \in Nat \ {0}
  /\ PMAP_TIMEOUT \in Nat
BY PmapAssumption, Z3 DEF port_seq_max

(* A generator yields a port of its pool and leaves port_seq in range.     *)
LEMMA GeneratedPort ==
  ASSUME NEW seq \in 0..port_seq_max, NEW k \in 1..(port_seq_max + 1),
         NEW proto
  PROVE  /\ SeqAfter(seq, k) \in 0..port_seq_max
         /\ Candidate(proto, SeqAfter(seq, k)) \in LtePorts
<1>1. SeqAfter(seq, k) \in 0..port_seq_max
  BY SizesAreNat DEF SeqAfter
<1>2. \A n \in 0..port_seq_max : n % ICMP_IDS \in 0..(ICMP_IDS - 1)
  BY SizesAreNat, PmapAssumption
<1>3. \A n \in 0..port_seq_max :
        n + PORT_SEQ_BASE \in PORT_SEQ_BASE..(PORT_SEQ_BASE + port_seq_max)
  BY SizesAreNat, PmapAssumption
<1>4. QED
  BY <1>1, <1>2, <1>3 DEF Candidate, LtePorts

-----------------------------------------------------------------------------
(* The invariant and the steps.                                            *)

(* The scalars and the history keep their types.                           *)
RestOK ==
  /\ port_seq \in 0..port_seq_max
  /\ uptime \in Uptime
  /\ spinning \in BOOLEAN
  /\ flows \subseteq Flow
  /\ quiet \in 0..(W + 1)

LEMMA InvParts == IInv <=> GoodTable(pmap) /\ RestOK
BY DEF IInv, TypeOK, UniqueLtePort, UniqueClientKey, GoodTable, RestOK

LEMMA SweepsType ==
  ASSUME quiet \in 0..(W + 1), Sweeps
  PROVE  quiet' \in 0..(W + 1)
BY SizesAreNat DEF Sweeps

LEMMA SentType ==
  ASSUME RestOK, NEW proto \in Protocols, NEW client \in ClientIPs,
         NEW ethPort \in EthPorts, NEW server \in ServerIPs,
         NEW lport \in LtePorts
  PROVE  Sent(proto, client, ethPort, server, lport) \subseteq Flow
BY DEF RestOK, Sent, Flow

LEMMA AnsweredType ==
  ASSUME RestOK, NEW proto, NEW server, NEW lport
  PROVE  Answered(proto, server, lport) \subseteq Flow
<1>1. SUFFICES ASSUME NEW f \in flows
               PROVE  f \in Flow /\ [f EXCEPT !.at = uptime] \in Flow
  BY DEF Answered
<1>2. f \in Flow /\ uptime \in Uptime
  BY DEF RestOK
<1>3. QED
  BY <1>2 DEF Flow

(* The lte_port of a live row is a port, not the 0 of a cleared row alone. *)
LEMMA LtePortsHasZero == 0 \in LtePorts
BY PmapAssumption DEF LtePorts

LEMMA InvInit == Init => IInv
<1> SUFFICES ASSUME Init PROVE GoodTable(pmap) /\ RestOK
  BY InvParts
<1>1. GoodTable(pmap)
  <2>1. /\ pmap \in [RowIdx -> pmap_row_t]
        /\ \A i \in RowIdx : ~Live(pmap[i])
    BY EmptyRowType DEF Init
  <2>2. QED
    BY <2>1 DEF GoodTable
<1>2. RestOK
  <2>1. 0 \in 0..port_seq_max /\ 0 \in Uptime /\ 0 \in 0..(W + 1)
    BY SizesAreNat DEF Uptime
  <2>2. QED
    BY <2>1 DEF Init, RestOK
<1>3. QED
  BY <1>1, <1>2

(* A packet from Ethernet.                                                 *)
LEMMA EthKeeps ==
  ASSUME IInv, NEW proto \in Protocols, NEW client \in ClientIPs,
         NEW ethPort \in EthPorts,
         \/ \E server \in ServerIPs :
              \/ EthKnownFlow(proto, client, ethPort, server)
              \/ EthNewFlow(proto, client, ethPort, server)
         \/ EthTableFull(proto, client, ethPort)
         \/ EthGeneratorSpins(proto, client, ethPort)
  PROVE  GoodTable(pmap') /\ RestOK'
<1>1. GoodTable(Swept) /\ RestOK
  BY InvParts, SweptTable DEF Swept
<1>2. Swept \in [RowIdx -> pmap_row_t]
  BY <1>1 DEF GoodTable
<1>3. uptime \in Uptime
  BY <1>1 DEF RestOK
<1>4. CASE \E server \in ServerIPs : EthKnownFlow(proto, client, ethPort, server)
  <2>1. PICK server \in ServerIPs, i \in RowIdx :
          /\ pmap' = Touched(i)
          /\ flows' = Sent(proto, client, ethPort, server, Swept[i].lte_port)
          /\ Sweeps /\ UNCHANGED <<port_seq, uptime, spinning>>
    BY <1>4 DEF EthKnownFlow
  <2>2. GoodTable(pmap')
    BY <1>1, <1>3, <2>1, TouchedTable DEF Touched
  <2>3. Swept[i].lte_port \in LtePorts
    BY <1>2, LtePortsHasZero DEF pmap_row_t
  <2>4. flows' \subseteq Flow
    BY <1>1, <2>1, <2>3, SentType
  <2>5. QED
    BY <1>1, <2>1, <2>2, <2>4, SweepsType DEF RestOK
<1>5. CASE \E server \in ServerIPs : EthNewFlow(proto, client, ethPort, server)
  <2>1. PICK server \in ServerIPs : EthNewFlow(proto, client, ethPort, server)
    BY <1>5
  <2>2. PICK k \in 1..(port_seq_max + 1), i \in RowIdx :
          LET seq   == SeqAfter(port_seq, k)
              lport == Candidate(proto, seq)
          IN  /\ GeneratedStep(k, proto)
              /\ IsFirst(i, FreeRows(Swept))
              /\ port_seq' = seq
              /\ pmap' = [Swept EXCEPT ![i] =
                   [ip_protocol |-> proto, client_ip |-> client,
                    eth_port |-> ethPort, server_ip |-> server,
                    lte_port |-> lport, ts |-> uptime]]
              /\ flows' = Sent(proto, client, ethPort, server, lport)
    BY <2>1 DEF EthNewFlow
  <2>3. NeedsPort(proto, client, ethPort) /\ Sweeps /\ UNCHANGED <<uptime, spinning>>
    BY <2>1 DEF EthNewFlow
  <2> DEFINE lport == Candidate(proto, SeqAfter(port_seq, k))
             r == [ip_protocol |-> proto, client_ip |-> client,
                   eth_port |-> ethPort, server_ip |-> server,
                   lte_port |-> lport, ts |-> uptime]
  <2>4. SeqAfter(port_seq, k) \in 0..port_seq_max /\ lport \in LtePorts
    BY <1>1, GeneratedPort DEF RestOK
  <2>5. r \in pmap_row_t /\ Live(r)
    BY <1>3, <2>4, ProtocolsAreLive DEF pmap_row_t, Live
  <2>6. ~is_dup(Swept, r.ip_protocol, r.lte_port)
    BY <2>2 DEF GeneratedStep, IsFirst, FreeSteps
  <2>7. RowsByClient(Swept, r.ip_protocol, r.client_ip, r.eth_port) = {}
    BY <2>3 DEF NeedsPort
  <2>8. ~Live(Swept[i])
    BY <2>2 DEF IsFirst, FreeRows
  <2>9. GoodTable([Swept EXCEPT ![i] = r])
    BY <1>1, <2>5, <2>6, <2>7, <2>8, FilledTable
  <2>10. flows' \subseteq Flow
    BY <1>1, <2>2, <2>4, SentType
  <2>11. QED
    BY <1>1, <2>2, <2>3, <2>4, <2>9, <2>10, SweepsType DEF RestOK
<1>6. CASE EthTableFull(proto, client, ethPort)
  <2>1. PICK k \in 1..(port_seq_max + 1) : port_seq' = SeqAfter(port_seq, k)
    BY <1>6 DEF EthTableFull
  <2>2. port_seq' \in 0..port_seq_max
    BY <1>1, <2>1, GeneratedPort DEF RestOK
  <2>3. QED
    BY <1>1, <1>6, <2>2, SweepsType DEF EthTableFull, RestOK
<1>7. CASE EthGeneratorSpins(proto, client, ethPort)
  BY <1>1, <1>7, SweepsType DEF EthGeneratorSpins, RestOK
<1>8. QED
  BY <1>4, <1>5, <1>6, <1>7

(* A packet from LTE.                                                      *)
LEMMA LteKeeps ==
  ASSUME IInv, NEW proto, NEW server, NEW lport,
         \/ LteKnownPort(proto, server, lport)
         \/ LteInvalidPort(proto, server, lport)
  PROVE  GoodTable(pmap') /\ RestOK'
<1>1. GoodTable(Swept) /\ RestOK
  BY InvParts, SweptTable DEF Swept
<1>2. CASE LteKnownPort(proto, server, lport)
  <2>1. PICK i \in RowIdx : pmap' = [Swept EXCEPT ![i].ts = uptime]
    BY <1>2 DEF LteKnownPort, Touched
  <2>2. uptime \in Uptime
    BY <1>1 DEF RestOK
  <2>3. GoodTable(pmap')
    BY <1>1, <2>1, <2>2, TouchedTable
  <2>4. flows' \subseteq Flow
    BY <1>1, <1>2, AnsweredType DEF LteKnownPort
  <2>5. QED
    BY <1>1, <1>2, <2>3, <2>4, SweepsType DEF LteKnownPort, RestOK
<1>3. CASE LteInvalidPort(proto, server, lport)
  BY <1>1, <1>3, SweepsType DEF LteInvalidPort, RestOK
<1>4. QED
  BY <1>2, <1>3

(* The updates and removals, which the gateway does not call.              *)
LEMMA OtherCallsKeep ==
  ASSUME IInv, NEW rows, UpdateBy(rows) \/ RemoveBy(rows)
  PROVE  GoodTable(pmap') /\ RestOK'
<1>1. GoodTable(Swept) /\ RestOK
  BY InvParts, SweptTable DEF Swept
<1>2. CASE UpdateBy(rows)
  BY <1>1, <1>2, TouchedTable, SweepsType DEF UpdateBy, Touched, RestOK
<1>3. CASE RemoveBy(rows)
  <2>1. GoodTable(pmap')
    BY <1>1, <1>3, RemovedTable DEF RemoveBy
  <2>2. flows' \subseteq flows
    BY <1>3 DEF RemoveBy
  <2>3. QED
    BY <1>1, <1>3, <2>1, <2>2, SweepsType DEF RemoveBy, RestOK
<1>4. QED
  BY <1>2, <1>3

LEMMA TickKeeps == IInv /\ Tick => GoodTable(pmap') /\ RestOK'
<1> SUFFICES ASSUME IInv, Tick PROVE GoodTable(pmap') /\ RestOK'
  OBVIOUS
<1>1. GoodTable(pmap) /\ RestOK
  BY InvParts
<1>2. uptime' \in Uptime
  BY <1>1, SizesAreNat DEF Tick, RestOK, Uptime
<1>3. quiet' \in 0..(W + 1)
  BY <1>1, SizesAreNat DEF Tick, RestOK, QuietBound
<1>4. flows' \subseteq flows
  BY DEF Tick
<1>5. QED
  BY <1>1, <1>2, <1>3, <1>4 DEF Tick, RestOK

LEMMA InvNext == IInv /\ [ApiNext]_vars => IInv'
<1> SUFFICES ASSUME IInv, [ApiNext]_vars PROVE GoodTable(pmap') /\ RestOK'
  BY DEF IInv, TypeOK, UniqueLtePort, UniqueClientKey, GoodTable, RestOK
<1>1. CASE EthPacket
  BY <1>1, EthKeeps DEF EthPacket, EthPacketFrom
<1>2. CASE LtePacket
  BY <1>2, LteKeeps DEF LtePacket
<1>3. CASE Tick
  BY <1>3, TickKeeps
<1>4. CASE OtherCalls
  BY <1>4, OtherCallsKeep
     DEF OtherCalls, update_pmap_by_client_info, remove_pmap_by_client_info,
         update_pmap_by_server_info, remove_pmap_by_server_info
<1>5. CASE UNCHANGED vars
  <2>1. GoodTable(pmap) /\ RestOK
    BY InvParts
  <2>2. QED
    BY <1>5, <2>1 DEF vars, RestOK
<1>6. QED
  BY <1>1, <1>2, <1>3, <1>4, <1>5 DEF ApiNext, Next

-----------------------------------------------------------------------------
(* Theorems.                                                               *)

(* The invariant holds whatever packets come, and whatever updates and     *)
(* removals are called between them.                                       *)
THEOREM Invariance == ApiSpec => []IInv
<1>1. QED
  BY InvInit, InvNext, PTL DEF ApiSpec

(* The gateway calls no updates and removals.                              *)
LEMMA SpecIsApiSpec == Spec => ApiSpec
<1>1. [Next]_vars => [ApiNext]_vars
  BY DEF ApiNext
<1>2. QED
  BY <1>1, PTL DEF Spec, ApiSpec

(* Types are kept, the widths of ports and of the clock among them.        *)
THEOREM TypeCorrect == ApiSpec => []TypeOK
<1>1. IInv => TypeOK
  BY DEF IInv
<1>2. QED
  BY <1>1, Invariance, PTL

(* No two client endpoints share a public port of a pool.                  *)
THEOREM PortsUnique == ApiSpec => []UniqueLtePort
<1>1. IInv => UniqueLtePort
  BY DEF IInv
<1>2. QED
  BY <1>1, Invariance, PTL

(* A client endpoint never has two rows.                                   *)
THEOREM ClientsUnique == ApiSpec => []UniqueClientKey
<1>1. IInv => UniqueClientKey
  BY DEF IInv
<1>2. QED
  BY <1>1, Invariance, PTL

-----------------------------------------------------------------------------
(* The table implements AbstractNat: a step drops bindings, and one that   *)
(* adds a binding adds it to the swept table.                              *)

LEMMA SweptBindings ==
  ASSUME NEW t \in [RowIdx -> pmap_row_t], NEW now
  PROVE  BindingsOf(gc_pmap(t, now)) \subseteq BindingsOf(t)
<1>1. \A i \in RowIdx :
        Live(gc_pmap(t, now)[i]) => gc_pmap(t, now)[i] = t[i]
  BY SweptRow, ClearedRow
<1>2. QED
  BY <1>1 DEF BindingsOf

LEMMA TouchedBindings ==
  ASSUME NEW t \in [RowIdx -> pmap_row_t], NEW i \in RowIdx, NEW now
  PROVE  BindingsOf([t EXCEPT ![i].ts = now]) \subseteq BindingsOf(t)
<1> DEFINE s == [t EXCEPT ![i].ts = now]
<1>1. \A j \in RowIdx : BindingOf(s[j]) = BindingOf(t[j])
                         /\ Live(s[j]) = Live(t[j])
  BY DEF BindingOf, Live, pmap_row_t
<1> SUFFICES BindingsOf(s) \subseteq BindingsOf(t)
  OBVIOUS
<1> HIDE DEF s
<1>2. QED
  BY <1>1 DEF BindingsOf

LEMMA RemovedBindings ==
  ASSUME NEW t \in [RowIdx -> pmap_row_t], NEW i \in RowIdx
  PROVE  BindingsOf([t EXCEPT ![i] = EmptyRow]) \subseteq BindingsOf(t)
<1>1. \A j \in RowIdx : Live([t EXCEPT ![i] = EmptyRow][j])
                         => [t EXCEPT ![i] = EmptyRow][j] = t[j]
  BY EmptyRowType
<1>2. QED
  BY <1>1 DEF BindingsOf

(* The row that add_pmap fills clashes with no other.                      *)
LEMMA FilledBindings ==
  ASSUME NEW t \in [RowIdx -> pmap_row_t], NEW i \in RowIdx, ~Live(t[i]),
         NEW r, Live(r),
         ~is_dup(t, r.ip_protocol, r.lte_port),
         RowsByClient(t, r.ip_protocol, r.client_ip, r.eth_port) = {}
  PROVE  LET b == BindingOf(r)
             n == BindingsOf([t EXCEPT ![i] = r])
         IN  /\ b \in n
             /\ n \subseteq BindingsOf(t) \cup {b}
             /\ \A k \in n \ {b} :
                  ~NatMap!SameClient(k, b) /\ ~NatMap!SamePort(k, b)
<1> DEFINE s == [t EXCEPT ![i] = r]
<1>1. s[i] = r /\ \A j \in RowIdx \ {i} : s[j] = t[j]
  OBVIOUS
<1> SUFFICES /\ BindingOf(r) \in BindingsOf(s)
             /\ BindingsOf(s) \subseteq BindingsOf(t) \cup {BindingOf(r)}
             /\ \A k \in BindingsOf(s) \ {BindingOf(r)} :
                  /\ ~NatMap!SameClient(k, BindingOf(r))
                  /\ ~NatMap!SamePort(k, BindingOf(r))
  OBVIOUS
<1> HIDE DEF s
<1>2. BindingOf(r) \in BindingsOf(s)
  BY <1>1 DEF BindingsOf
<1>3. BindingsOf(s) \subseteq BindingsOf(t) \cup {BindingOf(r)}
  BY <1>1 DEF BindingsOf
<1>4. ASSUME NEW k \in BindingsOf(s) \ {BindingOf(r)}
      PROVE  ~NatMap!SameClient(k, BindingOf(r)) /\ ~NatMap!SamePort(k, BindingOf(r))
  <2>1. PICK j \in RowIdx \ {i} : Live(t[j]) /\ k = BindingOf(t[j])
    BY <1>1, <1>4 DEF BindingsOf
  <2>2. ~SameEndpoint(t[j], r)
    BY <2>1 DEF RowsByClient, SameEndpoint
  <2>3. ~(SamePool(r.ip_protocol, t[j].ip_protocol) /\ t[j].lte_port = r.lte_port)
    BY <2>1 DEF is_dup
  <2>4. QED
    BY <2>1, <2>2, <2>3
       DEF NatMap!SameClient, NatMap!SamePort, BindingOf, SameEndpoint, SamePool
<1>5. QED
  BY <1>2, <1>3, <1>4

LEMMA EthNewFlowBinds ==
  ASSUME TypeOK, NEW proto \in Protocols, NEW client \in ClientIPs,
         NEW ethPort \in EthPorts, NEW server \in ServerIPs,
         EthNewFlow(proto, client, ethPort, server)
  PROVE  \E b \in Binding : NatMap!Bind(b)
<1>1. PICK k \in 1..(port_seq_max + 1), i \in RowIdx :
        LET seq   == SeqAfter(port_seq, k)
            lport == Candidate(proto, seq)
        IN  /\ GeneratedStep(k, proto)
            /\ IsFirst(i, FreeRows(Swept))
            /\ pmap' = [Swept EXCEPT ![i] =
                 [ip_protocol |-> proto, client_ip |-> client,
                  eth_port |-> ethPort, server_ip |-> server,
                  lte_port |-> lport, ts |-> uptime]]
  BY DEF EthNewFlow
<1> DEFINE lport == Candidate(proto, SeqAfter(port_seq, k))
           r == [ip_protocol |-> proto, client_ip |-> client,
                 eth_port |-> ethPort, server_ip |-> server,
                 lte_port |-> lport, ts |-> uptime]
<1>2. Swept \in [RowIdx -> pmap_row_t]
  BY SweptRow, ClearedRow DEF TypeOK, Swept, gc_pmap
<1>3. lport \in LtePorts
  BY GeneratedPort DEF TypeOK
<1>4. Live(r)
  BY ProtocolsAreLive DEF Live
<1>5. ~is_dup(Swept, r.ip_protocol, r.lte_port)
  BY <1>1 DEF GeneratedStep, IsFirst, FreeSteps
<1>6. RowsByClient(Swept, r.ip_protocol, r.client_ip, r.eth_port) = {}
  BY DEF EthNewFlow, NeedsPort
<1>7. ~Live(Swept[i])
  BY <1>1 DEF IsFirst, FreeRows
<1>8. BindingOf(r) \in Binding
  BY <1>3 DEF BindingOf, Binding
<1>9. pmap' = [Swept EXCEPT ![i] = r]
  BY <1>1
<1>10. BindingsOf(Swept) \subseteq BindingsOf(pmap)
  BY SweptBindings DEF TypeOK, Swept
<1> HIDE DEF r
<1>11. NatMap!Bind(BindingOf(r))
  BY <1>2, <1>4, <1>5, <1>6, <1>7, <1>9, <1>10, FilledBindings DEF NatMap!Bind
<1>12. QED
  BY <1>8, <1>11

(* Every packet, update and removal is a step of AbstractNat, or none.     *)
LEMMA StepImplementsNat ==
  TypeOK /\ [ApiNext]_vars => [NatMap!Next]_(BindingsOf(pmap))
<1> SUFFICES ASSUME TypeOK, [ApiNext]_vars
             PROVE  \/ NatMap!Drop
                    \/ \E b \in Binding : NatMap!Bind(b)
  BY DEF NatMap!Next
<1>1. /\ pmap \in [RowIdx -> pmap_row_t]
      /\ Swept \in [RowIdx -> pmap_row_t]
  BY SweptRow, ClearedRow DEF TypeOK, Swept, gc_pmap
<1>2. ASSUME \/ pmap' = pmap
             \/ pmap' = Swept
             \/ \E i \in RowIdx : pmap' = Touched(i)
             \/ \E i \in RowIdx : pmap' = [Swept EXCEPT ![i] = EmptyRow]
      PROVE  NatMap!Drop
  <2>1. BindingsOf(Swept) \subseteq BindingsOf(pmap)
    BY <1>1, SweptBindings DEF Swept
  <2>2. BindingsOf(pmap') \subseteq BindingsOf(pmap)
    BY <1>1, <1>2, <2>1, TouchedBindings, RemovedBindings DEF Touched
  <2>3. QED
    BY <2>2 DEF NatMap!Drop
<1>3. CASE EthPacket
  <2>1. PICK proto \in Protocols, client \in ClientIPs, ethPort \in EthPorts :
          \/ \E server \in ServerIPs :
               \/ EthKnownFlow(proto, client, ethPort, server)
               \/ EthNewFlow(proto, client, ethPort, server)
          \/ EthTableFull(proto, client, ethPort)
          \/ EthGeneratorSpins(proto, client, ethPort)
    BY <1>3 DEF EthPacket, EthPacketFrom
  <2>2. CASE \E server \in ServerIPs : EthNewFlow(proto, client, ethPort, server)
    BY <2>2, EthNewFlowBinds
  <2>3. CASE \E server \in ServerIPs : EthKnownFlow(proto, client, ethPort, server)
    BY <1>2, <2>3 DEF EthKnownFlow
  <2>4. CASE EthTableFull(proto, client, ethPort)
    BY <1>2, <2>4 DEF EthTableFull
  <2>5. CASE EthGeneratorSpins(proto, client, ethPort)
    BY <1>2, <2>5 DEF EthGeneratorSpins
  <2>6. QED
    BY <2>1, <2>2, <2>3, <2>4, <2>5
<1>4. CASE LtePacket
  BY <1>2, <1>4 DEF LtePacket, LteKnownPort, LteInvalidPort
<1>5. CASE OtherCalls
  BY <1>2, <1>5
     DEF OtherCalls, update_pmap_by_client_info, remove_pmap_by_client_info,
         update_pmap_by_server_info, remove_pmap_by_server_info,
         UpdateBy, RemoveBy
<1>6. CASE Tick
  BY <1>2, <1>6 DEF Tick
<1>7. CASE UNCHANGED vars
  BY <1>2, <1>7 DEF vars
<1>8. QED
  BY <1>3, <1>4, <1>5, <1>6, <1>7 DEF ApiNext, Next

(* The table implements the port mapper of AbstractNat, as the gateway     *)
(* uses it and with updates and removals between its packets.              *)
THEOREM Refinement == ApiSpec => ImplementsNat
<1>1. Init => NatMap!Init
  BY EmptyRowType DEF Init, NatMap!Init, BindingsOf
<1>2. QED
  BY <1>1, StepImplementsNat, TypeCorrect, PTL
     DEF ApiSpec, ImplementsNat, NatMap!Spec

-----------------------------------------------------------------------------
(* The port generators return, unless the echo identifiers have run out.   *)

Turns == 1..(port_seq_max + 1)

(* A turn reaches each value of port_seq once.                             *)
LEMMA TurnsDiffer ==
  ASSUME NEW seq \in 0..port_seq_max, NEW j \in Turns, NEW k \in Turns, j # k
  PROVE  SeqAfter(seq, j) # SeqAfter(seq, k)
<1> DEFINE M == port_seq_max + 1
<1>1. M \in Nat \ {0} /\ seq \in 0..(M - 1) /\ j \in 1..M /\ k \in 1..M
  BY SizesAreNat DEF Turns
<1> SUFFICES (seq + j) % M # (seq + k) % M
  BY DEF SeqAfter
<1> HIDE DEF M
<1>2. ASSUME NEW n \in 1..M
      PROVE  (seq + n) % M = IF seq + n < M THEN seq + n ELSE
                             IF seq + n < M + M THEN seq + n - M ELSE 0
  BY <1>1
<1>3. QED
  BY <1>1, <1>2

LEMMA TurnFor ==
  ASSUME NEW seq \in 0..port_seq_max, NEW n \in 0..port_seq_max
  PROVE  \E k \in Turns : SeqAfter(seq, k) = n
<1> DEFINE M == port_seq_max + 1
           k == IF n > seq THEN n - seq ELSE n - seq + M
<1>1. M \in Nat \ {0} /\ seq \in 0..(M - 1) /\ n \in 0..(M - 1)
  BY SizesAreNat
<1> SUFFICES k \in 1..M /\ (seq + k) % M = n
  BY DEF SeqAfter, Turns
<1> HIDE DEF M
<1>2. CASE n > seq
  BY <1>1, <1>2
<1>3. CASE ~(n > seq)
  BY <1>1, <1>3
<1>4. QED
  BY <1>2, <1>3

LEMMA RowsAreFinite ==
  ASSUME NEW S \in SUBSET RowIdx
  PROVE  /\ IsFiniteSet(S)
         /\ Cardinality(S) \in Nat
         /\ Cardinality(S) <= MAX_PMAP_ROWS
<1>1. IsFiniteSet(RowIdx) /\ Cardinality(RowIdx) = MAX_PMAP_ROWS
  BY PmapAssumption, FS_Interval DEF RowIdx
<1>2. QED
  BY <1>1, FS_Subset, FS_CardinalityType

LEMMA MoreTurnsThanRows ==
  /\ IsFiniteSet(Turns)
  /\ Cardinality(Turns) = port_seq_max + 1
  /\ port_seq_max >= MAX_PMAP_ROWS
<1>1. port_seq_max >= MAX_PMAP_ROWS
  BY PmapAssumption, Z3 DEF port_seq_max
<1>2. QED
  BY <1>1, SizesAreNat, FS_Interval DEF Turns

(* When different turns try different ports, some turn finds a free one.   *)
LEMMA FreshTurn ==
  ASSUME NEW t, NEW proto, NEW seq \in 0..port_seq_max,
         \A j, k \in Turns : j # k =>
           Candidate(proto, SeqAfter(seq, j)) # Candidate(proto, SeqAfter(seq, k))
  PROVE  FreeSteps(t, proto, seq) # {}
<1> SUFFICES ASSUME FreeSteps(t, proto, seq) = {} PROVE FALSE
  OBVIOUS
<1> DEFINE port(k) == Candidate(proto, SeqAfter(seq, k))
           row == [k \in Turns |-> CHOOSE i \in RowIdx : t[i].lte_port = port(k)]
<1>1. \A k \in Turns : \E i \in RowIdx : t[i].lte_port = port(k)
  BY DEF FreeSteps, is_dup, Turns
<1>2. \A k \in Turns : row[k] \in RowIdx /\ t[row[k]].lte_port = port(k)
  BY <1>1
<1>3. row \in [Turns -> RowIdx]
  BY <1>2
<1>4. Cardinality(RowIdx) < Cardinality(Turns) /\ IsFiniteSet(RowIdx)
  BY RowsAreFinite, MoreTurnsThanRows, SizesAreNat, PmapAssumption
<1> HIDE DEF row, port
<1>5. PICK j, k \in Turns : j # k /\ row[j] = row[k]
  BY <1>3, <1>4, MoreTurnsThanRows, FS_PigeonHole
<1>6. QED
  BY <1>2, <1>5 DEF port

(* lte_port_genarator always returns: it has more ports than the table has *)
(* rows.                                                                   *)
THEOREM UdpTcpGeneratorReturns ==
  ASSUME NEW t, NEW proto, proto # IPPROTO_ICMP, NEW seq \in 0..port_seq_max
  PROVE  FreeSteps(t, proto, seq) # {}
<1>1. \A j, k \in Turns : j # k =>
        Candidate(proto, SeqAfter(seq, j)) # Candidate(proto, SeqAfter(seq, k))
  <2>1. SUFFICES ASSUME NEW j \in Turns, NEW k \in Turns, j # k
                 PROVE  SeqAfter(seq, j) + PORT_SEQ_BASE
                        # SeqAfter(seq, k) + PORT_SEQ_BASE
    BY DEF Candidate
  <2>2. SeqAfter(seq, j) \in Int /\ SeqAfter(seq, k) \in Int
    BY GeneratedPort DEF Turns
  <2>3. SeqAfter(seq, j) # SeqAfter(seq, k)
    BY <2>1, TurnsDiffer
  <2>4. \A a, b \in Int : a # b => a + PORT_SEQ_BASE # b + PORT_SEQ_BASE
    BY PmapAssumption
  <2>5. QED
    BY <2>2, <2>3, <2>4
<1>2. QED
  BY <1>1, FreshTurn

(* lte_port_genarator_icmp_echo returns unless as many rows are live for   *)
(* ICMP as there are identifiers.                                          *)
LEMMA EchoGeneratorReturns ==
  ASSUME NEW t, NEW seq \in 0..port_seq_max,
         FreeSteps(t, IPPROTO_ICMP, seq) = {}
  PROVE  Cardinality({i \in RowIdx : t[i].ip_protocol = IPPROTO_ICMP}) >= ICMP_IDS
<1> DEFINE Echo == {i \in RowIdx : t[i].ip_protocol = IPPROTO_ICMP}
           Ids  == 0..(ICMP_IDS - 1)
<1>1. CASE ICMP_IDS > port_seq_max
  <2>1. \A n \in 0..port_seq_max : n % ICMP_IDS = n
    BY <1>1, SizesAreNat, PmapAssumption
  <2>2. \A k \in Turns : /\ SeqAfter(seq, k) \in 0..port_seq_max
                          /\ Candidate(IPPROTO_ICMP, SeqAfter(seq, k)) = SeqAfter(seq, k)
    BY <2>1, GeneratedPort DEF Candidate, Turns
  <2>3. QED
    BY <2>2, TurnsDiffer, FreshTurn
<1>2. CASE ICMP_IDS <= port_seq_max
  <2> DEFINE row == [n \in Ids |-> CHOOSE i \in Echo : t[i].lte_port = n]
  <2>1. ASSUME NEW n \in Ids PROVE \E i \in Echo : t[i].lte_port = n
    <3>1. n \in 0..port_seq_max /\ n % ICMP_IDS = n
      BY <1>2, SizesAreNat, PmapAssumption
    <3>2. PICK k \in Turns : SeqAfter(seq, k) = n
      BY <3>1, TurnFor
    <3>3. is_dup(t, IPPROTO_ICMP, n)
      BY <3>1, <3>2 DEF FreeSteps, Candidate, Turns
    <3>4. QED
      BY <3>3 DEF is_dup, SamePool
  <2>2. \A n \in Ids : row[n] \in Echo /\ t[row[n]].lte_port = n
    BY <2>1
  <2> HIDE DEF row
  <2>3. row \in [Ids -> Echo]
    <3>1. row = [n \in Ids |-> row[n]]
      BY DEF row
    <3>2. QED
      BY <2>2, <3>1
  <2>4. IsFiniteSet(Ids) /\ Cardinality(Ids) = ICMP_IDS
    BY FS_Interval, PmapAssumption
  <2>5. IsFiniteSet(Echo) /\ Cardinality(Echo) \in Nat
    BY RowsAreFinite
  <2> HIDE DEF Echo, Ids
  <2>6. \A m, n \in Ids : m # n => row[m] # row[n]
    BY <2>2
  <2>7. ~(Cardinality(Echo) < Cardinality(Ids))
    BY <2>3, <2>4, <2>5, <2>6, FS_PigeonHole
  <2>8. Cardinality(Echo) >= ICMP_IDS
    BY <2>4, <2>5, <2>7, PmapAssumption
  <2>9. QED
    BY <2>8 DEF Echo
<1>3. QED
  BY <1>1, <1>2, SizesAreNat, PmapAssumption

(* The gateway hangs in a generator only when the echo identifiers are     *)
(* used up, whatever the mix of protocols and clients.                     *)
THEOREM SpinsOnlyWithoutEchoIdsHolds == ApiSpec => []SpinsOnlyWithoutEchoIds
<1>1. Init => SpinsOnlyWithoutEchoIds
  BY DEF Init, SpinsOnlyWithoutEchoIds
<1>2. TypeOK /\ SpinsOnlyWithoutEchoIds /\ [ApiNext]_vars => SpinsOnlyWithoutEchoIds'
  <2> SUFFICES ASSUME TypeOK, SpinsOnlyWithoutEchoIds, [ApiNext]_vars, spinning'
               PROVE  SpinsOnlyWithoutEchoIds'
    BY DEF SpinsOnlyWithoutEchoIds
  <2>1. CASE UNCHANGED <<spinning, pmap>>
    BY <2>1 DEF SpinsOnlyWithoutEchoIds
  <2>2. ASSUME NEW proto \in Protocols, NEW client, NEW ethPort,
               EthGeneratorSpins(proto, client, ethPort)
        PROVE  SpinsOnlyWithoutEchoIds'
    <3>1. FreeSteps(Swept, proto, port_seq) = {} /\ pmap' = Swept
      BY <2>2 DEF EthGeneratorSpins
    <3>2. proto = IPPROTO_ICMP
      BY <3>1, UdpTcpGeneratorReturns DEF TypeOK
    <3>3. Cardinality({i \in RowIdx : Swept[i].ip_protocol = IPPROTO_ICMP}) >= ICMP_IDS
      BY <3>1, <3>2, EchoGeneratorReturns DEF TypeOK
    <3>4. QED
      BY <3>1, <3>3 DEF SpinsOnlyWithoutEchoIds
  <2>3. \/ UNCHANGED <<spinning, pmap>>
        \/ \E proto \in Protocols, client \in ClientIPs, ethPort \in EthPorts :
             EthGeneratorSpins(proto, client, ethPort)
    BY DEF ApiNext, Next, EthPacket, EthPacketFrom, EthKnownFlow, EthNewFlow, EthTableFull,
           NeedsPort, LtePacket, LteKnownPort, LteInvalidPort, Tick, vars,
           OtherCalls, update_pmap_by_client_info, remove_pmap_by_client_info,
           update_pmap_by_server_info, remove_pmap_by_server_info,
           UpdateBy, RemoveBy
  <2>4. QED
    BY <2>1, <2>2, <2>3
<1>3. QED
  BY <1>1, <1>2, TypeCorrect, PTL DEF ApiSpec

-----------------------------------------------------------------------------
(* Ages modulo W.                                                          *)

Elapsed(start, now) == (now - start) % W

LEMMA ElapsedIs ==
  ASSUME NEW start \in Uptime, NEW now \in Uptime
  PROVE  Elapsed(start, now) = IF start <= now THEN now - start
                                               ELSE now - start + W
<1>1. W \in Nat \ {0} /\ now \in 0..(W - 1) /\ start \in 0..(W - 1)
  BY PmapAssumption DEF Uptime
<1>2. CASE start <= now
  BY <1>1, <1>2 DEF Elapsed
<1>3. CASE ~(start <= now)
  BY <1>1, <1>3 DEF Elapsed
<1>4. QED
  BY <1>2, <1>3

LEMMA ElapsedType ==
  ASSUME NEW start \in Uptime, NEW now \in Uptime
  PROVE  Elapsed(start, now) \in 0..(W - 1)
BY ElapsedIs, PmapAssumption DEF Uptime

LEMMA ElapsedNow ==
  ASSUME NEW now \in Uptime
  PROVE  Elapsed(now, now) = 0
BY ElapsedIs, PmapAssumption DEF Uptime

(* A tick adds one to every age that is not about to wrap.                 *)
LEMMA ElapsedTick ==
  ASSUME NEW start \in Uptime, NEW now \in Uptime,
         Elapsed(start, now) < W - 1
  PROVE  Elapsed(start, (now + 1) % W) = Elapsed(start, now) + 1
<1>1. W \in Nat \ {0} /\ now \in 0..(W - 1) /\ start \in 0..(W - 1)
  BY PmapAssumption DEF Uptime
<1>2. (now + 1) % W = IF now = W - 1 THEN 0 ELSE now + 1
  BY <1>1
<1>3. (now + 1) % W \in Uptime
  BY <1>1, <1>2 DEF Uptime
<1>4. QED
  BY <1>1, <1>2, <1>3, ElapsedIs

(* The two branches of is_timeout compute an age.                          *)
LEMMA TimeoutIsAge ==
  ASSUME NEW start \in Uptime, NEW now \in Uptime
  PROVE  is_timeout(PMAP_TIMEOUT, start, now)
         <=> Elapsed(start, now) >= PMAP_TIMEOUT
<1>1. W \in Nat \ {0} /\ now \in 0..(W - 1) /\ start \in 0..(W - 1)
  BY PmapAssumption DEF Uptime
<1>2. CASE start <= now
  BY <1>1, <1>2, ElapsedIs DEF is_timeout
<1>3. CASE ~(start <= now)
  <2>1. ((W - 1) - start + now + 1) % W = now - start + W
    BY <1>1, <1>3
  <2>2. QED
    BY <1>1, <1>3, <2>1, ElapsedIs DEF is_timeout
<1>4. QED
  BY <1>2, <1>3

-----------------------------------------------------------------------------
(* The table under its sweep, row by row.                                  *)

LEMMA TableFacts ==
  ASSUME IInv
  PROVE  /\ pmap \in [RowIdx -> pmap_row_t]
         /\ Swept \in [RowIdx -> pmap_row_t]
         /\ uptime \in Uptime
         /\ flows \subseteq Flow
         /\ GoodTable(pmap)
         /\ GoodTable(Swept)
         /\ RestOK
BY InvParts, SweptTable DEF Swept, GoodTable, RestOK

LEMMA SweptIs ==
  ASSUME IInv, NEW i \in RowIdx
  PROVE  /\ Live(Swept[i]) =>
              /\ Swept[i] = pmap[i]
              /\ Elapsed(pmap[i].ts, uptime) < PMAP_TIMEOUT
         /\ Live(pmap[i]) /\ Elapsed(pmap[i].ts, uptime) < PMAP_TIMEOUT =>
              Swept[i] = pmap[i]
<1>1. pmap[i] \in pmap_row_t /\ uptime \in Uptime
  BY TableFacts
<1>2. pmap[i].ts \in Uptime
  BY <1>1 DEF pmap_row_t
<1>3. Elapsed(pmap[i].ts, uptime) \in Int /\ PMAP_TIMEOUT \in Int
  BY <1>1, <1>2, ElapsedType, SizesAreNat
<1>4. is_timeout(PMAP_TIMEOUT, pmap[i].ts, uptime)
      <=> ~(Elapsed(pmap[i].ts, uptime) < PMAP_TIMEOUT)
  BY <1>1, <1>2, <1>3, TimeoutIsAge
<1>5. QED
  BY <1>1, <1>4, ClearedRow DEF Swept, gc_pmap

(* A port and a protocol belong to one row.                                *)
LEMMA PortIsOneRow ==
  ASSUME NEW t, GoodTable(t), NEW i \in RowIdx, NEW j \in RowIdx,
         Live(t[i]), t[i].ip_protocol = t[j].ip_protocol,
         t[i].lte_port = t[j].lte_port
  PROVE  i = j
BY DEF GoodTable, SamePool, Live

(* What EthNewFlow does: a free row gets a port that no live row has.      *)
NewRow(proto, client, ethPort, server, lport) ==
  [ip_protocol |-> proto, client_ip |-> client, eth_port |-> ethPort,
   server_ip |-> server, lte_port |-> lport, ts |-> uptime]

LEMMA NewFlowFills ==
  ASSUME port_seq \in 0..port_seq_max,
         NEW proto, NEW client, NEW ethPort, NEW server,
         EthNewFlow(proto, client, ethPort, server)
  PROVE  \E i \in RowIdx, lport \in LtePorts :
           /\ ~Live(Swept[i])
           /\ ~is_dup(Swept, proto, lport)
           /\ RowsByClient(Swept, proto, client, ethPort) = {}
           /\ pmap' = [Swept EXCEPT ![i] =
                        NewRow(proto, client, ethPort, server, lport)]
           /\ flows' = Sent(proto, client, ethPort, server, lport)
           /\ Sweeps /\ uptime' = uptime
           /\ port_seq' \in 0..port_seq_max /\ spinning' = spinning
<1>1. PICK k \in 1..(port_seq_max + 1), i \in RowIdx :
        LET seq   == SeqAfter(port_seq, k)
            lport == Candidate(proto, seq)
        IN  /\ GeneratedStep(k, proto)
            /\ IsFirst(i, FreeRows(Swept))
            /\ port_seq' = seq
            /\ pmap' = [Swept EXCEPT ![i] =
                 [ip_protocol |-> proto, client_ip |-> client,
                  eth_port |-> ethPort, server_ip |-> server,
                  lte_port |-> lport, ts |-> uptime]]
            /\ flows' = Sent(proto, client, ethPort, server, lport)
  BY DEF EthNewFlow
<1> DEFINE lport == Candidate(proto, SeqAfter(port_seq, k))
<1>2. SeqAfter(port_seq, k) \in 0..port_seq_max /\ lport \in LtePorts
  BY GeneratedPort
<1>3. ~is_dup(Swept, proto, lport)
  BY <1>1 DEF GeneratedStep, IsFirst, FreeSteps
<1>4. ~Live(Swept[i])
  BY <1>1 DEF IsFirst, FreeRows
<1>5. /\ RowsByClient(Swept, proto, client, ethPort) = {}
      /\ Sweeps /\ uptime' = uptime /\ spinning' = spinning
  BY DEF EthNewFlow, NeedsPort
<1>6. pmap' = [Swept EXCEPT ![i] = NewRow(proto, client, ethPort, server, lport)]
  BY <1>1 DEF NewRow
<1>7. flows' = Sent(proto, client, ethPort, server, lport) /\ port_seq' \in 0..port_seq_max
  BY <1>1, <1>2
<1> lport \in LtePorts
  BY <1>2
<1> HIDE DEF lport
<1> WITNESS i \in RowIdx, lport \in LtePorts
<1>8. QED
  BY <1>3, <1>4, <1>5, <1>6, <1>7

-----------------------------------------------------------------------------
(* Flows have rows.                                                        *)

Serves(row, f) ==
  /\ row.ip_protocol = f.proto
  /\ row.client_ip = f.client
  /\ row.eth_port = f.eport
  /\ row.lte_port = f.lport

(* Some row of t serves f and was last used no earlier than f.             *)
Owned(t, f) ==
  \E i \in RowIdx :
    /\ Serves(t[i], f)
    /\ Elapsed(t[i].ts, uptime) <= Elapsed(f.at, uptime)

FlowInv ==
  \A f \in flows : Elapsed(f.at, uptime) < PMAP_TIMEOUT /\ Owned(pmap, f)

LEMMA FlowFacts ==
  ASSUME IInv, NEW f \in flows
  PROVE  /\ f \in Flow
         /\ f.proto \in Protocols /\ f.proto # NoProto
         /\ f.at \in Uptime
         /\ Elapsed(f.at, uptime) \in Int
BY TableFacts, ProtocolsAreLive, ElapsedType DEF Flow

LEMMA RowAge ==
  ASSUME NEW t \in [RowIdx -> pmap_row_t], NEW i \in RowIdx, uptime \in Uptime
  PROVE  t[i].ts \in Uptime /\ Elapsed(t[i].ts, uptime) \in 0..(W - 1)
<1>1. t[i].ts \in Uptime
  BY DEF pmap_row_t
<1>2. QED
  BY <1>1, ElapsedType

(* The sweep spares the row of a flow.                                     *)
LEMMA OwnedAfterSweep ==
  ASSUME IInv, FlowInv, NEW f \in flows
  PROVE  Owned(Swept, f)
<1>1. PICK i \in RowIdx :
        /\ Serves(pmap[i], f)
        /\ Elapsed(pmap[i].ts, uptime) <= Elapsed(f.at, uptime)
  BY DEF FlowInv, Owned
<1>2. Elapsed(f.at, uptime) < PMAP_TIMEOUT
  BY DEF FlowInv
<1>3. Elapsed(pmap[i].ts, uptime) < PMAP_TIMEOUT
  BY <1>1, <1>2, TableFacts, RowAge, FlowFacts, SizesAreNat
<1>4. Swept[i] = pmap[i]
  BY <1>1, <1>3, SweptIs, FlowFacts DEF Serves, Live
<1>5. QED
  BY <1>1, <1>4 DEF Owned

(* A row that is used now is no older than anything.                       *)
LEMMA OwnedAfterTouch ==
  ASSUME IInv, NEW f \in flows, Owned(Swept, f), NEW i \in RowIdx
  PROVE  Owned(Touched(i), f)
<1>1. PICK j \in RowIdx :
        /\ Serves(Swept[j], f)
        /\ Elapsed(Swept[j].ts, uptime) <= Elapsed(f.at, uptime)
  BY DEF Owned
<1>2. Swept \in [RowIdx -> pmap_row_t] /\ uptime \in Uptime /\ f.at \in Uptime
  BY TableFacts, FlowFacts
<1>3. Serves(Touched(i)[j], f)
  BY <1>1, <1>2 DEF Touched, Serves, pmap_row_t
<1>4. Touched(i)[j].ts = IF j = i THEN uptime ELSE Swept[j].ts
  BY <1>2 DEF Touched, pmap_row_t
<1>5. Elapsed(uptime, uptime) <= Elapsed(f.at, uptime)
  BY <1>2, ElapsedNow, ElapsedType
<1>6. QED
  BY <1>1, <1>3, <1>4, <1>5 DEF Owned

(* A flow that is used now, by a row that is used now, is in its lease and *)
(* owned.                                                                  *)
LEMMA FreshFlow ==
  ASSUME IInv, NEW t, NEW f, f.at = uptime, NEW i \in RowIdx,
         Serves(t[i], f), t[i].ts = uptime
  PROVE  Elapsed(f.at, uptime) < PMAP_TIMEOUT /\ Owned(t, f)
<1>1. Elapsed(uptime, uptime) = 0 /\ 0 < PMAP_TIMEOUT
  BY TableFacts, ElapsedNow, PmapAssumption
<1>2. QED
  BY <1>1 DEF Owned

(* FlowInv after a step in which no time passes.                           *)
LEMMA FlowInvNow ==
  ASSUME IInv, FlowInv, uptime' = uptime,
         \A f \in flows' :
           \/ f \in flows /\ Owned(pmap', f)
           \/ Elapsed(f.at, uptime) < PMAP_TIMEOUT /\ Owned(pmap', f)
  PROVE  FlowInv'
BY DEF FlowInv, Owned

LEMMA FlowEthKnown ==
  ASSUME IInv, FlowInv, NEW proto \in Protocols, NEW client \in ClientIPs,
         NEW ethPort \in EthPorts, NEW server \in ServerIPs,
         EthKnownFlow(proto, client, ethPort, server)
  PROVE  FlowInv'
<1>1. PICK i \in RowIdx :
        /\ IsFirst(i, RowsByClient(Swept, proto, client, ethPort))
        /\ pmap' = Touched(i)
        /\ flows' = Sent(proto, client, ethPort, server, Swept[i].lte_port)
        /\ uptime' = uptime
  BY DEF EthKnownFlow
<1>2. /\ Swept[i].ip_protocol = proto
      /\ Swept[i].client_ip = client
      /\ Swept[i].eth_port = ethPort
  BY <1>1 DEF IsFirst, RowsByClient
<1> DEFINE new == [proto |-> proto, client |-> client, eport |-> ethPort,
                   server |-> server, lport |-> Swept[i].lte_port, at |-> uptime]
<1>3. \A f \in flows' : f \in flows \/ f = new
  BY <1>1 DEF Sent
<1>4. \A f \in flows : Owned(pmap', f)
  BY <1>1, OwnedAfterSweep, OwnedAfterTouch
<1>5. Serves(pmap'[i], new) /\ pmap'[i].ts = uptime
  BY <1>1, <1>2, TableFacts DEF Touched, Serves, pmap_row_t
<1>6. Elapsed(new.at, uptime) < PMAP_TIMEOUT /\ Owned(pmap', new)
  BY <1>5, FreshFlow
<1> HIDE DEF new
<1>7. QED
  BY <1>1, <1>3, <1>4, <1>6, FlowInvNow

LEMMA FlowEthNew ==
  ASSUME IInv, FlowInv, NEW proto \in Protocols, NEW client \in ClientIPs,
         NEW ethPort \in EthPorts, NEW server \in ServerIPs,
         EthNewFlow(proto, client, ethPort, server)
  PROVE  FlowInv'
<1>1. PICK i \in RowIdx, lport \in LtePorts :
        /\ ~Live(Swept[i])
        /\ pmap' = [Swept EXCEPT ![i] =
                     NewRow(proto, client, ethPort, server, lport)]
        /\ flows' = Sent(proto, client, ethPort, server, lport)
        /\ uptime' = uptime
  BY TableFacts, NewFlowFills DEF RestOK
<1> DEFINE new == [proto |-> proto, client |-> client, eport |-> ethPort,
                   server |-> server, lport |-> lport, at |-> uptime]
<1>2. \A f \in flows' : f \in flows \/ f = new
  BY <1>1 DEF Sent
<1>3. ASSUME NEW f \in flows PROVE Owned(pmap', f)
  <2>1. PICK j \in RowIdx :
          /\ Serves(Swept[j], f)
          /\ Elapsed(Swept[j].ts, uptime) <= Elapsed(f.at, uptime)
    BY OwnedAfterSweep DEF Owned
  <2>2. j # i
    BY <1>1, <2>1, FlowFacts DEF Serves, Live
  <2>3. pmap'[j] = Swept[j]
    BY <1>1, <2>2, TableFacts
  <2>4. QED
    BY <2>1, <2>3 DEF Owned
<1>4. Serves(pmap'[i], new) /\ pmap'[i].ts = uptime
  BY <1>1, TableFacts DEF Serves, NewRow
<1>5. Elapsed(new.at, uptime) < PMAP_TIMEOUT /\ Owned(pmap', new)
  BY <1>4, FreshFlow
<1> HIDE DEF new
<1>6. QED
  BY <1>1, <1>2, <1>3, <1>5, FlowInvNow

LEMMA FlowLteKnown ==
  ASSUME IInv, FlowInv, NEW proto \in Protocols, NEW server, NEW lport,
         LteKnownPort(proto, server, lport)
  PROVE  FlowInv'
<1>1. PICK i \in RowIdx :
        /\ IsFirst(i, RowsByServer(Swept, proto, server, lport))
        /\ pmap' = Touched(i)
        /\ flows' = Answered(proto, server, lport)
        /\ uptime' = uptime
  BY DEF LteKnownPort
<1>2. Swept[i].ip_protocol = proto /\ Swept[i].lte_port = lport
  BY <1>1 DEF IsFirst, RowsByServer
<1> SUFFICES ASSUME NEW g \in flows'
             PROVE  \/ g \in flows /\ Owned(pmap', g)
                    \/ Elapsed(g.at, uptime) < PMAP_TIMEOUT /\ Owned(pmap', g)
  BY <1>1, FlowInvNow
<1>3. PICK f \in flows :
        g = IF f.proto = proto /\ f.server = server /\ f.lport = lport
              THEN [f EXCEPT !.at = uptime] ELSE f
  BY <1>1 DEF Answered
<1>4. CASE f.proto = proto /\ f.server = server /\ f.lport = lport
  <2>1. /\ g.at = uptime /\ g.proto = f.proto /\ g.client = f.client
        /\ g.eport = f.eport /\ g.lport = f.lport
    BY <1>3, <1>4, FlowFacts DEF Flow
  <2>2. PICK j \in RowIdx : Serves(Swept[j], f)
    BY OwnedAfterSweep DEF Owned
  <2>3. j = i
    BY <1>2, <1>4, <2>2, TableFacts, PortIsOneRow, FlowFacts DEF Serves, Live
  <2>4. Serves(pmap'[i], g) /\ pmap'[i].ts = uptime
    BY <1>1, <2>1, <2>2, <2>3, TableFacts DEF Touched, Serves, pmap_row_t
  <2>5. QED
    BY <2>1, <2>4, FreshFlow
<1>5. CASE ~(f.proto = proto /\ f.server = server /\ f.lport = lport)
  BY <1>1, <1>3, <1>5, OwnedAfterSweep, OwnedAfterTouch
<1>6. QED
  BY <1>4, <1>5

(* Only the sweep, or only the use of a row.                               *)
LEMMA FlowSweepOnly ==
  ASSUME IInv, FlowInv, uptime' = uptime, flows' = flows,
         pmap' = Swept \/ \E i \in RowIdx : pmap' = Touched(i)
  PROVE  FlowInv'
BY OwnedAfterSweep, OwnedAfterTouch, FlowInvNow

(* A removed row takes its flows with it.                                  *)
LEMMA FlowRemove ==
  ASSUME IInv, FlowInv, NEW rows, RemoveBy(rows)
  PROVE  FlowInv'
<1>1. CASE \E i \in RowIdx :
             /\ IsFirst(i, rows)
             /\ pmap' = [Swept EXCEPT ![i] = EmptyRow]
             /\ flows' = {f \in flows : ~ /\ f.proto = pmap[i].ip_protocol
                                          /\ f.client = pmap[i].client_ip
                                          /\ f.eport = pmap[i].eth_port}
  <2>1. PICK i \in RowIdx :
          /\ pmap' = [Swept EXCEPT ![i] = EmptyRow]
          /\ flows' = {f \in flows : ~ /\ f.proto = pmap[i].ip_protocol
                                       /\ f.client = pmap[i].client_ip
                                       /\ f.eport = pmap[i].eth_port}
    BY <1>1
  <2>2. ASSUME NEW f \in flows' PROVE f \in flows /\ Owned(pmap', f)
    <3>1. f \in flows
      BY <2>1
    <3>2. PICK j \in RowIdx :
            /\ Serves(Swept[j], f)
            /\ Elapsed(Swept[j].ts, uptime) <= Elapsed(f.at, uptime)
      BY <3>1, OwnedAfterSweep DEF Owned
    <3>3. Swept[j] = pmap[j]
      BY <3>1, <3>2, SweptIs, FlowFacts DEF Serves, Live
    <3>4. j # i
      BY <2>1, <2>2, <3>2, <3>3 DEF Serves
    <3>5. pmap'[j] = Swept[j]
      BY <2>1, <3>4, TableFacts
    <3>6. QED
      BY <3>1, <3>2, <3>5 DEF Owned
  <2>3. uptime' = uptime
    BY DEF RemoveBy
  <2>4. QED
    BY <2>2, <2>3, FlowInvNow
<1>2. CASE pmap' = Swept /\ flows' = flows
  BY <1>2, FlowSweepOnly DEF RemoveBy
<1>3. QED
  BY <1>1, <1>2 DEF RemoveBy

LEMMA FlowTick == IInv /\ FlowInv /\ Tick => FlowInv'
<1> SUFFICES ASSUME IInv, FlowInv, Tick, NEW f \in flows'
             PROVE  /\ Elapsed(f.at, uptime') < PMAP_TIMEOUT
                    /\ \E i \in RowIdx :
                         /\ Serves(pmap'[i], f)
                         /\ Elapsed(pmap'[i].ts, uptime') <= Elapsed(f.at, uptime')
  BY DEF FlowInv, Owned
<1>1. /\ f \in flows /\ Elapsed(f.at, uptime') < PMAP_TIMEOUT
      /\ uptime' = (uptime + 1) % W /\ pmap' = pmap
  BY DEF Tick, Elapsed
<1>2. /\ Elapsed(f.at, uptime) < PMAP_TIMEOUT
      /\ Elapsed(f.at, uptime) \in Int
      /\ PMAP_TIMEOUT \in Int /\ PMAP_TIMEOUT <= W - 1 /\ W \in Int
  BY <1>1, FlowFacts, PmapAssumption DEF FlowInv
<1>3. PICK i \in RowIdx :
        /\ Serves(pmap[i], f)
        /\ Elapsed(pmap[i].ts, uptime) <= Elapsed(f.at, uptime)
  BY <1>1 DEF FlowInv, Owned
<1>4. /\ pmap[i].ts \in Uptime /\ f.at \in Uptime /\ uptime \in Uptime
      /\ Elapsed(pmap[i].ts, uptime) \in Int
  BY <1>1, FlowFacts, TableFacts, RowAge
<1>5. /\ Elapsed(f.at, uptime') = Elapsed(f.at, uptime) + 1
      /\ Elapsed(pmap[i].ts, uptime') = Elapsed(pmap[i].ts, uptime) + 1
  BY <1>1, <1>2, <1>3, <1>4, ElapsedTick
<1>6. QED
  BY <1>1, <1>2, <1>3, <1>4, <1>5

LEMMA FlowKept == IInv /\ FlowInv /\ [ApiNext]_vars => FlowInv'
<1> SUFFICES ASSUME IInv, FlowInv, [ApiNext]_vars PROVE FlowInv'
  OBVIOUS
<1>1. CASE EthPacket
  BY <1>1, FlowEthKnown, FlowEthNew, FlowSweepOnly
     DEF EthPacket, EthPacketFrom, EthTableFull, EthGeneratorSpins
<1>2. CASE LtePacket
  BY <1>2, FlowLteKnown, FlowSweepOnly DEF LtePacket, LteInvalidPort
<1>3. CASE OtherCalls
  <2>1. \E rows : UpdateBy(rows) \/ RemoveBy(rows)
    BY <1>3 DEF OtherCalls, update_pmap_by_client_info,
       remove_pmap_by_client_info, update_pmap_by_server_info,
       remove_pmap_by_server_info
  <2>2. QED
    BY <2>1, FlowRemove, FlowSweepOnly DEF UpdateBy
<1>4. CASE Tick
  BY <1>4, FlowTick
<1>5. CASE UNCHANGED vars
  BY <1>5 DEF vars, FlowInv, Owned
<1>6. QED
  BY <1>1, <1>2, <1>3, <1>4, <1>5 DEF ApiNext, Next

(* Whatever is called, each flow within its lease has its client's row.    *)
THEOREM FlowsHaveRows == ApiSpec => []FlowInv
<1>1. Init => FlowInv
  BY DEF Init, FlowInv
<1>2. QED
  BY <1>1, FlowKept, Invariance, PTL DEF ApiSpec

-----------------------------------------------------------------------------
(* Replies.                                                                *)

(* A reply never reaches another client than the one that sent to that     *)
(* server from that port within the lease, with any number of servers:     *)
(* while the flow lives its client keeps the row, and the port is its      *)
(* row's alone.                                                            *)
THEOREM RepliesReachTheirClient == ApiSpec => []NoMisdelivery
<1>1. IInv /\ FlowInv => NoMisdelivery
  <2> SUFFICES ASSUME IInv, FlowInv, NEW f \in flows, NEW i \in ReplyRows(f)
               PROVE  Swept[i].client_ip = f.client /\ Swept[i].eth_port = f.eport
    BY DEF NoMisdelivery
  <2>1. /\ i \in RowIdx
        /\ Swept[i].ip_protocol = f.proto
        /\ Swept[i].lte_port = f.lport
    BY DEF ReplyRows, RowsByServer
  <2>2. PICK j \in RowIdx : Serves(Swept[j], f)
    BY OwnedAfterSweep DEF Owned
  <2>3. i = j
    BY <2>1, <2>2, TableFacts, PortIsOneRow, FlowFacts DEF Serves, Live
  <2>4. QED
    BY <2>2, <2>3 DEF Serves
<1>2. QED
  BY <1>1, Invariance, FlowsHaveRows, PTL

(* A row has the server of the packet it was made for.                     *)
RowsHaveServer ==
  \A i \in RowIdx : Live(pmap[i]) => pmap[i].server_ip \in ServerIPs

LEMMA ServerOfSweptRow ==
  ASSUME IInv, RowsHaveServer, NEW i \in RowIdx, Live(Swept[i])
  PROVE  Swept[i].server_ip \in ServerIPs
BY SweptIs DEF RowsHaveServer

LEMMA RowsHaveServerKept ==
  IInv /\ RowsHaveServer /\ [ApiNext]_vars => RowsHaveServer'
<1> SUFFICES ASSUME IInv, RowsHaveServer, [ApiNext]_vars PROVE RowsHaveServer'
  OBVIOUS
<1>1. ASSUME \/ pmap' = pmap
             \/ pmap' = Swept
             \/ \E i \in RowIdx : pmap' = Touched(i)
             \/ \E i \in RowIdx : pmap' = [Swept EXCEPT ![i] = EmptyRow]
      PROVE  RowsHaveServer'
  <2>1. CASE pmap' = pmap
    BY <2>1 DEF RowsHaveServer
  <2>2. CASE pmap' = Swept
    BY <2>2, ServerOfSweptRow DEF RowsHaveServer
  <2>3. CASE \E i \in RowIdx : pmap' = Touched(i)
    <3>1. PICK i \in RowIdx : pmap' = Touched(i)
      BY <2>3
    <3>2. \A j \in RowIdx : /\ pmap'[j].ip_protocol = Swept[j].ip_protocol
                            /\ pmap'[j].server_ip = Swept[j].server_ip
      BY <3>1, TableFacts DEF Touched, pmap_row_t
    <3>3. QED
      BY <3>2, ServerOfSweptRow DEF RowsHaveServer, Live
  <2>4. CASE \E i \in RowIdx : pmap' = [Swept EXCEPT ![i] = EmptyRow]
    BY <2>4, TableFacts, ServerOfSweptRow, EmptyRowType DEF RowsHaveServer
  <2>5. QED
    BY <1>1, <2>1, <2>2, <2>3, <2>4
<1>2. CASE EthPacket
  <2>1. PICK proto \in Protocols, client \in ClientIPs, ethPort \in EthPorts :
          \/ \E server \in ServerIPs :
               \/ EthKnownFlow(proto, client, ethPort, server)
               \/ EthNewFlow(proto, client, ethPort, server)
          \/ EthTableFull(proto, client, ethPort)
          \/ EthGeneratorSpins(proto, client, ethPort)
    BY <1>2 DEF EthPacket, EthPacketFrom
  <2>2. ASSUME NEW server \in ServerIPs,
               EthNewFlow(proto, client, ethPort, server)
        PROVE  RowsHaveServer'
    <3>1. PICK i \in RowIdx, lport \in LtePorts :
            pmap' = [Swept EXCEPT ![i] =
                      NewRow(proto, client, ethPort, server, lport)]
      BY <2>2, TableFacts, NewFlowFills DEF RestOK
    <3>2. NewRow(proto, client, ethPort, server, lport).server_ip \in ServerIPs
      BY DEF NewRow
    <3>3. QED
      BY <3>1, <3>2, TableFacts, ServerOfSweptRow DEF RowsHaveServer
  <2>3. CASE \E server \in ServerIPs : EthKnownFlow(proto, client, ethPort, server)
    BY <1>1, <2>3 DEF EthKnownFlow
  <2>4. CASE EthTableFull(proto, client, ethPort)
    BY <1>1, <2>4 DEF EthTableFull
  <2>5. CASE EthGeneratorSpins(proto, client, ethPort)
    BY <1>1, <2>5 DEF EthGeneratorSpins
  <2>6. QED
    BY <2>1, <2>2, <2>3, <2>4, <2>5
<1>3. CASE LtePacket
  BY <1>1, <1>3 DEF LtePacket, LteKnownPort, LteInvalidPort
<1>4. CASE OtherCalls
  BY <1>1, <1>4
     DEF OtherCalls, update_pmap_by_client_info, remove_pmap_by_client_info,
         update_pmap_by_server_info, remove_pmap_by_server_info,
         UpdateBy, RemoveBy
<1>5. CASE Tick \/ UNCHANGED vars
  BY <1>1, <1>5 DEF Tick, vars
<1>6. QED
  BY <1>2, <1>3, <1>4, <1>5 DEF ApiNext, Next

LEMMA ServersOfRows == ApiSpec => []RowsHaveServer
<1>1. Init => RowsHaveServer
  BY EmptyRowType DEF Init, RowsHaveServer
<1>2. QED
  BY <1>1, RowsHaveServerKept, Invariance, PTL DEF ApiSpec

(* A reply is matched with the server that the row was made for.           *)
SingleServer == \A s, t \in ServerIPs : s = t

(* When the clients talk to one server, as the README of the gateway has   *)
(* it, that server can answer every packet within the lease.  (With two,   *)
(* the run PortMapSecondServer shows what happens.)                        *)
THEOREM RepliesAreRouted ==
  ASSUME SingleServer
  PROVE  ApiSpec => []ReplyRoutable
<1>1. IInv /\ FlowInv /\ RowsHaveServer => ReplyRoutable
  <2> SUFFICES ASSUME IInv, FlowInv, RowsHaveServer, NEW f \in flows
               PROVE  ReplyRows(f) # {}
    BY DEF ReplyRoutable
  <2>1. PICK i \in RowIdx : Serves(Swept[i], f)
    BY OwnedAfterSweep DEF Owned
  <2>2. Swept[i].server_ip \in ServerIPs /\ f.server \in ServerIPs
    BY <2>1, ServerOfSweptRow, FlowFacts DEF Serves, Live, Flow
  <2>3. i \in ReplyRows(f)
    BY <2>1, <2>2, SingleServer DEF SingleServer, Serves, ReplyRows, RowsByServer
  <2>4. QED
    BY <2>3
<1>2. QED
  BY <1>1, Invariance, FlowsHaveRows, ServersOfRows, PTL

-----------------------------------------------------------------------------
(* Rows have flows.                                                        *)

Uses(f, row) == Serves(row, f) /\ f.server = row.server_ip /\ f.at = row.ts

InUse(row) == \E f \in flows : Uses(f, row)

(* A row within its lease was last used by a flow of the history.  An age  *)
(* has not wrapped: it exceeds the lease by no more than the time since    *)
(* the sweep, which is what QuietBound is for.                             *)
RowOK(row) ==
  /\ Elapsed(row.ts, uptime) < PMAP_TIMEOUT + quiet
  /\ Elapsed(row.ts, uptime) < PMAP_TIMEOUT => InUse(row)

RowInv ==
  quiet <= QuietBound => \A i \in RowIdx : Live(pmap[i]) => RowOK(pmap[i])

LEMMA QuietFacts ==
  ASSUME IInv
  PROVE  /\ quiet \in Nat
         /\ W \in Nat \ {0} /\ PMAP_TIMEOUT \in Nat \ {0}
         /\ QuietBound = W - PMAP_TIMEOUT
         /\ uptime \in Uptime
BY TableFacts, PmapAssumption DEF RestOK, QuietBound

(* After a sweep that comes in time ...                                    *)
LEMMA SweepInTime ==
  ASSUME IInv, Sweeps, quiet' <= QuietBound
  PROVE  quiet <= QuietBound /\ quiet' = 0
BY QuietFacts DEF Sweeps

(* ... the rows that are left are those in use.                            *)
LEMMA SweptInUse ==
  ASSUME IInv, RowInv, quiet <= QuietBound, NEW i \in RowIdx, Live(Swept[i])
  PROVE  InUse(Swept[i]) /\ Elapsed(Swept[i].ts, uptime) < PMAP_TIMEOUT
<1>1. Swept[i] = pmap[i] /\ Elapsed(pmap[i].ts, uptime) < PMAP_TIMEOUT
  BY SweptIs
<1>2. QED
  BY <1>1 DEF RowInv, RowOK

(* RowInv after a sweep.                                                   *)
LEMMA RowInvNow ==
  ASSUME IInv, Sweeps, uptime' = uptime,
         quiet <= QuietBound =>
           \A i \in RowIdx : Live(pmap'[i]) =>
             /\ Elapsed(pmap'[i].ts, uptime) < PMAP_TIMEOUT
             /\ \E f \in flows' : Uses(f, pmap'[i])
  PROVE  RowInv'
<1> SUFFICES ASSUME quiet' <= QuietBound, NEW i \in RowIdx, Live(pmap'[i])
             PROVE  /\ Elapsed(pmap'[i].ts, uptime') < PMAP_TIMEOUT + quiet'
                    /\ \E f \in flows' : Uses(f, pmap'[i])
  BY DEF RowInv, RowOK, InUse, QuietBound
<1>1. quiet <= QuietBound /\ quiet' = 0
  BY SweepInTime
<1>2. PMAP_TIMEOUT + quiet' = PMAP_TIMEOUT
  BY <1>1, QuietFacts
<1>3. QED
  BY <1>1, <1>2

LEMMA RowsSweepOnly ==
  ASSUME IInv, RowInv, Sweeps, uptime' = uptime, flows' = flows, pmap' = Swept
  PROVE  RowInv'
BY SweptInUse, RowInvNow DEF InUse

(* What is used now, by its flow, is in order.                             *)
LEMMA FreshInUse ==
  ASSUME IInv, NEW row, row.ts = uptime
  PROVE  Elapsed(row.ts, uptime) < PMAP_TIMEOUT
BY QuietFacts, ElapsedNow

LEMMA RowsEthKnown ==
  ASSUME SingleServer, IInv, RowInv, RowsHaveServer,
         NEW proto \in Protocols, NEW client \in ClientIPs,
         NEW ethPort \in EthPorts, NEW server \in ServerIPs,
         EthKnownFlow(proto, client, ethPort, server)
  PROVE  RowInv'
<1>1. PICK i \in RowIdx :
        /\ IsFirst(i, RowsByClient(Swept, proto, client, ethPort))
        /\ pmap' = Touched(i)
        /\ flows' = Sent(proto, client, ethPort, server, Swept[i].lte_port)
  BY DEF EthKnownFlow
<1>2. Sweeps /\ uptime' = uptime
  BY DEF EthKnownFlow
<1>3. /\ Swept[i].ip_protocol = proto
      /\ Swept[i].client_ip = client
      /\ Swept[i].eth_port = ethPort
      /\ Live(Swept[i])
  BY <1>1, ProtocolsAreLive DEF IsFirst, RowsByClient, Live
<1>4. Swept[i].server_ip = server
  BY <1>3, ServerOfSweptRow, SingleServer DEF SingleServer
<1> SUFFICES ASSUME quiet <= QuietBound, NEW j \in RowIdx, Live(pmap'[j])
             PROVE  /\ Elapsed(pmap'[j].ts, uptime) < PMAP_TIMEOUT
                    /\ \E f \in flows' : Uses(f, pmap'[j])
  BY <1>2, RowInvNow
<1>5. CASE j = i
  <2> DEFINE new == [proto |-> proto, client |-> client, eport |-> ethPort,
                     server |-> server, lport |-> Swept[i].lte_port, at |-> uptime]
  <2>1. pmap'[i].ts = uptime
    BY <1>1, TableFacts DEF Touched, pmap_row_t
  <2>2. new \in flows'
    BY <1>1 DEF Sent
  <2>3. Uses(new, pmap'[i])
    BY <1>1, <1>3, <1>4, <2>1, TableFacts DEF Touched, Uses, Serves, pmap_row_t
  <2>4. QED
    BY <1>5, <2>1, <2>2, <2>3, FreshInUse
<1>6. CASE j # i
  <2>1. pmap'[j] = Swept[j]
    BY <1>1, <1>6, TableFacts DEF Touched
  <2>2. PICK f \in flows : Uses(f, Swept[j])
    BY <2>1, SweptInUse DEF InUse
  <2>3. ~(Swept[j].ip_protocol = proto /\ Swept[j].lte_port = Swept[i].lte_port)
    BY <1>3, <1>6, TableFacts, PortIsOneRow
  <2>4. f \in flows'
    BY <1>1, <2>2, <2>3 DEF Sent, Uses, Serves
  <2>5. QED
    BY <2>1, <2>2, <2>4, SweptInUse
<1>7. QED
  BY <1>5, <1>6

LEMMA RowsEthNew ==
  ASSUME IInv, RowInv,
         NEW proto \in Protocols, NEW client \in ClientIPs,
         NEW ethPort \in EthPorts, NEW server \in ServerIPs,
         EthNewFlow(proto, client, ethPort, server)
  PROVE  RowInv'
<1>1. PICK i \in RowIdx, lport \in LtePorts :
        /\ ~Live(Swept[i])
        /\ ~is_dup(Swept, proto, lport)
        /\ pmap' = [Swept EXCEPT ![i] =
                     NewRow(proto, client, ethPort, server, lport)]
        /\ flows' = Sent(proto, client, ethPort, server, lport)
        /\ Sweeps /\ uptime' = uptime
  BY TableFacts, NewFlowFills DEF RestOK
<1> SUFFICES ASSUME quiet <= QuietBound, NEW j \in RowIdx, Live(pmap'[j])
             PROVE  /\ Elapsed(pmap'[j].ts, uptime) < PMAP_TIMEOUT
                    /\ \E f \in flows' : Uses(f, pmap'[j])
  BY <1>1, RowInvNow
<1>2. CASE j = i
  <2> DEFINE new == [proto |-> proto, client |-> client, eport |-> ethPort,
                     server |-> server, lport |-> lport, at |-> uptime]
  <2>1. pmap'[i] = NewRow(proto, client, ethPort, server, lport)
    BY <1>1, TableFacts
  <2>2. new \in flows'
    BY <1>1 DEF Sent
  <2>3. Uses(new, pmap'[i])
    BY <2>1 DEF Uses, Serves, NewRow
  <2>4. pmap'[i].ts = uptime
    BY <2>1 DEF NewRow
  <2>5. QED
    BY <1>2, <2>2, <2>3, <2>4, FreshInUse
<1>3. CASE j # i
  <2>1. pmap'[j] = Swept[j]
    BY <1>1, <1>3, TableFacts
  <2>2. PICK f \in flows : Uses(f, Swept[j])
    BY <2>1, SweptInUse DEF InUse
  <2>3. ~(Swept[j].ip_protocol = proto /\ Swept[j].lte_port = lport)
    BY <1>1, <2>1 DEF is_dup, SamePool
  <2>4. f \in flows'
    BY <1>1, <2>2, <2>3 DEF Sent, Uses, Serves
  <2>5. QED
    BY <2>1, <2>2, <2>4, SweptInUse
<1>4. QED
  BY <1>2, <1>3

LEMMA RowsLteKnown ==
  ASSUME IInv, RowInv, NEW proto \in Protocols, NEW server, NEW lport,
         LteKnownPort(proto, server, lport)
  PROVE  RowInv'
<1>1. PICK i \in RowIdx :
        /\ IsFirst(i, RowsByServer(Swept, proto, server, lport))
        /\ pmap' = Touched(i)
  BY DEF LteKnownPort
<1>2. /\ flows' = Answered(proto, server, lport)
      /\ Sweeps /\ uptime' = uptime
  BY DEF LteKnownPort
<1>3. /\ Swept[i].ip_protocol = proto
      /\ Swept[i].server_ip = server
      /\ Swept[i].lte_port = lport
      /\ Live(Swept[i])
  BY <1>1, ProtocolsAreLive DEF IsFirst, RowsByServer, Live
<1> SUFFICES ASSUME quiet <= QuietBound, NEW j \in RowIdx, Live(pmap'[j])
             PROVE  /\ Elapsed(pmap'[j].ts, uptime) < PMAP_TIMEOUT
                    /\ \E f \in flows' : Uses(f, pmap'[j])
  BY <1>2, RowInvNow
<1>4. CASE j = i
  <2>1. PICK f \in flows : Uses(f, Swept[i])
    BY <1>3, SweptInUse DEF InUse
  <2> DEFINE new == [f EXCEPT !.at = uptime]
  <2>2. f.proto = proto /\ f.server = server /\ f.lport = lport
    BY <1>3, <2>1 DEF Uses, Serves
  <2>3. new \in flows'
    BY <1>2, <2>2 DEF Answered
  <2>4. pmap'[i].ts = uptime
    BY <1>1, TableFacts DEF Touched, pmap_row_t
  <2>5. Uses(new, pmap'[i])
    BY <1>1, <2>1, <2>4, TableFacts, FlowFacts
       DEF Touched, Uses, Serves, pmap_row_t, Flow
  <2>6. QED
    BY <1>4, <2>3, <2>4, <2>5, FreshInUse
<1>5. CASE j # i
  <2>1. pmap'[j] = Swept[j]
    BY <1>1, <1>5, TableFacts DEF Touched
  <2>2. PICK f \in flows : Uses(f, Swept[j])
    BY <2>1, SweptInUse DEF InUse
  <2>3. ~(Swept[j].ip_protocol = proto /\ Swept[j].lte_port = lport)
    BY <1>3, <1>5, TableFacts, PortIsOneRow
  <2>4. f \in flows'
    BY <1>2, <2>2, <2>3 DEF Answered, Uses, Serves
  <2>5. QED
    BY <2>1, <2>2, <2>4, SweptInUse
<1>6. QED
  BY <1>4, <1>5

LEMMA RowsTick == IInv /\ RowInv /\ Tick => RowInv'
<1> SUFFICES ASSUME IInv, RowInv, Tick, quiet' <= QuietBound,
                    NEW i \in RowIdx, Live(pmap'[i])
             PROVE  /\ Elapsed(pmap'[i].ts, uptime') < PMAP_TIMEOUT + quiet'
                    /\ Elapsed(pmap'[i].ts, uptime') < PMAP_TIMEOUT =>
                         \E f \in flows' : Uses(f, pmap'[i])
  BY DEF RowInv, RowOK, InUse, QuietBound
<1>1. /\ pmap' = pmap /\ uptime' = (uptime + 1) % W
      /\ quiet <= QuietBound /\ quiet' = quiet + 1
  BY QuietFacts DEF Tick
<1>2. RowOK(pmap[i])
  BY <1>1 DEF RowInv
<1>3. pmap[i].ts \in Uptime /\ uptime \in Uptime
      /\ Elapsed(pmap[i].ts, uptime) \in Int
  BY TableFacts, RowAge
<1>4. Elapsed(pmap[i].ts, uptime) < W - 1
  BY <1>1, <1>2, <1>3, QuietFacts DEF RowOK
<1>5. Elapsed(pmap[i].ts, uptime') = Elapsed(pmap[i].ts, uptime) + 1
  BY <1>1, <1>3, <1>4, ElapsedTick
<1>6. ASSUME Elapsed(pmap[i].ts, uptime') < PMAP_TIMEOUT
      PROVE  \E f \in flows' : Uses(f, pmap[i])
  <2>1. Elapsed(pmap[i].ts, uptime) < PMAP_TIMEOUT
    BY <1>3, <1>5, <1>6, QuietFacts
  <2>2. PICK f \in flows : Uses(f, pmap[i])
    BY <1>2, <2>1 DEF RowOK, InUse
  <2>3. f \in flows'
    BY <1>6, <2>2 DEF Tick, Uses, Elapsed
  <2>4. QED
    BY <2>2, <2>3
<1>7. Elapsed(pmap[i].ts, uptime') < PMAP_TIMEOUT + quiet'
  BY <1>1, <1>2, <1>3, <1>5, QuietFacts DEF RowOK
<1>8. QED
  BY <1>1, <1>6, <1>7

LEMMA RowsKept ==
  ASSUME SingleServer
  PROVE  IInv /\ RowsHaveServer /\ RowInv /\ [Next]_vars => RowInv'
<1> SUFFICES ASSUME IInv, RowsHaveServer, RowInv, [Next]_vars PROVE RowInv'
  OBVIOUS
<1>1. CASE EthPacket
  BY <1>1, RowsEthKnown, RowsEthNew, RowsSweepOnly
     DEF EthPacket, EthPacketFrom, EthTableFull, EthGeneratorSpins
<1>2. CASE LtePacket
  BY <1>2, RowsLteKnown, RowsSweepOnly DEF LtePacket, LteInvalidPort
<1>3. CASE Tick
  BY <1>3, RowsTick
<1>4. CASE UNCHANGED vars
  BY <1>4 DEF vars, RowInv, RowOK, InUse, QuietBound
<1>5. QED
  BY <1>1, <1>2, <1>3, <1>4 DEF Next

(* With one server, what the gateway still maps after a sweep was used     *)
(* within the lease, as long as no more than QuietBound ticks pass between *)
(* two sweeps; the bound is the wrap of the 32-bit counter less a lease.   *)
THEOREM MappingsEndWithTraffic ==
  ASSUME SingleServer
  PROVE  Spec => []NoStaleBinding
<1>1. Init => RowInv
  BY EmptyRowType DEF Init, RowInv
<1>2. IInv /\ RowInv => NoStaleBinding
  <2> SUFFICES ASSUME IInv, RowInv, quiet <= QuietBound,
                      NEW i \in RowIdx, Live(Swept[i])
               PROVE  \E f \in flows : i \in ReplyRows(f)
    BY DEF NoStaleBinding
  <2>1. PICK f \in flows : Uses(f, Swept[i])
    BY SweptInUse DEF InUse
  <2>2. i \in ReplyRows(f)
    BY <2>1 DEF Uses, Serves, ReplyRows, RowsByServer
  <2>3. QED
    BY <2>2
<1>3. Spec => [](IInv /\ RowsHaveServer)
  BY Invariance, ServersOfRows, SpecIsApiSpec, PTL
<1>4. QED
  BY <1>1, <1>2, <1>3, RowsKept, PTL DEF Spec
=============================================================================
