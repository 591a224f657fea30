------------------------------- MODULE PortMap -------------------------------
(***************************************************************************)
(* The port mapper: the table of pmap.c with the code of gateway.c that    *)
(* fills it from Ethernet (the protocol switch of eth_recv_cb) and reads   *)
(* it for packets from LTE (the protocol switch of eth_tx_thread_func).    *)
(*                                                                         *)
(* Here each use of the table is one step; PmapRace splits the same code   *)
(* into its reads and writes.                                              *)
(***************************************************************************)
EXTENDS PmapTable

VARIABLES
  pmap,      \* the table
  port_seq,  \* the generators' counter
  uptime,    \* k_uptime_get_32()
  spinning,  \* a port generator is in a loop that cannot end
  flows,     \* history: what was sent out, or answered, within the lease
  quiet      \* history: ticks since the last sweep, stuck once it is too long

vars == <<pmap, port_seq, uptime, spinning, flows, quiet>>

Flow ==
  [proto : Protocols, client : ClientIPs, eport : EthPorts,
   server : ServerIPs, lport : LtePorts, at : Uptime]

TypeOK ==
  /\ pmap \in [RowIdx -> pmap_row_t]
  /\ port_seq \in 0..port_seq_max
  /\ uptime \in Uptime
  /\ spinning \in BOOLEAN
  /\ flows \subseteq Flow
  /\ quiet \in 0..(W + 1)

(* init_pmap, called by eth_start before the threads exist.                *)
Init ==
  /\ pmap = [i \in RowIdx |-> EmptyRow]
  /\ port_seq = 0
  /\ uptime = 0
  /\ spinning = FALSE
  /\ flows = {}
  /\ quiet = 0

(* A row left unswept for W ticks looks fresh again to is_timeout.  As     *)
(* long as quiet is at most QuietBound no row has been left that long.     *)
QuietBound == W - PMAP_TIMEOUT
Sweeps == quiet' = IF quiet <= QuietBound THEN 0 ELSE quiet

Swept == gc_pmap(pmap, uptime)

(* Row i becomes the most recently used one.                               *)
Touched(i) == [Swept EXCEPT ![i].ts = uptime]

(* The flow that a packet sent with lte port lport belongs to, and the     *)
(* history once that packet is sent.                                       *)
Sent(proto, client, ethPort, server, lport) ==
  {f \in flows : ~ /\ f.proto = proto /\ f.client = client
                   /\ f.eport = ethPort /\ f.server = server
                   /\ f.lport = lport}
  \cup {[proto |-> proto, client |-> client, eport |-> ethPort,
         server |-> server, lport |-> lport, at |-> uptime]}

(* A reply to lport from server renews the flows it answers.               *)
Answered(proto, server, lport) ==
  {IF f.proto = proto /\ f.server = server /\ f.lport = lport
     THEN [f EXCEPT !.at = uptime] ELSE f : f \in flows}

-----------------------------------------------------------------------------
(* A packet from Ethernet.                                                 *)

(* search_pmap_by_client_info finds the client's row: its port is reused,  *)
(* whatever the server of this packet.                                     *)
EthKnownFlow(proto, client, ethPort, server) ==
  /\ ~spinning
  /\ \E i \in RowIdx :
       /\ IsFirst(i, RowsByClient(Swept, proto, client, ethPort))
       /\ pmap' = Touched(i)
       /\ flows' = Sent(proto, client, ethPort, server, Swept[i].lte_port)
  /\ Sweeps /\ UNCHANGED <<port_seq, uptime, spinning>>

NeedsPort(proto, client, ethPort) ==
  ~spinning /\ RowsByClient(Swept, proto, client, ethPort) = {}

\* Mistake on purpose: the generator ignores the rows already there.
GeneratedStep_NoDupCheck(k, proto) == k = 1

(* The generator stops at its first candidate that is not a duplicate.     *)
GeneratedStep(k, proto) == IsFirst(k, FreeSteps(Swept, proto, port_seq))

(* No row yet: a port is generated and add_pmap fills the first free row,  *)
(* without a look at the others.                                           *)
EthNewFlow(proto, client, ethPort, server) ==
  /\ NeedsPort(proto, client, ethPort)
  /\ \E k \in 1..(port_seq_max + 1), i \in RowIdx :
       LET seq   == SeqAfter(port_seq, k)
           lport == Candidate(proto, seq)
       IN  /\ GeneratedStep(k, proto)
           /\ IsFirst(i, FreeRows(Swept))
           /\ port_seq' = seq
           /\ pmap' = [Swept EXCEPT ![i] =
                [ip_protocol |-> proto, client_ip |-> client,
                 eth_port |-> ethPort, server_ip |-> server,
                 lte_port |-> lport, ts |-> uptime]]
           /\ flows' = Sent(proto, client, ethPort, server, lport)
  /\ Sweeps /\ UNCHANGED <<uptime, spinning>>

(* The table is full: add_pmap returns NULL and the packet is dropped, but *)
(* the generator has moved port_seq.                                       *)
EthTableFull(proto, client, ethPort) ==
  /\ NeedsPort(proto, client, ethPort)
  /\ FreeRows(Swept) = {}
  /\ \E k \in 1..(port_seq_max + 1) :
       /\ GeneratedStep(k, proto)
       /\ port_seq' = SeqAfter(port_seq, k)
  /\ pmap' = Swept
  /\ Sweeps /\ UNCHANGED <<uptime, spinning, flows>>

(* Every candidate is a duplicate: the callback never leaves the loop, and *)
(* as it runs above every application thread nothing else runs either.     *)
EthGeneratorSpins(proto, client, ethPort) ==
  /\ NeedsPort(proto, client, ethPort)
  /\ FreeSteps(Swept, proto, port_seq) = {}
  /\ spinning' = TRUE
  /\ pmap' = Swept
  /\ Sweeps /\ UNCHANGED <<port_seq, uptime, flows>>

-----------------------------------------------------------------------------
(* A packet from LTE.                                                      *)

LteKnownPort(proto, server, lport) ==
  /\ ~spinning
  /\ \E i \in RowIdx :
       /\ IsFirst(i, RowsByServer(Swept, proto, server, lport))
       /\ pmap' = Touched(i)
  /\ flows' = Answered(proto, server, lport)
  /\ Sweeps /\ UNCHANGED <<port_seq, uptime, spinning>>

LteInvalidPort(proto, server, lport) ==
  /\ ~spinning
  /\ RowsByServer(Swept, proto, server, lport) = {}
  /\ pmap' = Swept
  /\ Sweeps /\ UNCHANGED <<port_seq, uptime, spinning, flows>>

-----------------------------------------------------------------------------
(* The updates and removals of pmap.h, which the gateway does not call.    *)
(* update_pmap_by_* has the body of the search by the same key.            *)

UpdateBy(rows) ==
  /\ ~spinning
  /\ \/ \E i \in RowIdx : IsFirst(i, rows) /\ pmap' = Touched(i)
     \/ rows = {} /\ pmap' = Swept
  /\ Sweeps /\ UNCHANGED <<port_seq, uptime, spinning, flows>>

update_pmap_by_client_info(proto, client, ethPort) ==
  UpdateBy(RowsByClient(Swept, proto, client, ethPort))

update_pmap_by_server_info(proto, server, lport) ==
  UpdateBy(RowsByServer(Swept, proto, server, lport))

(* remove_pmap_by_*: the first row that matches is cleared, ts included,   *)
(* and with it the flows of its client endpoint end.                       *)
RemoveBy(rows) ==
  /\ ~spinning
  /\ \/ \E i \in RowIdx :
          /\ IsFirst(i, rows)
          /\ pmap' = [Swept EXCEPT ![i] = EmptyRow]
          /\ flows' = {f \in flows : ~ /\ f.proto = pmap[i].ip_protocol
                                       /\ f.client = pmap[i].client_ip
                                       /\ f.eport = pmap[i].eth_port}
     \/ rows = {} /\ pmap' = Swept /\ UNCHANGED flows
  /\ Sweeps /\ UNCHANGED <<port_seq, uptime, spinning>>

remove_pmap_by_client_info(proto, client, ethPort) ==
  RemoveBy(RowsByClient(Swept, proto, client, ethPort))

remove_pmap_by_server_info(proto, server, lport) ==
  RemoveBy(RowsByServer(Swept, proto, server, lport))

-----------------------------------------------------------------------------
(* Time passes; flows whose lease is over leave the history.               *)
Tick ==
  /\ uptime' = (uptime + 1) % W
  /\ flows' = {f \in flows : (uptime' - f.at) % W < PMAP_TIMEOUT}
  /\ quiet' = IF quiet <= QuietBound THEN quiet + 1 ELSE quiet
  /\ UNCHANGED <<pmap, port_seq, spinning>>

EthPacketFrom(proto, client, ethPort) ==
  \/ \E server \in ServerIPs :
       \/ EthKnownFlow(proto, client, ethPort, server)
       \/ EthNewFlow(proto, client, ethPort, server)
  \/ EthTableFull(proto, client, ethPort)
  \/ EthGeneratorSpins(proto, client, ethPort)

EthPacket ==
  \E proto \in Protocols, client \in ClientIPs, ethPort \in EthPorts :
    EthPacketFrom(proto, client, ethPort)

LtePacket ==
  \E proto \in Protocols, server \in ServerIPs, lport \in LtePorts :
    \/ LteKnownPort(proto, server, lport)
    \/ LteInvalidPort(proto, server, lport)

OtherCalls ==
  \E proto \in Protocols :
    \/ \E client \in ClientIPs, ethPort \in EthPorts :
         \/ update_pmap_by_client_info(proto, client, ethPort)
         \/ remove_pmap_by_client_info(proto, client, ethPort)
    \/ \E server \in ServerIPs, lport \in LtePorts :
         \/ update_pmap_by_server_info(proto, server, lport)
         \/ remove_pmap_by_server_info(proto, server, lport)

(* The gateway as it is, and with updates and removals among its calls.    *)
(* add_pmap takes what it is given: it is called as the gateway does, when *)
(* the search found nothing and with a port from a generator.              *)
Next    == EthPacket \/ LtePacket \/ Tick
ApiNext == Next \/ OtherCalls

Spec    == Init /\ [][Next]_vars
ApiSpec == Init /\ [][ApiNext]_vars

-----------------------------------------------------------------------------
(* Properties.                                                             *)

SameEndpoint(r, s) ==
  /\ r.ip_protocol = s.ip_protocol
  /\ r.client_ip = s.client_ip
  /\ r.eth_port = s.eth_port

(* No two clients share a public port: two live rows of the same pool have *)
(* different lte_ports, after any sequence of calls, sweeps and wraps of   *)
(* the generators (lte_port_genarator, lte_port_genarator_icmp_echo).      *)
UniqueLtePort ==
  \A i, j \in RowIdx :
    /\ i # j
    /\ Live(pmap[i])
    /\ Live(pmap[j])
    /\ SamePool(pmap[i].ip_protocol, pmap[j].ip_protocol)
    => pmap[i].lte_port # pmap[j].lte_port

(* A client endpoint has at most one row, so that the port its packets     *)
(* leave with does not depend on which row a search meets first.           *)
UniqueClientKey ==
  \A i, j \in RowIdx :
    i # j /\ Live(pmap[i]) => ~SameEndpoint(pmap[i], pmap[j])

(* The row a reply to flow f is matched with, if any.                      *)
ReplyRows(f) == RowsByServer(Swept, f.proto, f.server, f.lport)

(* A reply is never handed to another client than the one that sent to     *)
(* that server from that port within the lease.                            *)
NoMisdelivery ==
  \A f \in flows : \A i \in ReplyRows(f) :
    Swept[i].client_ip = f.client /\ Swept[i].eth_port = f.eport

(* A server that a client sent to within the lease can answer: the search  *)
(* of eth_tx_thread_func finds a row for its reply.                        *)
ReplyRoutable == \A f \in flows : ReplyRows(f) # {}

(* A mapping outlives the traffic that keeps it by no more than its lease, *)
(* the wrap of the uptime counter included, as long as the table is swept  *)
(* in time for is_timeout to tell an old row from a fresh one.             *)
NoStaleBinding ==
  quiet <= QuietBound =>
    \A i \in RowIdx : Live(Swept[i]) => \E f \in flows : i \in ReplyRows(f)

(* A port generator fails to return only when every echo identifier is in  *)
(* use: never for UDP or TCP, whose pool is larger than the table.         *)
SpinsOnlyWithoutEchoIds ==
  spinning =>
    Cardinality({i \in RowIdx : pmap[i].ip_protocol = IPPROTO_ICMP}) >= ICMP_IDS

(* A full table makes the gateway drop the packet ("portmap overflow") and *)
(* never stops it.                                                         *)
GeneratorTerminates == ~spinning

(* The table implements a port mapper: its live rows are the bindings.     *)
BindingOf(row) ==
  [proto |-> row.ip_protocol, client |-> row.client_ip,
   eport |-> row.eth_port, server |-> row.server_ip, lport |-> row.lte_port]

Binding ==
  [proto : Protocols, client : ClientIPs, eport : EthPorts,
   server : ServerIPs, lport : LtePorts]

BindingsOf(t) == {BindingOf(t[i]) : i \in {j \in RowIdx : Live(t[j])}}

NatMap == INSTANCE AbstractNat WITH
  bindings <- BindingsOf(pmap), Binding <- Binding, Echo <- IPPROTO_ICMP

(* The gateway's packets in any order, with updates and removals between   *)
(* them, bind at most one client endpoint at a time to one port of nobody  *)
(* else's, and alter no binding: nothing in add_pmap itself would stop a   *)
(* second binding, the searches and generators before it do.               *)
ImplementsNat == NatMap!Spec
=============================================================================
