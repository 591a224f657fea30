------------------------------ MODULE PmapTable ------------------------------
(***************************************************************************)
(* The port-mapping table of pmap.c as constant-level operators: the row   *)
(* and table types, the timeout test, the sweep, the two searches and the  *)
(* two port generators of gateway.c.  A module that has the table as a     *)
(* variable EXTENDS this one.                                              *)
(*                                                                         *)
(* Addresses are members of small sets (NoIP is the all-zero address),     *)
(* ports are numbers, and time is counted in ticks modulo W, the modulus   *)
(* of k_uptime_get_32().                                                   *)
(***************************************************************************)
EXTENDS Integers, FiniteSets

CONSTANTS
  MAX_PMAP_ROWS,  \* rows of the table (2048 in pmap.h)
  PMAP_TIMEOUT,   \* lease of a mapping, in ticks (PMAP_TIMEOUT_MS, 20 s)
  W,              \* modulus of the uptime counter (2^32 ms)
  PORT_SEQ_BASE,  \* port_seq_base (32768)
  SEQ_FACTOR,     \* port_seq_max is MAX_PMAP_ROWS * SEQ_FACTOR (4)
  ICMP_IDS,       \* number of echo identifiers handed out (256)
  Protocols,      \* the IP protocols in use, among ICMP, UDP and TCP
  ClientIPs,      \* addresses of the LAN clients
  ServerIPs,      \* addresses of the servers behind LTE
  EthPorts,       \* UDP/TCP source ports, and echo identifiers, of clients
  NoIP            \* the address 0.0.0.0 of a cleared row

IPPROTO_ICMP == "ICMP"
IPPROTO_UDP  == "UDP"
IPPROTO_TCP  == "TCP"
NoProto      == "none"   \* ip_protocol = 0, a free row

ASSUME PmapAssumption ==
  /\ MAX_PMAP_ROWS \in Nat \ {0}
  /\ W \in Nat \ {0}
  /\ PMAP_TIMEOUT \in 1..(W - 1)
  /\ PORT_SEQ_BASE \in Nat
  /\ SEQ_FACTOR \in Nat \ {0}
  /\ ICMP_IDS \in Nat \ {0}
  /\ Protocols \subseteq {IPPROTO_ICMP, IPPROTO_UDP, IPPROTO_TCP}
  /\ EthPorts \subseteq Nat
  /\ NoIP \notin ClientIPs \cup ServerIPs

port_seq_max == MAX_PMAP_ROWS * SEQ_FACTOR

(* The uint16_t of port_seq + port_seq_base does not overflow.             *)
ASSUME PortWidthAssumption == PORT_SEQ_BASE + port_seq_max < 65536

RowIdx == 0..(MAX_PMAP_ROWS - 1)
Uptime == 0..(W - 1)
LtePorts ==
  (0..(ICMP_IDS - 1)) \cup (PORT_SEQ_BASE..(PORT_SEQ_BASE + port_seq_max))

pmap_row_t ==
  [ip_protocol : Protocols \cup {NoProto},
   client_ip   : ClientIPs \cup {NoIP},
   eth_port    : EthPorts \cup {0},
   server_ip   : ServerIPs \cup {NoIP},
   lte_port    : LtePorts \cup {0},
   ts          : Uptime]

(* What memset leaves in every row (init_pmap), and in a removed one.      *)
EmptyRow ==
  [ip_protocol |-> NoProto, client_ip |-> NoIP, eth_port |-> 0,
   server_ip |-> NoIP, lte_port |-> 0, ts |-> 0]

Live(row) == row.ip_protocol # NoProto

-----------------------------------------------------------------------------
(* Time.                                                                   *)

\* Mistake on purpose: the wrap of the counter is off by one.
is_timeout_WrapShort(timeout, start, current) ==
  IF start <= current THEN current - start >= timeout
                      ELSE (W - 1) - start + current >= timeout

\* Mistake on purpose: a lease ends a tick early.
is_timeout_Early(timeout, start, current) ==
  (current - start) % W >= timeout - 1

(* is_timeout: the two branches of the 32-bit subtraction.                 *)
is_timeout(timeout, start, current) ==
  IF start <= current THEN current - start >= timeout
                      ELSE ((W - 1) - start + current + 1) % W >= timeout

(* A row swept by __gc_pmap keeps its ts, unlike a removed one.            *)
Cleared(row) == [EmptyRow EXCEPT !.ts = row.ts]

(* __gc_pmap: every row whose lease is over is cleared.                    *)
gc_pmap(t, now) ==
  [i \in RowIdx |->
     IF Live(t[i]) /\ is_timeout(PMAP_TIMEOUT, t[i].ts, now)
       THEN Cleared(t[i]) ELSE t[i]]

-----------------------------------------------------------------------------
(* Searches.  The C loops return the first row that matches.               *)

IsFirst(i, S) == i \in S /\ \A j \in S : i <= j

FreeRows(t) == {i \in RowIdx : ~Live(t[i])}

\* Mistake on purpose: the port is compared, the client is not.
RowsByClient_PortOnly(t, proto, client, ethPort) ==
  {i \in RowIdx : t[i].ip_protocol = proto /\ t[i].eth_port = ethPort}

\* Mistake on purpose: the loop returns NULL after the first row.
RowsByClient_FirstRow(t, proto, client, ethPort) ==
  {i \in {0} : /\ t[i].ip_protocol = proto
               /\ t[i].client_ip = client
               /\ t[i].eth_port = ethPort}

RowsByClient(t, proto, client, ethPort) ==
  {i \in RowIdx : /\ t[i].ip_protocol = proto
                  /\ t[i].client_ip = client
                  /\ t[i].eth_port = ethPort}

RowsByServer(t, proto, server, ltePort) ==
  {i \in RowIdx : /\ t[i].ip_protocol = proto
                  /\ t[i].server_ip = server
                  /\ t[i].lte_port = ltePort}

-----------------------------------------------------------------------------
(* Port generators.  Each turn of `while (port == 0)' advances port_seq    *)
(* and tries one candidate; the candidates repeat after port_seq_max + 1   *)
(* turns, so a generator that has no free step never returns.              *)

\* Mistake on purpose: port_seq does not wrap.
SeqAfter_NoWrap(seq, k) == seq + k

SeqAfter(seq, k) == (seq + k) % (port_seq_max + 1)

\* Mistake on purpose: port_seq is left out of the port.
Candidate_NoSeq(proto, seq) ==
  IF proto = IPPROTO_ICMP THEN seq % ICMP_IDS ELSE PORT_SEQ_BASE

Candidate(proto, seq) ==
  IF proto = IPPROTO_ICMP THEN seq % ICMP_IDS ELSE seq + PORT_SEQ_BASE

(* UDP and TCP rows share one pool of ports, ICMP rows another.            *)
SamePool(p, q) == (p = IPPROTO_ICMP) <=> (q = IPPROTO_ICMP)

\* Mistake on purpose: only rows of the very same protocol are compared
\* and the answer is taken from the first row alone.
is_dup_FirstRowOnly(t, proto, port) ==
  Live(t[0]) /\ SamePool(proto, t[0].ip_protocol) /\ t[0].lte_port = port

is_dup(t, proto, port) ==
  \E i \in RowIdx : /\ Live(t[i])
                    /\ SamePool(proto, t[i].ip_protocol)
                    /\ t[i].lte_port = port

FreeSteps(t, proto, seq) ==
  {k \in 1..(port_seq_max + 1) :
     ~is_dup(t, proto, Candidate(proto, SeqAfter(seq, k)))}
=============================================================================
