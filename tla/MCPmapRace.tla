----------------------------- MODULE MCPmapRace -----------------------------
(* Small instances of PmapRace for TLC.                                    *)
EXTENDS PmapRace, TLC

CONSTANTS c1, c2, s1

OneServer  == {s1}
TwoClients == {c1, c2}
OnePort    == {7}
UdpOnly    == {IPPROTO_UDP}
EchoOnly   == {IPPROTO_ICMP}

(* Addresses are only compared for equality.                               *)
Interchangeable == Permutations(ClientIPs)

(* Times are only compared with each other modulo W.  Of a free row only   *)
(* the protocol is read, and the ts if the sweep has found the row in use  *)
(* just before; its other fields are stored before it is used, or cleared. *)
(* Whether the use of a port was undone is recorded anew with every flow.  *)
(* A search for one identifier that no echo is given goes like one for     *)
(* another.  Two states that differ only in the rest of these, and in      *)
(* quiet, behave alike and satisfy the same of the properties of PmapRace. *)
NoRowHas(target) == target.ip_protocol = IPPROTO_ICMP /\ target.lte_port >= ICMP_IDS

TsIsRead(i) == Live(pmap[i]) \/ (tx.at \in {"test", "ts"} /\ tx.row = i)

Ages ==
  <<[i \in RowIdx |-> [(IF Live(pmap[i]) THEN pmap[i] ELSE EmptyRow)
                         EXCEPT !.ts = IF TsIsRead(i) THEN Age(pmap[i].ts) ELSE 0]],
    {[f EXCEPT !.at = Age(@)] : f \in flows},
    [tx EXCEPT !.read = IF tx.at \in {"ts", "clock", "stamp"} THEN Age(@) ELSE 0,
               !.target = IF NoRowHas(@) THEN [@ EXCEPT !.lte_port = ICMP_IDS] ELSE @],
    overrun \cap {<<f.proto, f.lport>> : f \in flows},
    port_seq, spinning, copy, meant, lapsed, used, torn>>
=============================================================================
