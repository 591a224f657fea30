------------------------------ MODULE MCPortMap ------------------------------
(* Small instances of PortMap for TLC.                                     *)
EXTENDS PortMap, TLC

CONSTANTS c1, c2, c3, s1, s2

OneServer    == {s1}
TwoServers   == {s1, s2}
TwoClients   == {c1, c2}
ThreeClients == {c1, c2, c3}
OnePort      == {7}

UdpAndEcho == {IPPROTO_UDP, IPPROTO_ICMP}
UdpAndTcp  == {IPPROTO_UDP, IPPROTO_TCP}
UdpOnly    == {IPPROTO_UDP}
EchoOnly   == {IPPROTO_ICMP}

(* Addresses are only compared for equality.                               *)
Interchangeable ==
  Permutations(ClientIPs) \cup Permutations(ServerIPs)

(* Times are only compared with uptime, modulo W, and the ts of a free row *)
(* is never read: two states that differ only in these, and in quiet,      *)
(* behave alike and satisfy the same of the properties that PortMapApi     *)
(* checks.                                                                 *)
Age(time) == (uptime - time) % W

Ages ==
  <<[i \in RowIdx |-> [pmap[i] EXCEPT !.ts = IF Live(pmap[i]) THEN Age(@) ELSE 0]],
    {[f EXCEPT !.at = Age(@)] : f \in flows}, port_seq, spinning>>
=============================================================================
