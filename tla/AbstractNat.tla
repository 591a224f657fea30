----------------------------- MODULE AbstractNat -----------------------------
(***************************************************************************)
(* What a port mapper promises, without rows, sweeps, searches or clocks:  *)
(* a set of bindings between a client endpoint and a public port in which  *)
(* no client endpoint is bound twice and no public port of a pool is given *)
(* to two endpoints.  A step may drop any bindings and add at most one;    *)
(* a binding is never altered.                                             *)
(***************************************************************************)
CONSTANTS Binding,  \* records with proto, client, eport, server and lport
          Echo      \* the protocol that has a pool of public ports of its own

VARIABLE bindings

SameClient(a, b) ==
  a.proto = b.proto /\ a.client = b.client /\ a.eport = b.eport

SamePort(a, b) ==
  ((a.proto = Echo) <=> (b.proto = Echo)) /\ a.lport = b.lport

Init == bindings = {}

Drop == bindings' \subseteq bindings

(* Bind b, which clashes with nothing that is kept.                        *)
Bind(b) ==
  /\ b \in bindings'
  /\ bindings' \subseteq bindings \cup {b}
  /\ \A k \in bindings' \ {b} : ~SameClient(k, b) /\ ~SamePort(k, b)

Next == Drop \/ \E b \in Binding : Bind(b)

Spec == Init /\ [][Next]_bindings
=============================================================================
