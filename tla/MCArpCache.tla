------------------------------ MODULE MCArpCache ------------------------------
(* Small instances of ArpCache for TLC.                                    *)
EXTENDS ArpCache, TLC

CONSTANTS i1, i2, i3, m1, m2

TwoHosts   == {i1, i2}
ThreeHosts == {i1, i2, i3}
OneMac     == {m1}
TwoMacs    == {m1, m2}

(* Addresses are only compared for equality.                               *)
Interchangeable == Permutations(IPs) \cup Permutations(MACs)
=============================================================================
