------------------------------ MODULE MCPackets ------------------------------
(* A small instance of Packets and of AtParser for TLC.  They share        *)
(* nothing: each runs while the other is as it was at the start.           *)
EXTENDS Packets, AtParser

(* Data that is even and odd, makes carries, and is one byte too long.     *)
SomeData == {<< >>, <<15>>, <<1, 0, 15>>, <<1, 2, 3, 4>>}

(* Two clients with one port.  A byte that is damaged by 8 makes the port  *)
(* at LTE that of the other, and the port of the client that of no row.    *)
SomeRows ==
  {[client |-> 9, eth_port |-> 14, lte_port |-> 11],
   [client |-> 5, eth_port |-> 14, lte_port |-> 3]}

(* Numbers of one to three characters, texts, and responses without a      *)
(* space, and with a number or a text that does not end as it should.      *)
SomeChars == Digits \cup Signs \cup {"X", ":", " ", ",", "\"", "r", "zero", "a", "b", "z", "E"}
SomeNumbers == {7, -5, 255}
SomeTexts == {<< >>, <<"a", "b">>}
OtherForms == {<<"E", "r">>, Name \o <<"1", "2", "z", "r">>,
               Name \o <<"\"", "a", "r">>}

DataInit == Init /\ atInit

DataNext ==
  \/ Next /\ buf = << >> /\ UNCHANGED atVars
  \/ at_cesq_read2 /\ meant = << >> /\ UNCHANGED vars

DataSpec == DataInit /\ [][DataNext]_<<vars, atVars>>

(* The two ways share nothing: each is explored with the other untouched;  *)
(* and with what undamaged packets of the first row leave in its buffer.   *)
(* The reader goes on after responses that fail, after short ones and the  *)
(* longest.                                                                *)
Untouched == [i \in 1..NRF9160_MTU |-> 0]

Longest == [i \in 1..MaxFields |-> StrField(<<"a", "b">>, 2)]

Continues ==
  /\ lte_tx_ip_pkt = Untouched \/ lte_rx_ip_raw_packet = Untouched
  /\ ~damaged
  /\ meant = << >> \/ meant[5] = 9 \/ meant[8] = 11
  /\ Len(said) < MaxFields \/ said = Longest
=============================================================================
