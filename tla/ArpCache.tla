------------------------------- MODULE ArpCache -------------------------------
(***************************************************************************)
(* arp_cache.c: the cache of client MAC addresses.  eth_recv_cb fills it,  *)
(* from ARP replies and from the frames it forwards; its calls are not     *)
(* interrupted by eth_tx_thread.  eth_tx_thread resolves a client in       *)
(* resolve_arp and may be interrupted anywhere: between any two accesses   *)
(* of the sweep, the search and the copy from the row found to the cache,  *)
(* or to a row and the uptime, and while it waits for an answer.           *)
(***************************************************************************)
EXTENDS Integers, FiniteSets

CONSTANTS
  MAX_ARP_CACHE_ROWS,  \* 96
  ARP_CACHE_TIMEOUT,   \* 20 minutes, in ticks
  RESOLVE_TIMEOUT,     \* what eth_tx_thread passes to resolve_arp, 1 s
  W,                   \* modulus of the uptime counter
  IPs, MACs,           \* hosts on the LAN
  NoIP, NoMac

ASSUME ArpAssumption ==
  /\ MAX_ARP_CACHE_ROWS \in Nat \ {0}
  /\ W \in Nat \ {0}
  /\ ARP_CACHE_TIMEOUT \in 1..(W - 1)
  /\ RESOLVE_TIMEOUT \in 1..(W - 1)
  /\ IsFiniteSet(IPs)
  /\ NoIP \notin IPs
  /\ NoMac \notin MACs

VARIABLES
  arp,     \* the rows of arp_cache
  uptime,  \* k_uptime_get_32()
  tx,      \* eth_tx_thread in resolve_arp
  heard,   \* history: what each host last sent with, within the lease
  lapsed,  \* history: the lease of the host's row ended during its search
  renewed, \* history: the row under the sweep was written between its reads
  changed, \* history: the row found got another address during the copy
  overrun  \* history: hosts heard into a row that the sweep then clears

vars == <<arp, uptime, tx, heard, lapsed, renewed, changed, overrun>>

Rows   == 0..(MAX_ARP_CACHE_ROWS - 1)
Uptime == 0..(W - 1)

arp_cache_row_t == [ip : IPs \cup {NoIP}, mac : MACs \cup {NoMac}, ts : Uptime]

(* The first word of a MAC address, and its last half-word.                *)
Halves == [head : MACs \cup {NoMac}, tail : MACs \cup {NoMac}]

Whole(mac) == [head |-> mac, tail |-> mac]

TxState ==
  [at : {"idle", "sweep", "test", "ts", "clock", "clear", "load", "ask", "wait",
         "hit", "copy", "done"},
   ip : IPs \cup {NoIP}, row : Rows, asked : BOOLEAN, since : Uptime,
   read : Uptime, mac : Halves]

TypeOK ==
  /\ arp \in [Rows -> arp_cache_row_t]
  /\ uptime \in Uptime
  /\ tx \in TxState
  /\ heard \in [IPs -> [mac : MACs \cup {NoMac}, at : Uptime]]
  /\ {lapsed, renewed, changed} \subseteq BOOLEAN
  /\ overrun \subseteq IPs

Idle ==
  [at |-> "idle", ip |-> NoIP, row |-> 0, asked |-> FALSE, since |-> 0,
   read |-> 0, mac |-> Whole(NoMac)]
Silent == [mac |-> NoMac, at |-> 0]

Init ==
  /\ arp = [i \in Rows |-> [ip |-> NoIP, mac |-> NoMac, ts |-> 0]]
  /\ uptime = 0
  /\ tx = Idle
  /\ heard = [ip \in IPs |-> Silent]
  /\ lapsed = FALSE
  /\ renewed = FALSE
  /\ changed = FALSE
  /\ overrun = {}

is_timeout(timeout, start, current) ==
  IF start <= current THEN current - start >= timeout
                      ELSE ((W - 1) - start + current + 1) % W >= timeout

IsFirst(i, S) == i \in S /\ \A j \in S : i <= j

(* __gc_arp_cache frees rows by their ip alone.                            *)
Overdue(row) == row.ip # NoIP /\ is_timeout(ARP_CACHE_TIMEOUT, row.ts, uptime)

Freed(row) == [row EXCEPT !.ip = NoIP]

gc_arp_cache(t) == [i \in Rows |-> IF Overdue(t[i]) THEN Freed(t[i]) ELSE t[i]]

RowsOf(t, ip) == {i \in Rows : t[i].ip = ip}

-----------------------------------------------------------------------------
(* update_arp_cache_by_ip: the row of ip, else the first free one, else    *)
(* nothing.                                                                *)
Fresh(ip, mac) == [ip |-> ip, mac |-> mac, ts |-> uptime]

\* Mistake on purpose: a free row is taken before the host's own is found.
Updated_FreeFirst(t, ip, mac) ==
  [i \in Rows |-> IF IsFirst(i, RowsOf(t, NoIP)) THEN Fresh(ip, mac) ELSE t[i]]

\* Mistake on purpose: a known host's address is kept.
Updated_KeepMac(t, ip, mac) ==
  LET room == IF RowsOf(t, ip) # {} THEN RowsOf(t, ip) ELSE RowsOf(t, NoIP)
  IN  [i \in Rows |->
         IF ~IsFirst(i, room) THEN t[i]
         ELSE IF t[i].ip = ip THEN Fresh(ip, t[i].mac) ELSE Fresh(ip, mac)]

\* Mistake on purpose: a known host's lease is not renewed.
Updated_KeepTime(t, ip, mac) ==
  LET room == IF RowsOf(t, ip) # {} THEN RowsOf(t, ip) ELSE RowsOf(t, NoIP)
  IN  [i \in Rows |->
         IF ~IsFirst(i, room) THEN t[i]
         ELSE IF t[i].ip = ip THEN [t[i] EXCEPT !.mac = mac] ELSE Fresh(ip, mac)]

\* Mistake on purpose: the lease starts a tick late, past the counter's wrap.
Updated_TsAhead(t, ip, mac) ==
  LET room == IF RowsOf(t, ip) # {} THEN RowsOf(t, ip) ELSE RowsOf(t, NoIP)
  IN  [i \in Rows |-> IF IsFirst(i, room)
                         THEN [ip |-> ip, mac |-> mac, ts |-> uptime + 1] ELSE t[i]]

\* Mistake on purpose: a full cache gives up its first row.
Updated_Evict(t, ip, mac) ==
  LET room == IF RowsOf(t, ip) # {} THEN RowsOf(t, ip)
              ELSE IF RowsOf(t, NoIP) # {} THEN RowsOf(t, NoIP) ELSE {0}
  IN  [i \in Rows |-> IF IsFirst(i, room) THEN Fresh(ip, mac) ELSE t[i]]

Updated(t, ip, mac) ==
  LET room == IF RowsOf(t, ip) # {} THEN RowsOf(t, ip) ELSE RowsOf(t, NoIP)
  IN  [i \in Rows |-> IF IsFirst(i, room) THEN Fresh(ip, mac) ELSE t[i]]

(* A host sends a frame that is forwarded to LTE, or answers an ARP        *)
(* request (operate_packet_arp, operation 2).  Requests of hosts change    *)
(* nothing: they are broadcast, and eth_recv_cb passes on only frames to   *)
(* the gateway's own address.                                              *)
Hear(ip, mac) ==
  LET written == arp'[tx.row].ip = ip   \* the row that eth_tx_thread looks at
  IN  /\ arp' = Updated(gc_arp_cache(arp), ip, mac)
      /\ heard' = [heard EXCEPT ![ip] = [mac |-> mac, at |-> uptime]]
      /\ renewed' = (renewed \/ (tx.at \in {"ts", "clock"} /\ written))
      /\ changed' = (changed \/ (tx.at = "copy" /\ arp'[tx.row].mac # arp[tx.row].mac))
      /\ overrun' = IF tx.at = "clear" /\ written THEN overrun \cup {ip}
                                                  ELSE overrun \ {ip}
      /\ UNCHANGED <<uptime, tx, lapsed>>

-----------------------------------------------------------------------------
(* resolve_arp, in eth_tx_thread.                                          *)

(* It takes the time and begins its first search.                          *)
Resolve(ip) ==
  /\ tx.at = "idle"
  /\ tx' = [Idle EXCEPT !.at = "sweep", !.ip = ip, !.since = uptime]
  /\ UNCHANGED <<arp, uptime, heard, lapsed, renewed, changed, overrun>>

NextSwept ==
  LET next == [tx EXCEPT !.read = 0]
  IN  IF tx.row + 1 \in Rows THEN [next EXCEPT !.at = "sweep", !.row = @ + 1]
                             ELSE [next EXCEPT !.at = "load", !.row = 0]

(* search_arp_cache_by_ip sweeps: a free row is skipped ...                *)
Sweep ==
  /\ tx.at = "sweep"
  /\ tx' = IF arp[tx.row].ip # NoIP THEN [tx EXCEPT !.at = "test"] ELSE NextSwept
  /\ UNCHANGED <<arp, uptime, heard, lapsed, renewed, changed, overrun>>

(* ... is_timeout is called for any other: of its ts and the uptime either *)
(* may be read first ...                                                   *)
Test ==
  /\ tx.at = "test"
  /\ \/ tx' = [tx EXCEPT !.at = "ts", !.read = uptime]
     \/ tx' = [tx EXCEPT !.at = "clock", !.read = arp[tx.row].ts]
  /\ UNCHANGED <<arp, uptime, heard, lapsed, renewed, changed, overrun>>

(* ... then the other one ...                                              *)
Decide ==
  LET row     == arp[tx.row]
      overdue == IF tx.at = "ts" THEN is_timeout(ARP_CACHE_TIMEOUT, row.ts, tx.read)
                                 ELSE is_timeout(ARP_CACHE_TIMEOUT, tx.read, uptime)
  IN  /\ tx.at \in {"ts", "clock"}
      /\ tx' = IF overdue THEN [tx EXCEPT !.at = "clear", !.read = 0] ELSE NextSwept
      /\ renewed' = FALSE
      /\ overrun' = overrun \cup IF overdue /\ renewed THEN {row.ip} \ {NoIP} ELSE {}
      /\ UNCHANGED <<arp, uptime, heard, lapsed, changed>>

(* ... and the row is freed, whatever it has become.                       *)
Clear ==
  /\ tx.at = "clear"
  /\ arp' = [arp EXCEPT ![tx.row] = Freed(@)]
  /\ tx' = NextSwept
  /\ UNCHANGED <<uptime, heard, lapsed, renewed, changed, overrun>>

(* The rows are compared in turn.  A host that is not found is asked for,  *)
(* once, and waited for.                                                   *)
Load ==
  /\ tx.at = "load"
  /\ tx' = IF arp[tx.row].ip = tx.ip THEN [tx EXCEPT !.at = "hit"]
           ELSE IF tx.row + 1 \in Rows THEN [tx EXCEPT !.row = @ + 1]
           ELSE [tx EXCEPT !.at = IF tx.asked THEN "wait" ELSE "ask"]
  /\ UNCHANGED <<arp, uptime, heard, lapsed, renewed, changed, overrun>>

(* The request is broadcast, or cannot be sent.                            *)
Ask ==
  /\ tx.at = "ask"
  /\ \/ tx' = [tx EXCEPT !.at = "wait", !.asked = TRUE]
     \/ tx' = [tx EXCEPT !.at = "done"]
  /\ UNCHANGED <<arp, uptime, heard, lapsed, renewed, changed, overrun>>

TimedOut == is_timeout(RESOLVE_TIMEOUT, tx.since, uptime)

(* A turn of the waiting loop: another search.                             *)
WaitTurn ==
  /\ tx.at = "wait"
  /\ ~TimedOut
  /\ tx' = [tx EXCEPT !.at = "sweep", !.row = 0]
  /\ lapsed' = FALSE
  /\ UNCHANGED <<arp, uptime, heard, renewed, changed, overrun>>

\* Mistake on purpose: the loop does not end by itself.
GiveUp_Never ==
  /\ tx.at = "wait"
  /\ TimedOut
  /\ UNCHANGED vars

GiveUp ==
  /\ tx.at = "wait"
  /\ TimedOut
  /\ tx' = [tx EXCEPT !.at = "done"]
  /\ UNCHANGED <<arp, uptime, heard, lapsed, renewed, changed, overrun>>

(* memcpy of the six bytes from the row found, whatever it has become: a   *)
(* word is loaded, then a half-word.                                       *)
CopyHead ==
  /\ tx.at = "hit"
  /\ tx' = [tx EXCEPT !.at = "copy", !.mac.head = arp[tx.row].mac]
  /\ UNCHANGED <<arp, uptime, heard, lapsed, renewed, changed, overrun>>

CopyTail ==
  /\ tx.at = "copy"
  /\ tx' = [tx EXCEPT !.at = "done", !.mac.tail = arp[tx.row].mac]
  /\ UNCHANGED <<arp, uptime, heard, lapsed, renewed, changed, overrun>>

(* The frame is sent to the address, or dropped.                           *)
Return ==
  /\ tx.at = "done"
  /\ tx' = Idle
  /\ lapsed' = FALSE
  /\ changed' = FALSE
  /\ UNCHANGED <<arp, uptime, heard, renewed, overrun>>

-----------------------------------------------------------------------------
(* Time passes, also during a search, which takes far less time than the   *)
(* counter needs to go round (BoundedSearch).                              *)
BoundedSearch ==
  tx.at \in {"idle", "wait"} \/ (uptime + 1 - tx.since) % W # 0

Tick ==
  /\ BoundedSearch
  /\ uptime' = (uptime + 1) % W
  /\ heard' = [ip \in IPs |->
                 IF (uptime' - heard[ip].at) % W < ARP_CACHE_TIMEOUT
                   THEN heard[ip] ELSE Silent]
  /\ lapsed' = \/ lapsed
                \/ \E i \in RowsOf(arp, tx.ip) :
                      tx.at # "idle" /\ is_timeout(ARP_CACHE_TIMEOUT, arp[i].ts, uptime')
  /\ UNCHANGED <<arp, tx, renewed, changed, overrun>>

TxNext ==
  \/ Sweep \/ Test \/ Decide \/ Clear \/ Load \/ Ask \/ WaitTurn \/ GiveUp
  \/ CopyHead \/ CopyTail \/ Return

Next ==
  \/ \E ip \in IPs, mac \in MACs : Hear(ip, mac)
  \/ \E ip \in IPs : Resolve(ip)
  \/ TxNext
  \/ Tick

Spec == Init /\ [][Next]_vars

(* Time passes, eth_tx_thread runs, and between two turns of its loop it   *)
(* does not for ever sleep through the time in which the wait is over.     *)
FairSpec == Spec /\ WF_vars(Tick) /\ WF_vars(TxNext) /\ SF_vars(GiveUp)

-----------------------------------------------------------------------------
(* Properties.                                                             *)

(* A host has at most one row, so that an old address of a host that       *)
(* changed its card is never found before the new one.                     *)
UniqueIp ==
  \A i, j \in Rows : i # j /\ arp[i].ip # NoIP => arp[i].ip # arp[j].ip

(* A frame goes to the address its client last used, both halves of it,    *)
(* unless the client's row ended its lease during the search and was       *)
(* freed, or taken by another host, before the copy; or unless the client  *)
(* changed its card between the two loads of the copy, and then only the   *)
(* half that was loaded before is old.                                     *)
WrongMacNeedsLapse ==
  [][LET mac == heard[tx.ip].mac
     IN  tx.at = "copy" /\ tx'.at = "done" /\ mac # NoMac =>
           \/ lapsed
           \/ tx'.mac.tail = mac /\ (tx'.mac.head = mac \/ changed)]_vars

(* On a LAN of no more hosts than rows, a host heard within the lease is   *)
(* in the cache, so that it needs no request and its answer to one is      *)
(* found: unless it was heard into the very row that a sweep of            *)
(* resolve_arp then freed, between the first of its two reads (the second  *)
(* of which then shows an age of almost the whole counter) and its store,  *)
(* and has not been heard since.                                           *)
HeardIsKnown ==
  Cardinality(IPs) <= MAX_ARP_CACHE_ROWS =>
    \A ip \in IPs \ overrun :
      heard[ip].mac # NoMac => RowsOf(gc_arp_cache(arp), ip) # {}

(* When the cache is full newcomers are left out: no host that keeps       *)
(* sending loses its row to another, nor to a sweep that did not read its  *)
(* row before it was heard and free it after.                              *)
KnownHostKept ==
  [][\A ip \in IPs \ overrun :
       RowsOf(arp, ip) # {} /\ heard[ip].mac # NoMac /\ heard'[ip].mac # NoMac
         => RowsOf(arp', ip) # {}]_vars

(* resolve_arp returns: eth_tx_thread is not held up for ever by a host    *)
(* that does not answer.                                                   *)
ResolveReturns == tx.at # "idle" ~> tx.at = "idle"
=============================================================================
