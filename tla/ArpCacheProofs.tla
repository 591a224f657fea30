---------------------------- MODULE ArpCacheProofs ----------------------------
(***************************************************************************)
(* Theorems about ArpCache, for every number of rows and hosts.  Types and *)
(* UniqueIp follow from how the cache is changed: the sweep only frees     *)
(* rows, and update_arp_cache_by_ip fills a free row only for a host that  *)
(* has none.  The properties about leases need an invariant that relates   *)
(* the rows to what was heard and to the place of eth_tx_thread.           *)
(***************************************************************************)
EXTENDS ArpCache, FiniteSetTheorems, TLAPS

GoodCache(t) ==
  /\ t \in [Rows -> arp_cache_row_t]
  /\ \A i, j \in Rows : i # j /\ t[i].ip # NoIP => t[i].ip # t[j].ip

IInv == TypeOK /\ UniqueIp

LEMMA SweptCache ==
  ASSUME NEW t, GoodCache(t)
  PROVE  GoodCache(gc_arp_cache(t))
<1> DEFINE s == gc_arp_cache(t)
<1>1. \A i \in Rows : /\ s[i] \in arp_cache_row_t
                      /\ s[i].ip # NoIP => s[i] = t[i]
                      /\ s[i].ip = t[i].ip \/ s[i].ip = NoIP
  BY DEF GoodCache, gc_arp_cache, Overdue, Freed, arp_cache_row_t
<1>2. s \in [Rows -> arp_cache_row_t]
  BY <1>1 DEF gc_arp_cache
<1> SUFFICES GoodCache(s) OBVIOUS
<1> HIDE DEF s
<1>3. QED
  BY <1>1, <1>2 DEF GoodCache

LEMMA UpdatedCache ==
  ASSUME NEW t, GoodCache(t), NEW ip \in IPs, NEW mac \in MACs, uptime \in Uptime
  PROVE  GoodCache(Updated(t, ip, mac))
<1> DEFINE s == Updated(t, ip, mac)
           room == IF RowsOf(t, ip) # {} THEN RowsOf(t, ip) ELSE RowsOf(t, NoIP)
<1>1. \A i \in Rows : s[i] = IF IsFirst(i, room) THEN Fresh(ip, mac) ELSE t[i]
  BY DEF Updated
<1>2. Fresh(ip, mac) \in arp_cache_row_t /\ Fresh(ip, mac).ip = ip
  BY DEF Fresh, arp_cache_row_t
<1>3. s \in [Rows -> arp_cache_row_t]
  BY <1>2 DEF Updated, GoodCache
<1>4. ip # NoIP
  BY ArpAssumption
<1>5. \A i, j \in Rows : IsFirst(i, room) /\ IsFirst(j, room) => i = j
  BY DEF IsFirst, Rows, RowsOf
<1>6. \A i, j \in Rows : IsFirst(i, room) /\ i # j => t[j].ip # ip
  <2>1. SUFFICES ASSUME NEW i \in Rows, NEW j \in Rows, IsFirst(i, room),
                        i # j, t[j].ip = ip
                 PROVE  FALSE
    OBVIOUS
  <2>2. j \in RowsOf(t, ip)
    BY <2>1 DEF RowsOf
  <2>3. t[i].ip = ip
    BY <2>1, <2>2 DEF IsFirst, RowsOf
  <2>4. QED
    BY <1>4, <2>1, <2>3 DEF GoodCache
<1> SUFFICES GoodCache(s) OBVIOUS
<1> HIDE DEF s, room
<1>7. QED
  BY <1>1, <1>2, <1>3, <1>4, <1>5, <1>6 DEF GoodCache

(* A row freed by the sweep of eth_tx_thread.                              *)
LEMMA FreedCache ==
  ASSUME NEW t, GoodCache(t), NEW r \in Rows
  PROVE  GoodCache([t EXCEPT ![r] = Freed(@)])
<1> DEFINE s == [t EXCEPT ![r] = Freed(@)]
<1>1. \A i \in Rows : /\ s[i] \in arp_cache_row_t
                      /\ s[i].ip # NoIP => s[i] = t[i]
  BY DEF GoodCache, Freed, arp_cache_row_t
<1>2. s \in [Rows -> arp_cache_row_t]
  BY <1>1 DEF GoodCache
<1> SUFFICES GoodCache(s) OBVIOUS
<1> HIDE DEF s
<1>3. QED
  BY <1>1, <1>2 DEF GoodCache

(* The variables other than the cache.                                     *)
RestOK ==
  /\ uptime \in Uptime
  /\ tx \in TxState
  /\ heard \in [IPs -> [mac : MACs \cup {NoMac}, at : Uptime]]
  /\ lapsed \in BOOLEAN /\ renewed \in BOOLEAN /\ changed \in BOOLEAN
  /\ overrun \subseteq IPs

LEMMA InvParts == IInv <=> GoodCache(arp) /\ RestOK
BY DEF IInv, TypeOK, UniqueIp, GoodCache, RestOK

LEMMA ZeroTypes == 0 \in Uptime /\ 0 \in Rows
BY ArpAssumption DEF Uptime, Rows

LEMMA InvInit == Init => IInv
<1> SUFFICES ASSUME Init PROVE GoodCache(arp) /\ RestOK
  BY InvParts
<1>1. GoodCache(arp)
  BY ZeroTypes DEF Init, GoodCache, arp_cache_row_t
<1>2. RestOK
  BY ZeroTypes DEF Init, RestOK, Idle, Silent, TxState, Halves, Whole
<1>3. QED
  BY <1>1, <1>2

LEMMA HearKeeps ==
  ASSUME IInv, NEW ip \in IPs, NEW mac \in MACs, Hear(ip, mac)
  PROVE  GoodCache(arp') /\ RestOK'
<1>1. GoodCache(arp) /\ RestOK
  BY InvParts
<1>2. GoodCache(arp')
  BY <1>1, SweptCache, UpdatedCache DEF Hear, RestOK
<1>3. heard' \in [IPs -> [mac : MACs \cup {NoMac}, at : Uptime]]
  BY <1>1 DEF Hear, RestOK
<1>4. overrun' \subseteq IPs
  BY <1>1 DEF Hear, RestOK
<1>5. renewed' \in BOOLEAN /\ changed' \in BOOLEAN
  BY Zenon DEF Hear
<1>6. QED
  BY <1>1, <1>2, <1>3, <1>4, <1>5 DEF Hear, RestOK

(* The next row of a search is a row.                                      *)
LEMMA NextSweptIs ==
  ASSUME tx \in TxState
  PROVE  /\ NextSwept \in TxState
         /\ NextSwept.ip = tx.ip
         /\ \/ NextSwept.at = "sweep" /\ NextSwept.row = tx.row + 1
            \/ NextSwept.at = "load" /\ tx.row + 1 \notin Rows
<1> DEFINE next == [tx EXCEPT !.read = 0]
<1>1. next \in TxState /\ next.ip = tx.ip /\ next.row = tx.row
  BY ZeroTypes DEF TxState
<1>2. NextSwept =
        IF tx.row + 1 \in Rows THEN [next EXCEPT !.at = "sweep", !.row = @ + 1]
                               ELSE [next EXCEPT !.at = "load", !.row = 0]
  BY DEF NextSwept
<1> HIDE DEF next
<1>3. CASE tx.row + 1 \in Rows
  <2>1. NextSwept = [next EXCEPT !.at = "sweep", !.row = tx.row + 1]
    BY <1>1, <1>2, <1>3
  <2>2. QED
    BY <1>1, <1>3, <2>1 DEF TxState
<1>4. CASE tx.row + 1 \notin Rows
  <2>1. NextSwept = [next EXCEPT !.at = "load", !.row = 0]
    BY <1>2, <1>4
  <2>2. QED
    BY <1>1, <1>4, <2>1, ZeroTypes DEF TxState
<1>5. QED
  BY <1>3, <1>4

(* A step of eth_tx_thread keeps the types and the cache.                  *)
LEMMA TxKeeps == IInv /\ TxNext => GoodCache(arp') /\ RestOK'
<1> SUFFICES ASSUME IInv, TxNext PROVE GoodCache(arp') /\ RestOK'
  OBVIOUS
<1>1. GoodCache(arp) /\ RestOK
  BY InvParts
<1>2. /\ tx \in TxState /\ tx.row \in Rows /\ uptime \in Uptime
      /\ arp[tx.row] \in arp_cache_row_t
  BY <1>1 DEF RestOK, TxState, GoodCache
<1>3. CASE Sweep \/ Test
  <2>1. CASE Sweep
    BY <1>1, <1>2, <2>1, NextSweptIs DEF Sweep, RestOK, TxState
  <2>2. CASE Test
    <3>1. tx' \in TxState
      BY <1>2, <2>2 DEF Test, TxState, arp_cache_row_t
    <3>2. QED
      BY <1>1, <2>2, <3>1 DEF Test, RestOK
  <2>3. QED
    BY <1>3, <2>1, <2>2
<1>4. CASE Decide \/ Clear
  <2>1. CASE Decide
    <3>1. tx' = [tx EXCEPT !.at = "clear", !.read = 0] \/ tx' = NextSwept
      BY <2>1 DEF Decide
    <3>2. tx' \in TxState
      BY <1>2, <3>1, NextSweptIs, ZeroTypes DEF TxState
    <3>3. overrun' \subseteq overrun \cup ({arp[tx.row].ip} \ {NoIP})
      BY <2>1 DEF Decide
    <3>4. overrun' \subseteq IPs
      BY <1>1, <1>2, <3>3 DEF RestOK, arp_cache_row_t
    <3>5. QED
      BY <1>1, <2>1, <3>2, <3>4 DEF Decide, RestOK
  <2>2. CASE Clear
    BY <1>1, <1>2, <2>2, NextSweptIs, FreedCache DEF Clear, RestOK
  <2>3. QED
    BY <1>4, <2>1, <2>2
<1>5. CASE Load
  <2>1. tx' \in TxState
    BY <1>2, <1>5, ZeroTypes DEF Load, TxState
  <2>2. QED
    BY <1>1, <1>5, <2>1 DEF Load, RestOK
<1>6. CASE Ask
  <2>1. tx' \in TxState
    BY <1>2, <1>6 DEF Ask, TxState
  <2>2. QED
    BY <1>1, <1>6, <2>1 DEF Ask, RestOK
<1>7. CASE WaitTurn
  <2>1. tx' \in TxState
    BY <1>2, <1>7, ZeroTypes DEF WaitTurn, TxState
  <2>2. QED
    BY <1>1, <1>7, <2>1 DEF WaitTurn, RestOK
<1>8. CASE GiveUp
  BY <1>1, <1>8 DEF GiveUp, RestOK, TxState
<1>9. CASE CopyHead \/ CopyTail
  <2>1. tx.mac \in Halves /\ arp[tx.row].mac \in MACs \cup {NoMac}
    BY <1>2 DEF TxState, arp_cache_row_t
  <2>2. CASE CopyHead
    <3>1. [tx.mac EXCEPT !.head = arp[tx.row].mac] \in Halves
      BY <2>1 DEF Halves
    <3>2. tx' = [tx EXCEPT !.at = "copy", !.mac = [tx.mac EXCEPT !.head = arp[tx.row].mac]]
      BY <1>2, <2>2 DEF CopyHead, TxState
    <3>3. tx' \in TxState
      BY <1>2, <3>1, <3>2 DEF TxState
    <3>4. QED
      BY <1>1, <2>2, <3>3 DEF CopyHead, RestOK
  <2>3. CASE CopyTail
    <3>1. [tx.mac EXCEPT !.tail = arp[tx.row].mac] \in Halves
      BY <2>1 DEF Halves
    <3>2. tx' = [tx EXCEPT !.at = "done", !.mac = [tx.mac EXCEPT !.tail = arp[tx.row].mac]]
      BY <1>2, <2>3 DEF CopyTail, TxState
    <3>3. tx' \in TxState
      BY <1>2, <3>1, <3>2 DEF TxState
    <3>4. QED
      BY <1>1, <2>3, <3>3 DEF CopyTail, RestOK
  <2>4. QED
    BY <1>9, <2>2, <2>3
<1>10. CASE Return
  <2>1. tx' \in TxState
    BY <1>10, ZeroTypes DEF Return, Idle, TxState, Halves, Whole
  <2>2. QED
    BY <1>1, <1>10, <2>1 DEF Return, RestOK
<1>11. QED
  BY <1>3, <1>4, <1>5, <1>6, <1>7, <1>8, <1>9, <1>10 DEF TxNext

LEMMA TickKeeps == IInv /\ Tick => GoodCache(arp') /\ RestOK'
<1> SUFFICES ASSUME IInv, Tick PROVE GoodCache(arp') /\ RestOK'
  OBVIOUS
<1>1. GoodCache(arp) /\ RestOK
  BY InvParts
<1>2. uptime' \in Uptime
  BY <1>1, ArpAssumption DEF Tick, RestOK, Uptime
<1>3. heard' \in [IPs -> [mac : MACs \cup {NoMac}, at : Uptime]]
  BY <1>1, ZeroTypes DEF Tick, RestOK, Silent
<1>4. lapsed' \in BOOLEAN
  BY <1>1 DEF Tick, RestOK
<1>5. QED
  BY <1>1, <1>2, <1>3, <1>4 DEF Tick, RestOK

LEMMA InvNext == IInv /\ [Next]_vars => IInv'
<1> SUFFICES ASSUME IInv, [Next]_vars PROVE GoodCache(arp') /\ RestOK'
  BY DEF IInv, TypeOK, UniqueIp, GoodCache, RestOK
<1>1. GoodCache(arp) /\ RestOK
  BY InvParts
<1>2. CASE \E ip \in IPs, mac \in MACs : Hear(ip, mac)
  BY <1>2, HearKeeps
<1>3. ASSUME NEW ip \in IPs, Resolve(ip) PROVE GoodCache(arp') /\ RestOK'
  <2>1. tx' \in TxState
    BY <1>1, <1>3, ZeroTypes DEF Resolve, RestOK, Idle, TxState, Halves, Whole
  <2>2. QED
    BY <1>1, <1>3, <2>1 DEF Resolve, RestOK
<1>4. CASE TxNext
  BY <1>4, TxKeeps
<1>5. CASE Tick
  BY <1>5, TickKeeps
<1>6. CASE UNCHANGED vars
  BY <1>1, <1>6 DEF vars, RestOK
<1>7. QED
  BY <1>2, <1>3, <1>4, <1>5, <1>6 DEF Next

LEMMA Invariance == Spec => []IInv
<1>1. QED
  BY InvInit, InvNext, PTL DEF Spec

(* Types are kept.                                                         *)
THEOREM TypeCorrect == Spec => []TypeOK
<1>1. IInv => TypeOK
  BY DEF IInv
<1>2. QED
  BY <1>1, Invariance, PTL

(* A host never has two rows, whatever is swept, refreshed and added while *)
(* eth_tx_thread searches.                                                 *)
THEOREM HostsUnique == Spec => []UniqueIp
<1>1. IInv => UniqueIp
  BY DEF IInv
<1>2. QED
  BY <1>1, Invariance, PTL

-----------------------------------------------------------------------------
(* Leases.  What is true of the rows while eth_tx_thread sweeps, searches  *)
(* and copies, and eth_recv_cb refreshes them.                             *)

(* What the cache holds of a host that was heard within the lease is what  *)
(* was heard.                                                              *)
RowsAsHeard ==
  \A ip \in IPs, i \in Rows :
    heard[ip].mac # NoMac /\ arp[i].ip = ip
      => arp[i].ts = heard[ip].at /\ arp[i].mac = heard[ip].mac

HeardInLease ==
  \A ip \in IPs :
    heard[ip].mac # NoMac => (uptime - heard[ip].at) % W < ARP_CACHE_TIMEOUT

(* The row that the sweep of eth_tx_thread is about to clear, or has half  *)
(* read and was not written since.                                         *)
ClearedIsOld ==
  \A ip \in IPs :
    arp[tx.row].ip = ip /\ heard[ip].mac # NoMac =>
      /\ tx.at = "clear" => ip \in overrun
      /\ tx.at = "ts" /\ ~renewed =>
           ~is_timeout(ARP_CACHE_TIMEOUT, arp[tx.row].ts, tx.read)
      /\ tx.at = "clock" /\ ~renewed => tx.read = arp[tx.row].ts

(* The row of the host that eth_tx_thread searches: if it is overdue, then *)
(* the sweep has still to free it, or is about to.                         *)
SearchInLease ==
  ~lapsed /\ tx.at \in {"sweep", "test", "ts", "clock", "clear", "load", "hit", "copy"} =>
    \A i \in RowsOf(arp, tx.ip) :
      Overdue(arp[i]) =>
        /\ tx.at \in {"sweep", "test", "ts", "clock", "clear"}
        /\ i >= tx.row
        /\ tx.at = "ts" /\ i = tx.row => tx.read = uptime
        /\ tx.at = "clock" /\ i = tx.row => tx.read = arp[i].ts

HitIsHost == ~lapsed /\ tx.at \in {"hit", "copy"} => arp[tx.row].ip = tx.ip

HeadIsRow == tx.at = "copy" => tx.mac.head = arp[tx.row].mac \/ changed

SearchesHost == tx.at # "idle" => tx.ip \in IPs

LeaseInv ==
  /\ RowsAsHeard /\ HeardInLease /\ ClearedIsOld
  /\ SearchInLease /\ HitIsHost /\ HeadIsRow /\ SearchesHost

(* A row within its lease is not overdue, however the counter has wrapped. *)
LEMMA InLease ==
  ASSUME uptime \in Uptime, NEW s \in Uptime, (uptime - s) % W < ARP_CACHE_TIMEOUT
  PROVE  ~is_timeout(ARP_CACHE_TIMEOUT, s, uptime)
<1>1. W \in Nat \ {0} /\ uptime \in 0..(W - 1) /\ s \in 0..(W - 1)
  BY ArpAssumption DEF Uptime
<1>2. CASE s <= uptime
  <2>1. (uptime - s) % W = uptime - s
    BY <1>1, <1>2
  <2>2. QED
    BY <1>1, <1>2, <2>1, ArpAssumption DEF is_timeout
<1>3. CASE ~(s <= uptime)
  <2>1. (uptime - s) % W = uptime - s + W
    BY <1>1, <1>3
  <2>2. ((W - 1) - s + uptime + 1) % W = uptime - s + W
    BY <1>1, <1>3
  <2>3. QED
    BY <1>1, <1>3, <2>1, <2>2, ArpAssumption DEF is_timeout
<1>4. QED
  BY <1>2, <1>3

(* A row that has just been written is within its lease.                   *)
LEMMA FreshInLease ==
  ASSUME uptime \in Uptime
  PROVE  /\ (uptime - uptime) % W < ARP_CACHE_TIMEOUT
         /\ ~is_timeout(ARP_CACHE_TIMEOUT, uptime, uptime)
<1>1. (uptime - uptime) % W < ARP_CACHE_TIMEOUT
  BY ArpAssumption DEF Uptime
<1>2. QED
  BY <1>1, InLease

(* A row of a host that was heard within the lease is not overdue.         *)
LEMMA HeardNotOverdue ==
  ASSUME IInv, LeaseInv, NEW i \in Rows, NEW ip \in IPs,
         arp[i].ip = ip, heard[ip].mac # NoMac
  PROVE  ~Overdue(arp[i])
<1>1. heard[ip].at \in Uptime /\ uptime \in Uptime
  BY DEF IInv, TypeOK
<1>2. arp[i].ts = heard[ip].at /\ (uptime - heard[ip].at) % W < ARP_CACHE_TIMEOUT
  BY DEF LeaseInv, RowsAsHeard, HeardInLease
<1>3. QED
  BY <1>1, <1>2, InLease DEF Overdue

(* What a frame of ip does to the rows: those of other hosts within their  *)
(* lease are left alone, the host's own is renewed, others are freed.      *)
RowAfter(i, ip, mac) ==
  /\ arp'[i].ip # NoIP =>
       \/ arp'[i] = arp[i] /\ arp[i].ip # ip /\ ~Overdue(arp[i])
       \/ arp'[i] = Fresh(ip, mac)
  /\ arp[i].ip # NoIP /\ arp[i].ip # ip /\ ~Overdue(arp[i]) => arp'[i] = arp[i]
  /\ arp[i].ip = ip /\ ~Overdue(arp[i]) => arp'[i] = Fresh(ip, mac)

LEMMA HearRows ==
  ASSUME IInv, NEW ip \in IPs, NEW mac \in MACs, Hear(ip, mac)
  PROVE  \A i \in Rows : RowAfter(i, ip, mac)
<1> TAKE i \in Rows
<1> DEFINE g == gc_arp_cache(arp)
           room == IF RowsOf(g, ip) # {} THEN RowsOf(g, ip) ELSE RowsOf(g, NoIP)
<1>1. arp'[i] = IF IsFirst(i, room) THEN Fresh(ip, mac) ELSE g[i]
  BY DEF Hear, Updated
<1>2. /\ Overdue(arp[i]) => g[i].ip = NoIP
      /\ ~Overdue(arp[i]) => g[i] = arp[i]
  <2>1. GoodCache(arp)
    BY InvParts
  <2>2. QED
    BY <2>1 DEF gc_arp_cache, Freed, GoodCache, arp_cache_row_t
<1>3. GoodCache(g)
  BY InvParts, SweptCache
<1>4. ip # NoIP
  BY ArpAssumption
<1>5. IsFirst(i, room) => g[i].ip = ip \/ g[i].ip = NoIP
  BY DEF IsFirst, RowsOf
<1>6. g[i].ip = ip => IsFirst(i, room)
  <2>1. SUFFICES ASSUME g[i].ip = ip PROVE IsFirst(i, room)
    OBVIOUS
  <2>2. RowsOf(g, ip) = {i}
    BY <1>3, <1>4, <2>1 DEF GoodCache, RowsOf
  <2>3. QED
    BY <2>2 DEF IsFirst, Rows
<1> HIDE DEF g, room
<1>7. QED
  BY <1>1, <1>2, <1>4, <1>5, <1>6 DEF RowAfter

LEMMA LeaseInit == Init => LeaseInv
BY DEF Init, LeaseInv, RowsAsHeard, HeardInLease, ClearedIsOld, SearchInLease,
       HitIsHost, HeadIsRow, SearchesHost, Idle, Silent

LEMMA HearLease ==
  ASSUME IInv, LeaseInv, NEW ip \in IPs, NEW mac \in MACs, Hear(ip, mac)
  PROVE  LeaseInv'
<1>1. TypeOK /\ ip # NoIP
  BY ArpAssumption DEF IInv
<1>2. \A i \in Rows : RowAfter(i, ip, mac)
  BY HearRows
<1>3. /\ uptime' = uptime /\ tx' = tx /\ lapsed' = lapsed
      /\ heard' = [heard EXCEPT ![ip] = [mac |-> mac, at |-> uptime]]
  BY DEF Hear
<1>4. RowsAsHeard'
  <2>1. SUFFICES ASSUME NEW h \in IPs, NEW i \in Rows, heard'[h].mac # NoMac,
                        arp'[i].ip = h
                 PROVE  arp'[i].ts = heard'[h].at /\ arp'[i].mac = heard'[h].mac
    BY DEF RowsAsHeard
  <2>2. CASE arp'[i] = Fresh(ip, mac)
    BY <1>1, <1>3, <2>1, <2>2 DEF Fresh, TypeOK
  <2>3. CASE arp'[i] = arp[i] /\ arp[i].ip # ip
    BY <1>1, <1>3, <2>1, <2>3 DEF LeaseInv, RowsAsHeard, TypeOK
  <2>4. QED
    BY <1>2, <1>1, <2>1, <2>2, <2>3, ArpAssumption DEF RowAfter
<1>5. HeardInLease'
  BY <1>1, <1>3, FreshInLease DEF LeaseInv, HeardInLease, TypeOK
<1>6. ClearedIsOld'
  <2>1. SUFFICES ASSUME NEW h \in IPs, arp'[tx.row].ip = h, heard'[h].mac # NoMac
                 PROVE  /\ tx.at = "clear" => h \in overrun'
                        /\ tx.at = "ts" /\ ~renewed' =>
                             ~is_timeout(ARP_CACHE_TIMEOUT, arp'[tx.row].ts, tx.read)
                        /\ tx.at = "clock" /\ ~renewed' => tx.read = arp'[tx.row].ts
    BY <1>3 DEF ClearedIsOld
  <2>2. tx.row \in Rows
    BY <1>1 DEF TypeOK, TxState
  <2>3. CASE h = ip
    <3>1. tx.at = "clear" => h \in overrun'
      BY <2>1, <2>3 DEF Hear
    <3>2. tx.at \in {"ts", "clock"} => renewed'
      BY <2>1, <2>3, Zenon DEF Hear
    <3>3. QED
      BY <3>1, <3>2
  <2>4. CASE h # ip
    <3>1. arp'[tx.row] = arp[tx.row]
      BY <1>2, <2>1, <2>2, <2>4, ArpAssumption DEF Fresh, RowAfter
    <3>2. heard[h].mac # NoMac
      BY <1>1, <1>3, <2>1, <2>4 DEF TypeOK
    <3>3. h \in overrun => h \in overrun'
      BY <2>4 DEF Hear
    <3>4. ~renewed' => ~renewed
      BY Zenon DEF Hear
    <3>5. QED
      BY <2>1, <3>1, <3>2, <3>3, <3>4 DEF LeaseInv, ClearedIsOld
  <2>5. QED
    BY <2>3, <2>4
<1>7. SearchInLease'
  <2>1. ASSUME ~lapsed, NEW i \in Rows, arp'[i].ip = tx.ip, Overdue(arp'[i])
        PROVE  arp'[i] = arp[i]
    <3>1. ~Overdue(Fresh(ip, mac))
      BY <1>1, FreshInLease DEF TypeOK, Overdue, Fresh
    <3>2. QED
      BY <1>2, <2>1, <3>1 DEF Overdue, RowAfter
  <2>2. QED
    BY <1>3, <2>1 DEF LeaseInv, SearchInLease, RowsOf, Overdue
<1>8. HitIsHost'
  <2>1. SUFFICES ASSUME ~lapsed, tx.at \in {"hit", "copy"}
                 PROVE  arp'[tx.row].ip = tx.ip
    BY <1>3 DEF HitIsHost
  <2>2. tx.row \in Rows /\ arp[tx.row].ip = tx.ip
    BY <1>1, <2>1 DEF TypeOK, TxState, LeaseInv, HitIsHost
  <2>3. ~Overdue(arp[tx.row])
    BY <2>1, <2>2 DEF LeaseInv, SearchInLease, RowsOf
  <2>4. tx.ip # NoIP
    BY <2>1, ArpAssumption DEF LeaseInv, SearchesHost
  <2>5. QED
    BY <1>2, <2>2, <2>3, <2>4 DEF Fresh, RowAfter
<1>9. HeadIsRow'
  <2>1. /\ changed => changed'
        /\ tx.at = "copy" /\ arp'[tx.row].mac # arp[tx.row].mac => changed'
    BY Zenon DEF Hear
  <2>2. QED
    BY <1>3, <2>1 DEF LeaseInv, HeadIsRow
<1>10. QED
  BY <1>3, <1>4, <1>5, <1>6, <1>7, <1>8, <1>9 DEF LeaseInv, SearchesHost

(* What eth_tx_thread may do to the rows: free the one its sweep is at.    *)
LEMMA TxRows ==
  ASSUME IInv, TxNext
  PROVE  \A i \in Rows :
           /\ arp'[i] # arp[i] => Clear /\ i = tx.row
           /\ Clear /\ i = tx.row => arp'[i] = Freed(arp[i])
BY InvParts DEF TxNext, Sweep, Test, Decide, Clear, Load, Ask, WaitTurn, GiveUp,
                CopyHead, CopyTail, Return, GoodCache, RestOK, TxState

Sweeping == {"sweep", "test", "ts", "clock", "clear"}

OverdueAsRead ==
  IF tx.at = "ts" THEN is_timeout(ARP_CACHE_TIMEOUT, arp[tx.row].ts, tx.read)
                  ELSE is_timeout(ARP_CACHE_TIMEOUT, tx.read, uptime)

(* Row i is behind the sweep after the step because the sweep passed it.   *)
Passed ==
  \/ Sweep /\ arp[tx.row].ip = NoIP
  \/ Decide /\ ~OverdueAsRead
  \/ Clear

(* Where eth_tx_thread may have come from.                                 *)
LEMMA TxSteps ==
  ASSUME tx \in TxState, TxNext
  PROVE  /\ tx'.at # "idle" => tx.at # "idle" /\ tx'.ip = tx.ip
         /\ tx'.at = "test" => tx.at = "sweep" /\ tx'.row = tx.row /\ lapsed' = lapsed
         /\ tx'.at \in {"ts", "clock"} =>
              /\ tx.at = "test" /\ tx'.row = tx.row
              /\ tx'.read = IF tx'.at = "ts" THEN uptime ELSE arp[tx.row].ts
              /\ UNCHANGED <<arp, lapsed>>
         /\ tx'.at = "clear" =>
              /\ tx.at \in {"ts", "clock"} /\ tx'.row = tx.row
              /\ Decide /\ OverdueAsRead
              /\ UNCHANGED <<arp, lapsed>>
         /\ tx'.at = "hit" =>
              /\ tx.at = "load" /\ tx'.row = tx.row /\ arp[tx.row].ip = tx.ip
              /\ UNCHANGED <<arp, lapsed>>
         /\ tx'.at = "copy" =>
              /\ tx.at = "hit" /\ tx'.row = tx.row
              /\ tx'.mac.head = arp[tx.row].mac
              /\ UNCHANGED <<arp, lapsed>>
         /\ tx'.at = "load" =>
              /\ lapsed' = lapsed
              /\ \/ tx.at = "load"
                 \/ tx.at \in Sweeping /\ tx.row + 1 \notin Rows /\ Passed
         /\ tx'.at = "sweep" =>
              \/ tx'.row = 0
              \/ /\ tx.at \in Sweeping /\ tx'.row = tx.row + 1 /\ Passed
                 /\ lapsed' = lapsed
<1> USE DEF Sweeping
<1>1. CASE Sweep
  <2>1. CASE arp[tx.row].ip # NoIP
    BY <1>1, <2>1 DEF Sweep, TxState
  <2>2. CASE arp[tx.row].ip = NoIP
    BY <1>1, <2>2, NextSweptIs DEF Sweep, Passed
  <2>3. QED
    BY <2>1, <2>2
<1>2. CASE Test
  BY <1>2 DEF Test, TxState
<1>3. CASE Decide
  <2>1. tx' = IF OverdueAsRead THEN [tx EXCEPT !.at = "clear", !.read = 0] ELSE NextSwept
    BY <1>3 DEF Decide, OverdueAsRead
  <2>2. tx.at \in {"ts", "clock"} /\ UNCHANGED <<arp, lapsed>>
    BY <1>3 DEF Decide
  <2>3. CASE OverdueAsRead
    <3>1. tx'.at = "clear" /\ tx'.row = tx.row /\ tx'.ip = tx.ip
      BY <2>1, <2>3 DEF TxState
    <3>2. QED
      BY <1>3, <2>2, <2>3, <3>1
  <2>4. CASE ~OverdueAsRead
    BY <1>3, <2>1, <2>2, <2>4, NextSweptIs DEF Passed
  <2>5. QED
    BY <2>3, <2>4
<1>4. CASE Clear
  BY <1>4, NextSweptIs DEF Clear, Passed
<1>5. CASE Load
  BY <1>5 DEF Load, TxState
<1>6. CASE Ask
  BY <1>6 DEF Ask, TxState
<1>7. CASE WaitTurn
  BY <1>7 DEF WaitTurn, TxState
<1>8. CASE CopyHead
  BY <1>8 DEF CopyHead, TxState, Halves
<1>9. CASE GiveUp \/ CopyTail
  BY <1>9 DEF GiveUp, CopyTail, TxState
<1>10. CASE Return
  BY <1>10 DEF Return, Idle
<1>11. QED
  BY <1>1, <1>2, <1>3, <1>4, <1>5, <1>6, <1>7, <1>8, <1>9, <1>10 DEF TxNext

LEMMA TxClears ==
  ASSUME IInv, LeaseInv, TxNext
  PROVE  ClearedIsOld'
<1>1. /\ tx \in TxState /\ tx.row \in Rows /\ overrun \subseteq IPs
      /\ uptime \in Uptime
  BY DEF IInv, TypeOK, TxState
<1>2. SUFFICES ASSUME NEW h \in IPs, arp'[tx'.row].ip = h, heard'[h].mac # NoMac,
                      tx'.at \in {"ts", "clock", "clear"}
               PROVE  /\ tx'.at = "clear" => h \in overrun'
                      /\ tx'.at = "ts" =>
                           ~is_timeout(ARP_CACHE_TIMEOUT, arp'[tx'.row].ts, tx'.read)
                      /\ tx'.at = "clock" => tx'.read = arp'[tx'.row].ts
  BY DEF ClearedIsOld
<1>3. arp' = arp /\ tx'.row = tx.row
  BY <1>1, <1>2, TxSteps
<1>4. heard' = heard
  BY DEF TxNext, Sweep, Test, Decide, Clear, Load, Ask, WaitTurn, GiveUp,
         CopyHead, CopyTail, Return
<1>5. arp[tx.row].ip = h /\ heard[h].mac # NoMac /\ h # NoIP
  BY <1>2, <1>3, <1>4, ArpAssumption
<1>6. ~is_timeout(ARP_CACHE_TIMEOUT, arp[tx.row].ts, uptime)
  BY <1>1, <1>5, HeardNotOverdue DEF Overdue
<1>7. CASE tx'.at \in {"ts", "clock"}
  BY <1>1, <1>3, <1>6, <1>7, TxSteps
<1>8. CASE tx'.at = "clear"
  <2>1. Decide /\ OverdueAsRead
    BY <1>1, <1>8, TxSteps
  <2>2. renewed
    BY <1>5, <1>6, <2>1 DEF LeaseInv, ClearedIsOld, Decide, OverdueAsRead
  <2>3. overrun' = overrun \cup ({arp[tx.row].ip} \ {NoIP})
    BY <2>1, <2>2 DEF Decide, OverdueAsRead
  <2>4. QED
    BY <1>5, <1>8, <2>3
<1>9. QED
  BY <1>2, <1>7, <1>8

LEMMA TxLease == IInv /\ LeaseInv /\ TxNext => LeaseInv'
<1> SUFFICES ASSUME IInv, LeaseInv, TxNext PROVE LeaseInv'
  OBVIOUS
<1>1. TypeOK /\ tx \in TxState /\ tx.row \in Rows
  BY DEF IInv, TypeOK, TxState
<1>2. \A i \in Rows : arp'[i].ip # NoIP => arp'[i] = arp[i]
  BY <1>1, TxRows DEF Freed, TypeOK, arp_cache_row_t
<1>3. /\ uptime' = uptime /\ heard' = heard
      /\ lapsed' = lapsed \/ lapsed' = FALSE
  BY DEF TxNext, Sweep, Test, Decide, Clear, Load, Ask, WaitTurn, GiveUp,
         CopyHead, CopyTail, Return
<1>4. RowsAsHeard' /\ HeardInLease'
  BY <1>2, <1>3, ArpAssumption DEF LeaseInv, RowsAsHeard, HeardInLease
<1>5. ClearedIsOld'
  BY TxClears
<1>6. SearchInLease'
  <2>1. SUFFICES ASSUME ~lapsed', tx'.at \in Sweeping \cup {"load", "hit", "copy"},
                        NEW i \in Rows, arp'[i].ip = tx'.ip, Overdue(arp'[i])
                 PROVE  /\ tx'.at \in Sweeping /\ i >= tx'.row
                        /\ tx'.at = "ts" /\ i = tx'.row => tx'.read = uptime
                        /\ tx'.at = "clock" /\ i = tx'.row => tx'.read = arp'[i].ts
    BY <1>3 DEF SearchInLease, RowsOf, Overdue, Sweeping
  <2>2. arp'[i] = arp[i] /\ tx'.ip = tx.ip /\ ~(Clear /\ i = tx.row)
    BY <1>1, <1>2, <2>1, TxSteps, TxRows
    DEF Overdue, Freed, TypeOK, arp_cache_row_t, Sweeping
  <2>3. i \in RowsOf(arp, tx.ip) /\ Overdue(arp[i])
    BY <2>1, <2>2 DEF RowsOf
  <2>4. ASSUME ~lapsed, tx.at \in Sweeping, Passed PROVE i # tx.row
    <3>1. SUFFICES ASSUME i = tx.row, Decide, ~OverdueAsRead PROVE FALSE
      BY <2>2, <2>3, <2>4 DEF Passed, Overdue
    <3>2. /\ tx.at = "ts" => tx.read = uptime
          /\ tx.at = "clock" => tx.read = arp[i].ts
          /\ tx.at \in {"ts", "clock"}
      BY <2>3, <2>4, <3>1 DEF Decide, LeaseInv, SearchInLease
    <3>3. is_timeout(ARP_CACHE_TIMEOUT, arp[i].ts, uptime)
      BY <2>3 DEF Overdue
    <3>4. QED
      BY <3>1, <3>2, <3>3 DEF OverdueAsRead
  <2>5. CASE tx'.at \in {"test", "ts", "clock", "clear", "hit", "copy"}
    <3>1. /\ ~lapsed /\ tx'.row = tx.row
          /\ tx'.at = "test" => tx.at = "sweep"
          /\ tx'.at \in {"ts", "clock"} =>
               /\ tx.at = "test"
               /\ tx'.read = IF tx'.at = "ts" THEN uptime ELSE arp[tx.row].ts
          /\ tx'.at = "clear" => tx.at \in {"ts", "clock"}
          /\ tx'.at = "hit" => tx.at = "load"
          /\ tx'.at = "copy" => tx.at = "hit"
      BY <1>1, <2>1, <2>5, TxSteps
    <3>2. tx.at \in Sweeping /\ i >= tx.row
      BY <2>3, <2>5, <3>1 DEF LeaseInv, SearchInLease, Sweeping
    <3>3. QED
      BY <2>2, <2>5, <3>1, <3>2 DEF Sweeping
  <2>6. CASE tx'.at = "load"
    <3>1. \/ tx.at = "load"
          \/ tx.at \in Sweeping /\ tx.row + 1 \notin Rows /\ Passed
      BY <1>1, <2>6, TxSteps
    <3>2. ~lapsed
      BY <1>1, <2>1, <2>6, TxSteps
    <3>3. tx.at \in Sweeping /\ i >= tx.row /\ i # tx.row
      BY <2>3, <2>4, <3>1, <3>2 DEF LeaseInv, SearchInLease, Sweeping
    <3>4. QED
      BY <1>1, <3>1, <3>3, ArpAssumption DEF Rows, Sweeping
  <2>7. CASE tx'.at = "sweep"
    <3>1. CASE tx'.row = 0
      BY <2>7, <3>1 DEF Rows, Sweeping
    <3>2. CASE tx'.row # 0
      <4>1. tx.at \in Sweeping /\ tx'.row = tx.row + 1 /\ Passed /\ ~lapsed
        BY <1>1, <2>1, <2>7, <3>2, TxSteps
      <4>2. i >= tx.row /\ i # tx.row
        BY <2>3, <2>4, <4>1 DEF LeaseInv, SearchInLease, Sweeping
      <4>3. QED
        BY <1>1, <2>7, <4>1, <4>2 DEF Rows, Sweeping
    <3>3. QED
      BY <3>1, <3>2
  <2>8. QED
    BY <2>1, <2>5, <2>6, <2>7 DEF Sweeping
<1>7. HitIsHost'
  BY <1>1, TxSteps DEF LeaseInv, HitIsHost
<1>8. HeadIsRow'
  BY <1>1, TxSteps DEF HeadIsRow
<1>9. SearchesHost'
  BY <1>1, TxSteps DEF LeaseInv, SearchesHost
<1>10. QED
  BY <1>4, <1>5, <1>6, <1>7, <1>8, <1>9 DEF LeaseInv

LEMMA ResolveLease ==
  ASSUME IInv, LeaseInv, NEW ip \in IPs, Resolve(ip)
  PROVE  LeaseInv'
<1>1. tx' = [Idle EXCEPT !.at = "sweep", !.ip = ip, !.since = uptime]
  BY DEF Resolve
<1>2. tx'.at = "sweep" /\ tx'.ip = ip /\ tx'.row = 0
  BY <1>1 DEF Idle
<1>3. RowsAsHeard' /\ HeardInLease'
  BY DEF Resolve, LeaseInv, RowsAsHeard, HeardInLease
<1>4. SearchInLease'
  BY <1>2 DEF SearchInLease, RowsOf, Rows
<1>5. QED
  BY <1>2, <1>3, <1>4 DEF LeaseInv, ClearedIsOld, HitIsHost, HeadIsRow, SearchesHost

LEMMA TickLease == IInv /\ LeaseInv /\ Tick => LeaseInv'
<1> SUFFICES ASSUME IInv, LeaseInv, Tick PROVE LeaseInv'
  OBVIOUS
<1>1. TypeOK
  BY DEF IInv
<1>2. /\ UNCHANGED <<arp, tx, renewed, changed, overrun>>
      /\ \A ip \in IPs : heard'[ip].mac # NoMac =>
            /\ heard'[ip] = heard[ip]
            /\ (uptime' - heard[ip].at) % W < ARP_CACHE_TIMEOUT
  BY DEF Tick, Silent
<1>3. RowsAsHeard' /\ HeardInLease' /\ ClearedIsOld'
  BY <1>2 DEF LeaseInv, RowsAsHeard, HeardInLease, ClearedIsOld
<1>4. ~lapsed' => ~lapsed
  BY DEF Tick
<1>5. SearchInLease'
  BY <1>2 DEF Tick, SearchInLease, Overdue, RowsOf
<1>6. HitIsHost' /\ HeadIsRow' /\ SearchesHost'
  BY <1>2, <1>4 DEF LeaseInv, HitIsHost, HeadIsRow, SearchesHost
<1>7. QED
  BY <1>3, <1>5, <1>6 DEF LeaseInv

LEMMA LeaseNext == IInv /\ LeaseInv /\ [Next]_vars => LeaseInv'
<1>1. ASSUME IInv, LeaseInv, UNCHANGED vars PROVE LeaseInv'
  BY <1>1 DEF vars, LeaseInv, RowsAsHeard, HeardInLease, ClearedIsOld,
              SearchInLease, HitIsHost, HeadIsRow, SearchesHost, RowsOf, Overdue
<1>2. QED
  BY <1>1, HearLease, ResolveLease, TxLease, TickLease DEF Next

LEMMA LeaseInvariance == Spec => []LeaseInv
<1>1. QED
  BY LeaseInit, LeaseNext, Invariance, PTL DEF Spec

(* What no step does to a host in the cache.                               *)
LEMMA RowKept ==
  ASSUME IInv, LeaseInv, [Next]_vars, NEW ip \in IPs \ overrun,
         NEW i \in Rows, arp[i].ip = ip, heard[ip].mac # NoMac
  PROVE  arp'[i].ip = ip
<1>1. ~Overdue(arp[i]) /\ ip # NoIP
  BY HeardNotOverdue, ArpAssumption
<1>2. ASSUME NEW h \in IPs, NEW mac \in MACs, Hear(h, mac) PROVE arp'[i].ip = ip
  <2>1. RowAfter(i, h, mac)
    BY <1>2, HearRows
  <2>2. QED
    BY <1>1, <2>1 DEF RowAfter, Fresh
<1>3. CASE TxNext
  <2>1. ~(Clear /\ i = tx.row)
    BY DEF Clear, LeaseInv, ClearedIsOld
  <2>2. QED
    BY <1>3, <2>1, TxRows
<1>4. QED
  BY <1>2, <1>3 DEF Next, Resolve, Tick, vars

(* No host that keeps sending loses its row to another host, nor to a      *)
(* sweep that did not read its row before it was heard and free it after,  *)
(* for every number of hosts and rows.                                     *)
THEOREM KnownKept == Spec => KnownHostKept
<1>1. IInv /\ LeaseInv /\ [Next]_vars =>
        [\A ip \in IPs \ overrun :
           RowsOf(arp, ip) # {} /\ heard[ip].mac # NoMac /\ heard'[ip].mac # NoMac
             => RowsOf(arp', ip) # {}]_vars
  BY RowKept DEF RowsOf
<1>2. QED
  BY <1>1, Invariance, LeaseInvariance, PTL DEF Spec, KnownHostKept

(* A frame goes to the address its client last used, or the lease of the   *)
(* client's row ended during the search, or, for its first half, the       *)
(* client changed its address during the copy.                             *)
THEOREM WrongMacIsLapse == Spec => WrongMacNeedsLapse
<1>1. ASSUME IInv, LeaseInv, [Next]_vars, tx.at = "copy", tx'.at = "done",
             heard[tx.ip].mac # NoMac
      PROVE  \/ lapsed
             \/ /\ tx'.mac.tail = heard[tx.ip].mac
                /\ tx'.mac.head = heard[tx.ip].mac \/ changed
  <2>1. tx.row \in Rows /\ tx \in TxState /\ tx.mac \in Halves
    BY <1>1 DEF IInv, TypeOK, TxState
  <2>2. CopyTail
    BY <1>1, <2>1 DEF Next, TxNext, Hear, Resolve, Sweep, Test, Decide, Clear, Load,
                      Ask, WaitTurn, GiveUp, CopyHead, Return, Tick, Idle, vars
  <2>3. tx'.mac.tail = arp[tx.row].mac /\ tx'.mac.head = tx.mac.head
    BY <2>1, <2>2 DEF CopyTail, TxState, Halves
  <2>4. tx.mac.head = arp[tx.row].mac \/ changed
    BY <1>1 DEF LeaseInv, HeadIsRow
  <2>5. lapsed \/ arp[tx.row].ip = tx.ip
    BY <1>1 DEF LeaseInv, HitIsHost
  <2>6. tx.ip \in IPs
    BY <1>1 DEF LeaseInv, SearchesHost
  <2>7. QED
    BY <1>1, <2>1, <2>3, <2>4, <2>5, <2>6 DEF LeaseInv, RowsAsHeard
<1>2. QED
  BY <1>1, Invariance, LeaseInvariance, PTL DEF Spec, WrongMacNeedsLapse

-----------------------------------------------------------------------------
(* A LAN that fits the cache.  A host that is not in it finds a free row,  *)
(* because rows are never spent on one host twice.                         *)

RoomForAll == Cardinality(IPs) <= MAX_ARP_CACHE_ROWS

HeardHasRow ==
  \A ip \in IPs \ overrun : heard[ip].mac # NoMac => RowsOf(arp, ip) # {}

LEMMA FirstExists ==
  ASSUME NEW S \in SUBSET Rows, S # {}
  PROVE  \E i \in S : IsFirst(i, S)
<1>1. S \subseteq Nat
  BY DEF Rows
<1>2. PICK i \in S : \A j \in S : <<j, i>> \notin OpToRel(<, Nat)
  BY <1>1, NatLessThanWellFounded, WFMin
<1>3. \A j \in S : ~(j < i)
  BY <1>1, <1>2 DEF OpToRel
<1>4. QED
  BY <1>1, <1>3 DEF IsFirst

LEMMA FreeRow ==
  ASSUME RoomForAll, NEW t, GoodCache(t), NEW ip \in IPs, RowsOf(t, ip) = {}
  PROVE  RowsOf(t, NoIP) # {}
<1> SUFFICES ASSUME RowsOf(t, NoIP) = {} PROVE FALSE
  OBVIOUS
<1> DEFINE others == IPs \ {ip}
           host == [i \in Rows |-> t[i].ip]
<1>1. host \in [Rows -> others]
  BY DEF GoodCache, arp_cache_row_t, RowsOf
<1>2. IsFiniteSet(others) /\ Cardinality(others) = Cardinality(IPs) - 1
  BY ArpAssumption, FS_RemoveElement
<1>3. IsFiniteSet(Rows) /\ Cardinality(Rows) = MAX_ARP_CACHE_ROWS
  BY ArpAssumption, FS_Interval DEF Rows
<1>4. Cardinality(others) < Cardinality(Rows)
  BY <1>2, <1>3, ArpAssumption, FS_CardinalityType DEF RoomForAll
<1>5. PICK i, j \in Rows : i # j /\ t[i].ip = t[j].ip
  <2>1. \E i, j \in Rows : i # j /\ host[i] = host[j]
    <3> HIDE DEF others, host
    <3>1. QED
      BY <1>1, <1>2, <1>3, <1>4, FS_PigeonHole
  <2>2. QED
    BY <2>1
<1>6. QED
  BY <1>5 DEF GoodCache, RowsOf

(* After a frame its sender is in the cache.                               *)
LEMMA HearFindsRow ==
  ASSUME IInv, RoomForAll, NEW ip \in IPs, NEW mac \in MACs, Hear(ip, mac)
  PROVE  RowsOf(arp', ip) # {}
<1> DEFINE g == gc_arp_cache(arp)
           room == IF RowsOf(g, ip) # {} THEN RowsOf(g, ip) ELSE RowsOf(g, NoIP)
<1>1. GoodCache(g)
  BY InvParts, SweptCache
<1>2. room # {} /\ room \in SUBSET Rows
  BY <1>1, FreeRow DEF RowsOf
<1>3. PICK i \in room : IsFirst(i, room)
  BY <1>2, FirstExists
<1>4. arp'[i].ip = ip
  BY <1>2, <1>3 DEF Hear, Updated, Fresh
<1>5. QED
  BY <1>2, <1>3, <1>4 DEF RowsOf

LEMMA HearKeepsHeard ==
  ASSUME IInv, LeaseInv, RoomForAll, HeardHasRow,
         NEW ip \in IPs, NEW mac \in MACs, Hear(ip, mac)
  PROVE  HeardHasRow'
<1>1. SUFFICES ASSUME NEW h \in IPs, h \notin overrun', heard'[h].mac # NoMac
               PROVE  RowsOf(arp', h) # {}
  BY DEF HeardHasRow
<1>2. CASE h = ip
  BY <1>2, HearFindsRow
<1>3. CASE h # ip
  <2>1. h \notin overrun /\ heard[h].mac # NoMac
    BY <1>1, <1>3 DEF Hear, IInv, TypeOK
  <2>2. PICK i \in Rows : arp[i].ip = h
    BY <2>1 DEF HeardHasRow, RowsOf
  <2>3. arp'[i].ip = h
    BY <2>1, <2>2, RowKept DEF Next
  <2>4. QED
    BY <2>3 DEF RowsOf
<1>4. QED
  BY <1>2, <1>3

LEMMA HeardNext ==
  IInv /\ LeaseInv /\ RoomForAll /\ HeardHasRow /\ [Next]_vars => HeardHasRow'
<1> SUFFICES ASSUME IInv, LeaseInv, RoomForAll, HeardHasRow, [Next]_vars
             PROVE  HeardHasRow'
  OBVIOUS
<1>1. CASE \E ip \in IPs, mac \in MACs : Hear(ip, mac)
  BY <1>1, HearKeepsHeard
<1>2. CASE ~\E ip \in IPs, mac \in MACs : Hear(ip, mac)
  <2>1. overrun \subseteq overrun' /\ (heard' = heard \/ Tick)
    BY <1>2 DEF Next, Resolve, TxNext, Sweep, Test, Decide, Clear, Load, Ask, WaitTurn,
                GiveUp, CopyHead, CopyTail, Return, Tick, vars
  <2>2. Tick => \A ip \in IPs : heard'[ip].mac # NoMac => heard[ip].mac # NoMac
    BY DEF Tick, Silent
  <2>3. QED
    BY <2>1, <2>2, RowKept DEF HeardHasRow, RowsOf
<1>3. QED
  BY <1>1, <1>2

LEMMA HeardInit == Init => HeardHasRow
BY DEF Init, HeardHasRow, Silent

(* On a LAN of no more hosts than rows a host heard within the lease is in *)
(* the cache, unless a sweep had begun to read the row it was heard into,  *)
(* and then freed it.                                                      *)
THEOREM HeardFound == Spec => []HeardIsKnown
<1>1. CASE RoomForAll
  <2>1. IInv /\ LeaseInv /\ HeardHasRow => HeardIsKnown
    <3>1. SUFFICES ASSUME IInv, LeaseInv, HeardHasRow,
                          NEW ip \in IPs \ overrun, heard[ip].mac # NoMac
                   PROVE  RowsOf(gc_arp_cache(arp), ip) # {}
      BY DEF HeardIsKnown
    <3>2. PICK i \in Rows : arp[i].ip = ip
      BY <3>1 DEF HeardHasRow, RowsOf
    <3>3. gc_arp_cache(arp)[i] = arp[i]
      BY <3>1, <3>2, HeardNotOverdue DEF gc_arp_cache
    <3>4. QED
      BY <3>2, <3>3 DEF RowsOf
  <2>2. RoomForAll /\ IInv /\ LeaseInv /\ HeardHasRow /\ [Next]_vars
          => HeardHasRow'
    BY HeardNext
  <2>3. QED
    BY <1>1, <2>1, <2>2, HeardInit, Invariance, LeaseInvariance, PTL DEF Spec
<1>2. CASE ~RoomForAll
  <2>1. HeardIsKnown
    BY <1>2 DEF HeardIsKnown, RoomForAll
  <2>2. QED
    BY <2>1, PTL
<1>3. QED
  BY <1>1, <1>2
=============================================================================
