------------------------------- MODULE Gateway -------------------------------
(***************************************************************************)
(* The threads of gateway.c, the flag `lock' and the modem socket.         *)
(*                                                                         *)
(*   eth_recv_cb     runs in the network stack's RX thread, cooperative:   *)
(*                   nothing of it is interrupted by the threads below     *)
(*                   except where it sleeps (on lock) or blocks (in send). *)
(*   eth_tx_thread   preemptible, lowest priority: each of its tests and   *)
(*                   stores is a step.                                     *)
(*   eth_rx_thread   only installs the callback.                           *)
(*                                                                         *)
(* The LTE link comes and goes by the main thread and the modem, and the   *)
(* contents of packets, the mapping table and the ARP cache are left out:  *)
(* what they decide is a choice of outcomes here.  The terminate flags are *)
(* never set, so no thread ends.                                           *)
(***************************************************************************)
CONSTANTS RecvErrors   \* how recv may fail: "hard", or "again" (EAGAIN)

ASSUME RecvAssumption == RecvErrors \subseteq {"hard", "again"}

VARIABLES
  link,        \* is_cgev_act_on && !is_cgev_detach_on
  registered,  \* eth_recv_cb is installed on ctx_rx
  rx,          \* eth_recv_cb: no frame, waiting for lock, in send
  tx,          \* eth_tx_thread: the place it is at
  lock,
  lte_sock,    \* never opened (0), open, closed, failed (negative)
  overwrote,   \* history: eth_tx_thread set lock while a send was going on
  orphaned,    \* history: lock is set, and recv failed with EAGAIN since
  ended        \* history: a session ended while the frame waited for lock

txVars == <<tx, lte_sock>>
history == <<overwrote, orphaned, ended>>
vars   == <<link, registered, rx, lock, txVars, history>>

TxPlaces ==
  {"check", "addr", "socket", "inner", "info", "wait", "set", "poll", "recv",
   "handle", "resolve", "close"}

TypeOK ==
  /\ link \in BOOLEAN
  /\ registered \in BOOLEAN
  /\ rx \in {"idle", "wait", "send"}
  /\ tx \in TxPlaces
  /\ lock \in BOOLEAN
  /\ lte_sock \in {"never", "open", "closed", "failed"}
  /\ overwrote \in BOOLEAN
  /\ orphaned \in BOOLEAN
  /\ ended \in BOOLEAN

Init ==
  /\ link = FALSE
  /\ registered = FALSE
  /\ rx = "idle"
  /\ tx = "check"
  /\ lock = FALSE
  /\ lte_sock = "never"
  /\ overwrote = FALSE
  /\ orphaned = FALSE
  /\ ended = FALSE

-----------------------------------------------------------------------------
(* The link, seen from here.                                               *)
LinkChange ==
  /\ link' = ~link
  /\ UNCHANGED <<registered, rx, lock, txVars, history>>

(* eth_rx_thread_func: net_context_recv while the link is up.              *)
EthRxRegister ==
  /\ link
  /\ registered' = TRUE
  /\ UNCHANGED <<link, rx, lock, txVars, history>>

-----------------------------------------------------------------------------
(* eth_recv_cb.                                                            *)

\* Mistake on purpose: the first look at lock is missing.
RxFrame_NoWait ==
  /\ rx = "idle"
  /\ registered
  /\ link
  /\ rx' = "send"
  /\ lock' = TRUE
  /\ UNCHANGED <<link, registered, txVars, history>>

(* A frame passes the checks, is mapped and rewritten, and finds lock set  *)
(* (it will look again after each sleep) or free.  Frames that are dropped *)
(* on the way leave nothing behind.                                        *)
RxFrame ==
  /\ rx = "idle"
  /\ registered
  /\ link
  /\ IF lock THEN rx' = "wait" /\ UNCHANGED lock
             ELSE rx' = "send" /\ lock' = TRUE
  /\ UNCHANGED <<link, registered, txVars, history>>

(* No other thread runs between the test and the store here.               *)
RxAcquire ==
  /\ rx = "wait"
  /\ ~lock
  /\ lock' = TRUE
  /\ rx' = "send"
  /\ UNCHANGED <<link, registered, txVars, history>>

\* Mistake on purpose: the return after a failed send keeps the lock.
RxSent_KeepLock ==
  /\ rx = "send"
  /\ rx' = "idle"
  /\ lock' = (lte_sock # "open" /\ lock)
  /\ UNCHANGED <<link, registered, txVars, history>>

(* send returns, whether the socket was open or not.                       *)
RxSent ==
  /\ rx = "send"
  /\ rx' = "idle"
  /\ lock' = FALSE /\ orphaned' = FALSE /\ ended' = FALSE
  /\ UNCHANGED <<link, registered, txVars, overwrote>>

-----------------------------------------------------------------------------
(* eth_tx_thread_func.                                                     *)

TxGo(from, to) == tx = from /\ tx' = to

TxOnly == UNCHANGED <<link, registered, rx, history>>

(* The outer loop: while the link is down it sleeps and looks again.       *)
TxLinkUp ==
  /\ TxGo("check", "addr")
  /\ link
  /\ TxOnly /\ UNCHANGED <<lock, lte_sock>>

TxAddrOK ==
  /\ TxGo("addr", "socket")
  /\ TxOnly /\ UNCHANGED <<lock, lte_sock>>

TxAddrFails ==
  /\ TxGo("addr", "check")
  /\ TxOnly /\ UNCHANGED <<lock, lte_sock>>

TxSocketOK ==
  /\ TxGo("socket", "inner")
  /\ lte_sock' = "open"
  /\ TxOnly /\ UNCHANGED lock

\* Mistake on purpose: lte_sock takes the error itself.
TxSocketFails_Errno ==
  /\ TxGo("socket", "check")
  /\ lte_sock' = "errno"
  /\ TxOnly /\ UNCHANGED lock

TxSocketFails ==
  /\ TxGo("socket", "check")
  /\ lte_sock' = "failed"
  /\ TxOnly /\ UNCHANGED lock

\* Mistake on purpose: the inner loop does not look at the link.
TxInner_NoLinkCheck ==
  /\ TxGo("inner", "info")
  /\ TxOnly /\ UNCHANGED <<lock, lte_sock>>

(* The inner loop: it ends when the link is down ...                       *)
TxInner ==
  /\ TxGo("inner", IF link THEN "info" ELSE "close")
  /\ TxOnly /\ UNCHANGED <<lock, lte_sock>>

(* ... or the modem does not tell its address.                             *)
TxInfoOK ==
  /\ TxGo("info", "wait")
  /\ TxOnly /\ UNCHANGED <<lock, lte_sock>>

TxInfoFails ==
  /\ TxGo("info", "close")
  /\ TxOnly /\ UNCHANGED <<lock, lte_sock>>

(* while (lock) ...                                                        *)
TxTestLock ==
  /\ TxGo("wait", "set")
  /\ ~lock
  /\ TxOnly /\ UNCHANGED <<lock, lte_sock>>

(* lock = true, which a callback may have done in between.                 *)
TxSetLock ==
  /\ TxGo("set", "poll")
  /\ lock' = TRUE
  /\ overwrote' = (overwrote \/ rx = "send")
  /\ UNCHANGED <<link, registered, rx, lte_sock, orphaned, ended>>

\* Mistake on purpose: the way back from poll keeps the lock.
TxPollNone_KeepLock ==
  /\ TxGo("poll", "inner")
  /\ TxOnly /\ UNCHANGED <<lock, lte_sock>>

(* poll finds nothing, or fails.                                           *)
TxPollNone ==
  /\ TxGo("poll", "inner")
  /\ lock' = FALSE
  /\ TxOnly /\ UNCHANGED lte_sock

TxPollData ==
  /\ TxGo("poll", "recv")
  /\ TxOnly /\ UNCHANGED <<lock, lte_sock>>

\* Mistake on purpose: every failure of recv keeps the lock.
TxRecvFails_KeepLock ==
  /\ TxGo("recv", "inner")
  /\ RecvErrors # {}
  /\ TxOnly /\ UNCHANGED <<lock, lte_sock>>

(* recv fails: lock is released unless errno is EAGAIN or EWOULDBLOCK.     *)
TxRecvFails ==
  /\ TxGo("recv", "inner")
  /\ \E e \in RecvErrors : lock' = (e = "again" /\ lock)
  /\ orphaned' = lock'
  /\ UNCHANGED <<link, registered, rx, lte_sock, overwrote, ended>>

TxRecvData ==
  /\ TxGo("recv", "handle")
  /\ lock' = FALSE
  /\ TxOnly /\ UNCHANGED lte_sock

(* A check fails, or no mapping matches.                                   *)
TxDrop ==
  /\ TxGo("handle", "inner")
  /\ TxOnly /\ UNCHANGED <<lock, lte_sock>>

TxMapped ==
  /\ TxGo("handle", "resolve")
  /\ TxOnly /\ UNCHANGED <<lock, lte_sock>>

(* resolve_arp answers within its timeout; the frame is sent or dropped.   *)
TxForwarded ==
  /\ TxGo("resolve", "inner")
  /\ TxOnly /\ UNCHANGED <<lock, lte_sock>>

\* Mistake on purpose: the socket is not closed.
TxClose_Leak ==
  /\ TxGo("close", "check")
  /\ TxOnly /\ UNCHANGED <<lock, lte_sock>>

TxClose ==
  /\ TxGo("close", "check")
  /\ lte_sock' = "closed"
  /\ ended' = (ended \/ rx = "wait")
  /\ UNCHANGED <<link, registered, rx, lock, overwrote, orphaned>>

RxNext == RxFrame \/ RxAcquire \/ RxSent

TxNext ==
  \/ TxLinkUp \/ TxAddrOK \/ TxAddrFails \/ TxSocketOK \/ TxSocketFails
  \/ TxInner \/ TxInfoOK \/ TxInfoFails \/ TxTestLock \/ TxSetLock
  \/ TxPollNone \/ TxPollData \/ TxRecvFails \/ TxRecvData
  \/ TxDrop \/ TxMapped \/ TxForwarded \/ TxClose

Next == LinkChange \/ EthRxRegister \/ RxNext \/ TxNext

Spec == Init /\ [][Next]_vars

(* Threads that can run do.  Between two uses of lock eth_tx_thread goes   *)
(* through an AT command with the modem, far longer than the sleep of the  *)
(* waiting callback, which therefore cannot miss every time lock is free.  *)
(* A modem that is asked again and again answers in the end.               *)
Fairness ==
  /\ WF_vars(TxNext)
  /\ WF_vars(RxSent)
  /\ SF_vars(RxAcquire)
  /\ SF_vars(TxAddrOK)
  /\ SF_vars(TxSocketOK)
  /\ SF_vars(TxInfoOK)
  /\ WF_vars(EthRxRegister)

FairSpec == Spec /\ Fairness

-----------------------------------------------------------------------------
(* Properties.                                                             *)

TxInside == tx \in {"poll", "recv"}

(* Whoever set lock is at work with the modem, unless recv has failed with *)
(* EAGAIN: else the other side, and the same thread in its next turn,      *)
(* would wait for ever.                                                    *)
NoOrphanLock == lock => rx = "send" \/ TxInside \/ orphaned

(* A callback's send overlaps a poll or recv only after eth_tx_thread was  *)
(* preempted between its test of lock and its store.                       *)
ExclusionUnlessOverwritten == rx = "send" /\ TxInside => overwrote

(* A frame waits for lock only under an open modem socket, to which it is  *)
(* then sent: unless eth_tx_thread closed that one while it waited, so     *)
(* that it goes to a closed socket, to none, or to the next session's.     *)
WaitsInSession == rx = "wait" => lte_sock = "open" \/ ended \/ orphaned

(* eth_tx_thread never opens a second modem socket over an open one, on    *)
(* any way through its two loops and their failures.                       *)
NoSocketLeak == [][tx = "socket" => lte_sock # "open"]_vars

(* A frame that waits for lock is sent, or refused by send, in the end, or *)
(* waits for a lock that EAGAIN has left set.                              *)
FrameCompletes == rx = "wait" ~> rx = "idle" \/ orphaned

(* With the link up for good and no more frames from Ethernet, packets     *)
(* from LTE are polled for again and again.                                *)
GatewayRecovers ==
  <>[](link /\ rx = "idle") => []<>(tx = "poll") \/ <>[]orphaned

(* With the link down for good the modem socket is given back.             *)
SocketReleased == <>[]~link => <>[](lte_sock # "open") \/ <>[]orphaned
=============================================================================
