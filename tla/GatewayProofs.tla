---------------------------- MODULE GatewayProofs ----------------------------
(***************************************************************************)
(* Theorems about Gateway: lock is left set only by a recv that fails with *)
(* EAGAIN; a send overlaps a poll or recv only after lock was overwritten; *)
(* a frame waits for lock only in a session; the modem socket is never     *)
(* leaked.                                                                 *)
(***************************************************************************)
EXTENDS Gateway, TLAPS

(* While eth_tx_thread polls or receives lock is set, unless a callback    *)
(* whose lock it had overwritten has released it.                          *)
LockHeld == TxInside => lock \/ overwrote

(* Outside the inner loop there is no open socket.                         *)
SocketInSession == tx \in {"check", "addr", "socket"} => lte_sock # "open"

IInv == TypeOK /\ ExclusionUnlessOverwritten /\ LockHeld /\ SocketInSession

LEMMA InvInit == Init => IInv
BY DEF Init, IInv, TypeOK, ExclusionUnlessOverwritten, LockHeld,
       SocketInSession, TxPlaces, TxInside

(* The callback: it takes a free lock, and releases it.                    *)
LEMMA RxKeeps == IInv /\ RxNext => IInv'
<1> SUFFICES ASSUME IInv, RxNext PROVE IInv'
  OBVIOUS
<1> USE DEF IInv, TypeOK, ExclusionUnlessOverwritten, LockHeld,
            SocketInSession, TxInside, txVars, history
<1>1. CASE RxFrame
  BY <1>1 DEF RxFrame
<1>2. CASE RxAcquire
  BY <1>2 DEF RxAcquire
<1>3. CASE RxSent
  BY <1>3 DEF RxSent
<1>4. QED
  BY <1>1, <1>2, <1>3 DEF RxNext

(* eth_tx_thread: what happens to lock and the socket on its way around.   *)
LEMMA TxKeeps == IInv /\ TxNext => IInv'
<1> SUFFICES ASSUME IInv, TxNext PROVE IInv'
  OBVIOUS
<1> USE DEF IInv, TypeOK, TxPlaces, ExclusionUnlessOverwritten, LockHeld,
            SocketInSession, TxInside, TxGo, TxOnly, history
<1>1. CASE TxLinkUp \/ TxAddrOK \/ TxAddrFails
  BY <1>1 DEF TxLinkUp, TxAddrOK, TxAddrFails
<1>2. CASE TxSocketOK \/ TxSocketFails \/ TxClose
  BY <1>2 DEF TxSocketOK, TxSocketFails, TxClose
<1>3. CASE TxInner \/ TxInfoOK \/ TxInfoFails \/ TxTestLock
  BY <1>3 DEF TxInner, TxInfoOK, TxInfoFails, TxTestLock
<1>4. CASE TxSetLock
  BY <1>4 DEF TxSetLock
<1>5. CASE TxPollNone \/ TxPollData \/ TxRecvData
  BY <1>5 DEF TxPollNone, TxPollData, TxRecvData
<1>6. CASE TxRecvFails
  BY <1>6 DEF TxRecvFails
<1>7. CASE TxDrop \/ TxMapped \/ TxForwarded
  BY <1>7 DEF TxDrop, TxMapped, TxForwarded
<1>8. QED
  BY <1>1, <1>2, <1>3, <1>4, <1>5, <1>6, <1>7 DEF TxNext

LEMMA InvNext == IInv /\ [Next]_vars => IInv'
<1> SUFFICES ASSUME IInv, [Next]_vars PROVE IInv'
  OBVIOUS
<1>1. CASE LinkChange \/ EthRxRegister \/ UNCHANGED vars
  BY <1>1
     DEF IInv, TypeOK, ExclusionUnlessOverwritten, LockHeld, SocketInSession,
         TxInside, LinkChange, EthRxRegister, vars, txVars, history
<1>2. QED
  BY <1>1, RxKeeps, TxKeeps DEF Next

LEMMA Invariance == Spec => []IInv
<1>1. QED
  BY InvInit, InvNext, PTL DEF Spec

(* Types are kept.                                                         *)
THEOREM TypeCorrect == Spec => []TypeOK
<1>1. IInv => TypeOK
  BY DEF IInv
<1>2. QED
  BY <1>1, Invariance, PTL

(* Using the modem from both sides at once takes a preempted test of lock. *)
THEOREM Exclusion == Spec => []ExclusionUnlessOverwritten
<1>1. IInv => ExclusionUnlessOverwritten
  BY DEF IInv
<1>2. QED
  BY <1>1, Invariance, PTL

(* No second socket is opened over an open one.                            *)
THEOREM SocketNotLeaked == Spec => NoSocketLeak
<1>1. IInv => (tx = "socket" => lte_sock # "open")
  BY DEF IInv, SocketInSession
<1>2. QED
  BY <1>1, Invariance, PTL DEF NoSocketLeak

(* Whoever set lock is still in its critical section, or has left it with  *)
(* EAGAIN.                                                                 *)
THEOREM LockNotOrphaned == Spec => []NoOrphanLock
<1>1. Init => NoOrphanLock
  BY DEF Init, NoOrphanLock
<1>2. NoOrphanLock /\ [Next]_vars => NoOrphanLock'
  <2> SUFFICES ASSUME NoOrphanLock, [Next]_vars PROVE NoOrphanLock'
    OBVIOUS
  <2> USE DEF NoOrphanLock, TxInside, TxGo, TxOnly, history, txVars
  <2>1. CASE RxNext
    BY <2>1 DEF RxNext, RxFrame, RxAcquire, RxSent
  <2>2. CASE TxRecvFails
    BY <2>2 DEF TxRecvFails
  <2>3. CASE \/ TxSetLock \/ TxPollNone \/ TxPollData \/ TxRecvData
    BY <2>3 DEF TxSetLock, TxPollNone, TxPollData, TxRecvData
  <2>4. CASE \/ TxLinkUp \/ TxAddrOK \/ TxAddrFails \/ TxSocketOK
             \/ TxSocketFails \/ TxInner \/ TxInfoOK \/ TxInfoFails
             \/ TxTestLock \/ TxDrop \/ TxMapped \/ TxForwarded \/ TxClose
    BY <2>4
       DEF TxLinkUp, TxAddrOK, TxAddrFails, TxSocketOK, TxSocketFails, TxInner,
           TxInfoOK, TxInfoFails, TxTestLock, TxDrop, TxMapped, TxForwarded,
           TxClose
  <2>5. CASE LinkChange \/ EthRxRegister \/ UNCHANGED vars
    BY <2>5 DEF LinkChange, EthRxRegister, vars
  <2>6. QED
    BY <2>1, <2>2, <2>3, <2>4, <2>5 DEF Next, TxNext
<1>3. QED
  BY <1>1, <1>2, PTL DEF Spec

(* In the inner loop the socket is open.                                   *)
OpenInside == tx \notin {"check", "addr", "socket"} => lte_sock = "open"

(* A frame that waits for lock has seen a session.                         *)
THEOREM WaitSeesSession == Spec => []WaitsInSession
<1> DEFINE WaitInv == OpenInside /\ WaitsInSession
<1>1. Init => WaitInv
  BY DEF Init, OpenInside, WaitsInSession
<1>2. SocketInSession /\ NoOrphanLock /\ WaitInv /\ [Next]_vars => WaitInv'
  <2> SUFFICES ASSUME SocketInSession, NoOrphanLock, WaitInv, [Next]_vars PROVE WaitInv'
    OBVIOUS
  <2> USE DEF OpenInside, WaitsInSession, TxGo, TxOnly, history, txVars
  <2>1. CASE RxFrame
    BY <2>1 DEF RxFrame, NoOrphanLock, TxInside
  <2>2. CASE RxAcquire \/ RxSent
    BY <2>2 DEF RxAcquire, RxSent
  <2>3. CASE TxClose
    BY <2>3 DEF TxClose
  <2>4. CASE \/ TxSocketOK \/ TxSocketFails
             \/ TxLinkUp \/ TxAddrOK \/ TxAddrFails
    BY <2>4
       DEF SocketInSession, TxSocketOK, TxSocketFails, TxLinkUp, TxAddrOK,
           TxAddrFails
  <2>5. CASE \/ TxInner \/ TxInfoOK \/ TxInfoFails
             \/ TxTestLock \/ TxDrop \/ TxMapped \/ TxForwarded
    BY <2>5
       DEF TxInner, TxInfoOK, TxInfoFails, TxTestLock, TxDrop, TxMapped,
           TxForwarded
  <2>6. CASE \/ TxSetLock \/ TxPollNone \/ TxPollData \/ TxRecvData
             \/ TxRecvFails
    BY <2>6 DEF TxSetLock, TxPollNone, TxPollData, TxRecvData, TxRecvFails
  <2>7. CASE LinkChange \/ EthRxRegister \/ UNCHANGED vars
    BY <2>7 DEF LinkChange, EthRxRegister, vars
  <2>8. QED
    BY <2>1, <2>2, <2>3, <2>4, <2>5, <2>6, <2>7 DEF Next, RxNext, TxNext
<1>3. IInv => SocketInSession
  BY DEF IInv
<1>4. QED
  BY <1>1, <1>2, <1>3, Invariance, LockNotOrphaned, PTL DEF Spec
=============================================================================
