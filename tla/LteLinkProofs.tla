---------------------------- MODULE LteLinkProofs ----------------------------
(***************************************************************************)
(* Theorems about LteLink: its types, the addresses that packets are       *)
(* stamped with, the resets, and how often old news takes the link down,   *)
(* for every set of addresses, every modem and every number of failures.   *)
(***************************************************************************)
EXTENDS LteLink, FiniteSets, FiniteSetTheorems, TLAPS

Notes == {"ACT", "DETACH"}

-----------------------------------------------------------------------------
(* Notifications under way.                                                *)

LEMMA ToComeAppend ==
  ASSUME NEW queue \in Seq(Notes), NEW note \in Notes
  PROVE  ToCome(Append(queue, note)) = ToCome(queue) \cup {note}
<1> DEFINE longer == Append(queue, note)
<1>1. /\ DOMAIN longer = DOMAIN queue \cup {Len(queue) + 1}
      /\ longer[Len(queue) + 1] = note
      /\ \A i \in DOMAIN queue : longer[i] = queue[i]
  OBVIOUS
<1>2. QED
  BY <1>1, Zenon DEF ToCome

LEMMA ToComeTail ==
  ASSUME NEW queue \in Seq(Notes), queue # << >>
  PROVE  ToCome(queue) = {Head(queue)} \cup ToCome(Tail(queue))
<1>1. ASSUME NEW note \in ToCome(queue)
      PROVE  note \in {Head(queue)} \cup ToCome(Tail(queue))
  <2>1. PICK i \in 1..Len(queue) : note = queue[i]
    BY DEF ToCome
  <2>2. CASE i = 1
    BY <2>1, <2>2
  <2>3. CASE i # 1
    <3>1. i - 1 \in DOMAIN Tail(queue) /\ Tail(queue)[i - 1] = note
      BY <2>1, <2>3
    <3>2. QED
      BY <3>1 DEF ToCome
  <2>4. QED
    BY <2>2, <2>3
<1>2. ASSUME NEW note \in {Head(queue)} \cup ToCome(Tail(queue))
      PROVE  note \in ToCome(queue)
  <2>1. CASE note = Head(queue)
    BY <2>1 DEF ToCome
  <2>2. CASE note \in ToCome(Tail(queue))
    <3>1. PICK i \in DOMAIN Tail(queue) : note = Tail(queue)[i]
      BY <2>2 DEF ToCome
    <3>2. i + 1 \in DOMAIN queue /\ queue[i + 1] = note
      BY <3>1
    <3>3. QED
      BY <3>2 DEF ToCome
  <2>3. QED
    BY <1>2, <2>1, <2>2
<1>3. QED
  BY <1>1, <1>2

LEMMA ToComeEmpty == ToCome(<< >>) = {}
BY DEF ToCome

-----------------------------------------------------------------------------
(* Types.                                                                  *)

LEMMA NotesMain == NotesOK /\ MainNext => NotesOK'
<1>1. ASSUME NotesOK, notes' = notes PROVE NotesOK'
  BY <1>1 DEF NotesOK
<1>2. MainNext => notes' = notes \/ notes' = << >>
  BY DEF MainNext, Start, Ask, AskFails, AnswerTimesOut, NoAnswer, ReadAtStart,
         ReadInLoop, ReadInConnect, ReadAtExit, Retry, Active, Configure,
         Activate, ActivateFails, Activated, ActivateTimesOut, Subscribe,
         Deactivate, DeactivateFails, Detached, DetachTimesOut, Settle,
         PrepareFails, NoAddress, StoreAddress, Serve, StopServing, SwitchOff,
         Reboot, OnlyAsks, OnlyMoves, modem, vars
<1>3. ASSUME notes' = << >> PROVE NotesOK'
  BY <1>3 DEF NotesOK
<1>4. QED
  BY <1>1, <1>2, <1>3

(* No step but Reboot changes a count by more than one, within its bound.  *)
Counted ==
  /\ trouble' = trouble \/ Trouble
  /\ \/ takedowns' \in {0, takedowns}
     \/ takedowns < TakedownBound /\ takedowns' = takedowns + 1

LEMMA CountsStay == CountsOK /\ Counted => CountsOK'
BY ModemAssumption DEF CountsOK, Counted, Trouble, TakedownBound

LEMMA MainCounts == MainNext => Counted
BY DEF Counted, MainNext, Start, Ask, AskFails, AnswerTimesOut, NoAnswer,
       ReadAtStart, ReadInLoop, ReadInConnect, ReadAtExit, Retry, Active,
       Configure, Activate, ActivateFails, Activated, ActivateTimesOut,
       Subscribe, Deactivate, DeactivateFails, Detached, DetachTimesOut, Settle,
       PrepareFails, NoAddress, StoreAddress, Serve, StopServing, SwitchOff,
       Reboot, OnlyAsks, OnlyMoves, history, vars

LEMMA RestCounts ==
  OpenSession \/ CloseSession \/ ModemNext \/ StrayNext => Counted
BY DEF Counted, OpenSession, CloseSession, ModemNext, AnswerArrives,
       notification_handler, Attach, Detach, StrayNext, SelfDetach, Drop,
       FlightMode, Stray, history

LEMMA TypeMain == TypeOK /\ MainNext => TypeOK'
<1> SUFFICES ASSUME TypeOK, MainNext PROVE TypeOK'
  OBVIOUS
<1> NotesOK'
  BY NotesMain DEF TypeOK
<1> CountsOK'
  BY MainCounts, CountsStay DEF TypeOK
<1> USE ModemAssumption
        DEF TypeOK, Places, Sites, Go, OnlyAsks, OnlyMoves, Blink, addresses, flags, statics, modem, locals, history
<1>1. CASE Start \/ Ask
  <2>1. CASE Start
    BY <2>1 DEF Start
  <2>2. CASE Ask
    BY <2>2 DEF Ask
  <2>3. QED
    BY <1>1, <2>1, <2>2
<1>2. CASE AskFails \/ AnswerTimesOut
  <2>1. CASE AskFails
    BY <2>1, ZenonT(60) DEF AskFails, NoAnswer
  <2>2. CASE AnswerTimesOut
    BY <2>2 DEF AnswerTimesOut, NoAnswer
  <2>3. QED
    BY <1>2, <2>1, <2>2
<1>3. CASE ReadAtStart \/ ReadInLoop
  BY <1>3 DEF ReadAtStart, ReadInLoop, Read
<1>4. CASE ReadInConnect \/ ReadAtExit
  BY <1>4 DEF ReadInConnect, ReadAtExit, Read
<1>5. CASE Retry \/ Active
  BY <1>5 DEF Retry, Active
<1>6. CASE Configure
  BY <1>6 DEF Configure
<1>7. CASE Activate \/ ActivateFails
  <2>1. CASE Activate
    BY <2>1 DEF Activate
  <2>2. CASE ActivateFails
    BY <2>2 DEF ActivateFails
  <2>3. QED
    BY <1>7, <2>1, <2>2
<1>8. CASE Activated
  BY <1>8 DEF Activated
<1>9. CASE ActivateTimesOut
  BY <1>9 DEF ActivateTimesOut
<1>10. CASE Subscribe
  BY <1>10 DEF Subscribe
<1>11. CASE Deactivate
  BY <1>11 DEF Deactivate
<1>12. CASE Detached
  BY <1>12 DEF Detached
<1>13. CASE DeactivateFails
  BY <1>13 DEF DeactivateFails, Return
<1>14. CASE DetachTimesOut
  BY <1>14 DEF DetachTimesOut, Return
<1>15. CASE Settle
  BY <1>15 DEF Settle, Return
<1>16. CASE PrepareFails
  BY <1>16 DEF PrepareFails
<1>17. CASE NoAddress
  BY <1>17 DEF NoAddress
<1>18. CASE StoreAddress
  BY <1>18 DEF StoreAddress
<1>19. CASE Serve
  BY <1>19 DEF Serve, vars
<1>20. CASE StopServing
  BY <1>20 DEF StopServing
<1>21. CASE SwitchOff
  BY <1>21 DEF SwitchOff
<1>22. CASE Reboot
  BY <1>22 DEF Reboot
<1>23. QED
  BY <1>1, <1>2, <1>3, <1>4, <1>5, <1>6, <1>7, <1>8, <1>9, <1>10, <1>11,
     <1>12, <1>13, <1>14, <1>15, <1>16, <1>17, <1>18, <1>19, <1>20, <1>21,
     <1>22 DEF MainNext

LEMMA NotesRest ==
  /\ NotesOK
  /\ OpenSession \/ CloseSession \/ ModemNext \/ StrayNext
  => NotesOK'
<1> USE DEF NotesOK, Tell, flags, statics, modem
<1>1. CASE \/ OpenSession \/ CloseSession \/ AnswerArrives
           \/ notification_handler
  BY <1>1 DEF OpenSession, CloseSession, AnswerArrives, notification_handler
<1>2. CASE Attach \/ Detach
  BY <1>2 DEF Attach, Detach
<1>3. CASE StrayNext
  BY <1>3 DEF StrayNext, SelfDetach, Drop, FlightMode
<1>4. QED
  BY <1>1, <1>2, <1>3 DEF ModemNext

LEMMA TypeRest ==
  TypeOK /\ (OpenSession \/ CloseSession \/ ModemNext \/ StrayNext) => TypeOK'
<1> SUFFICES ASSUME TypeOK,
                    OpenSession \/ CloseSession \/ ModemNext \/ StrayNext
             PROVE  TypeOK'
  OBVIOUS
<1> NotesOK'
  BY NotesRest DEF TypeOK
<1> CountsOK'
  BY RestCounts, CountsStay DEF TypeOK
<1> USE ModemAssumption
        DEF TypeOK, Blink, Stray, Program, addresses, flags, statics,
            modem, locals, history
<1>1. CASE OpenSession \/ CloseSession \/ AnswerArrives
  BY <1>1 DEF OpenSession, CloseSession, AnswerArrives, Attached
<1>2. CASE notification_handler
  BY <1>2 DEF notification_handler
<1>3. CASE Attach \/ Detach
  BY <1>3 DEF Attach, Detach
<1>4. CASE SelfDetach \/ Drop \/ FlightMode
  BY <1>4 DEF SelfDetach, Drop, FlightMode
<1>5. QED
  BY <1>1, <1>2, <1>3, <1>4 DEF ModemNext, StrayNext

(* The state of the link stays within its types.                           *)
THEOREM TypeCorrect == Spec => []TypeOK
<1>1. Init => TypeOK
  <2>1. Init => NotesOK
    BY DEF Init, NotesOK
  <2>2. Init => CountsOK
    BY ModemAssumption DEF Init, CountsOK, TakedownBound
  <2>3. QED
    BY <2>1, <2>2 DEF Init, TypeOK, Places, Sites
<1>2. TypeOK /\ [Next]_vars => TypeOK'
  <2>1. TypeOK /\ UNCHANGED vars => TypeOK'
    BY DEF TypeOK, NotesOK, CountsOK, vars, addresses, flags, statics, modem, locals, history
  <2>2. QED
    BY <2>1, TypeMain, TypeRest DEF Next
<1>3. QED
  BY <1>1, <1>2, PTL DEF Spec

-----------------------------------------------------------------------------
(* The addresses.  A detach that a subscribed modem has not been heard to  *)
(* tell is under way.                                                      *)

Told == "DETACH" \in ToCome(notes)

LEMMA TellKeepsTold ==
  ASSUME NotesOK, Told, NEW note \in Notes, Tell(note)
  PROVE  Told'
BY ToComeAppend DEF NotesOK, Notes, Told, Tell

LEMMA DetachIsTold ==
  ASSUME NotesOK, subscribed, Tell("DETACH")
  PROVE  Told'
BY ToComeAppend DEF NotesOK, Notes, Told, Tell

LEMMA HandlerHears ==
  ASSUME NotesOK, Told, notification_handler
  PROVE  Told' \/ detach'
BY ToComeTail DEF NotesOK, Notes, Told, notification_handler

StampInv ==
  at = "serve" =>
    /\ subscribed
    /\ \/ detach
       \/ Attached /\ my_ip_addr = addr
       \/ Told
       \/ "drop" \in strayed

LEMMA StampKept == TypeOK /\ StampInv /\ [Next]_vars => StampInv'
<1> SUFFICES ASSUME TypeOK, StampInv, [Next]_vars PROVE StampInv'
  OBVIOUS
<1>1. CASE Serve \/ UNCHANGED vars
  BY <1>1
     DEF Serve, vars, StampInv, Told, Attached, addresses, flags, modem, history
<1>2. CASE StoreAddress
  BY <1>2 DEF StoreAddress, StampInv, Attached
<1>3. CASE MainNext /\ ~Serve /\ ~StoreAddress
  <2>1. at' # "serve"
    BY <1>3
       DEF MainNext, Go, Start, Ask, AskFails, AnswerTimesOut, NoAnswer,
           ReadAtStart, ReadInLoop, ReadInConnect, ReadAtExit, Retry, Active,
           Configure, Activate, ActivateFails, Activated, ActivateTimesOut,
           Subscribe, Deactivate, DeactivateFails, Detached, DetachTimesOut,
           Settle, Return, PrepareFails, NoAddress, StopServing, SwitchOff,
           Reboot
  <2>2. QED
    BY <2>1 DEF StampInv
<1>4. CASE OpenSession \/ CloseSession \/ AnswerArrives
  BY <1>4
     DEF OpenSession, CloseSession, AnswerArrives, Program, StampInv, Told,
         Attached, locals, addresses, flags, modem, history
<1>5. CASE notification_handler
  <2>1. Told => Told' \/ detach'
    BY <1>5, HandlerHears DEF TypeOK
  <2>2. QED
    BY <1>5, <2>1
       DEF notification_handler, Program, StampInv, Attached, addresses
<1>6. CASE Attach \/ Detach \/ SelfDetach
  <2>1. /\ Told => Told'
        /\ (Detach \/ SelfDetach) /\ subscribed => Told'
    BY <1>6, TellKeepsTold, DetachIsTold
       DEF Attach, Detach, SelfDetach, Notes, TypeOK
  <2>2. CASE Attach
    BY <2>1, <2>2 DEF Attach, Program, StampInv, Attached, addresses, flags, history
  <2>3. CASE Detach
    BY <2>1, <2>3 DEF Detach, Program, StampInv, Attached, addresses, flags, history
  <2>4. CASE SelfDetach
    BY <2>1, <2>4
       DEF SelfDetach, Stray, Program, StampInv, Attached, addresses, flags
  <2>5. QED
    BY <1>6, <2>2, <2>3, <2>4
<1>7. CASE Drop \/ FlightMode
  BY <1>7
     DEF Drop, FlightMode, Stray, Program, StampInv, Attached, Told, addresses,
         flags
<1>8. QED
  BY <1>1, <1>2, <1>3, <1>4, <1>5, <1>6, <1>7 DEF Next, ModemNext, StrayNext

(* Beside a link that the other threads use, the modem has the address     *)
(* that packets from Ethernet are stamped with, but for a detach about to  *)
(* be told and a drop that never is.                                       *)
THEOREM StampHolds == Spec => []StampCurrent
<1>1. Init => StampInv
  BY DEF Init, StampInv
<1>2. StampInv => StampCurrent
  BY DEF StampInv, StampCurrent, LinkUp, Told
<1>3. QED
  BY <1>1, <1>2, StampKept, TypeCorrect, PTL DEF Spec

-----------------------------------------------------------------------------
(* The session of eth_tx_thread.  A modem that was not asked to tell gives *)
(* no link.                                                                *)

SessionInv ==
  /\ act => subscribed
  /\ notes # << >> => subscribed
  /\ InSession /\ LinkUp =>
       \/ Attached /\ my_addr = addr
       \/ Told
       \/ "drop" \in strayed
       \/ "blink" \in missed

(* What the main thread leaves alone, but for a reboot: a link that comes  *)
(* up in a session is noticed.                                             *)
MainFrame ==
  /\ UNCHANGED <<my_addr, addr, notes, strayed>>
  /\ subscribed => subscribed'
  /\ act' => act
  /\ missed \subseteq missed'
  /\ InSession /\ LinkUp' => LinkUp \/ "blink" \in missed'

LEMMA MainFrameHolds == MainNext => MainFrame \/ Reboot
<1> SUFFICES ASSUME MainNext, ~Reboot PROVE MainFrame
  OBVIOUS
<1> USE DEF MainFrame, InSession, LinkUp, addresses, flags, modem, history,
            OnlyAsks, OnlyMoves
<1>1. CASE Start \/ Ask \/ AskFails \/ AnswerTimesOut
  BY <1>1 DEF Start, Ask, AskFails, AnswerTimesOut, NoAnswer
<1>2. CASE ReadAtStart \/ ReadInLoop \/ ReadInConnect \/ ReadAtExit
  BY <1>2 DEF ReadAtStart, ReadInLoop, ReadInConnect, ReadAtExit
<1>3. CASE Retry \/ Active \/ Configure
  BY <1>3 DEF Retry, Active, Configure
<1>4. CASE Activate \/ ActivateFails \/ Activated \/ ActivateTimesOut
  BY <1>4 DEF Activate, ActivateFails, Activated, ActivateTimesOut
<1>5. CASE Subscribe \/ Detached
  BY <1>5 DEF Subscribe, Detached, Blink
<1>6. CASE Deactivate \/ DeactivateFails \/ DetachTimesOut \/ Settle
  BY <1>6 DEF Deactivate, DeactivateFails, DetachTimesOut, Settle
<1>7. CASE PrepareFails \/ NoAddress \/ StoreAddress
  BY <1>7 DEF PrepareFails, NoAddress, StoreAddress
<1>8. CASE Serve \/ StopServing \/ SwitchOff
  BY <1>8 DEF Serve, StopServing, SwitchOff, vars
<1>9. QED
  BY <1>1, <1>2, <1>3, <1>4, <1>5, <1>6, <1>7, <1>8 DEF MainNext

LEMMA SessionKept == TypeOK /\ SessionInv /\ [Next]_vars => SessionInv'
<1> SUFFICES ASSUME TypeOK, SessionInv, [Next]_vars PROVE SessionInv'
  OBVIOUS
<1>1. CASE UNCHANGED vars
  BY <1>1
     DEF vars, SessionInv, InSession, LinkUp, Told, Attached, addresses, flags,
         modem, history
<1>2. CASE MainNext /\ ~Reboot
  <2>1. MainFrame
    BY <1>2, MainFrameHolds
  <2>2. QED
    BY <2>1 DEF MainFrame, SessionInv, InSession, LinkUp, Told, Attached
<1>3. CASE Reboot
  BY <1>3 DEF Reboot, SessionInv, InSession
<1>4. CASE OpenSession \/ CloseSession \/ AnswerArrives
  BY <1>4
     DEF OpenSession, CloseSession, AnswerArrives, Program, SessionInv,
         InSession, LinkUp, Told, Attached, addresses, flags, modem, history
<1>5. CASE notification_handler
  <2>1. Told => Told' \/ detach'
    BY <1>5, HandlerHears DEF TypeOK
  <2>2. subscribed'
    BY <1>5 DEF notification_handler, SessionInv
  <2>3. InSession' /\ LinkUp' => LinkUp \/ "blink" \in missed'
    BY <1>5 DEF notification_handler, Program, addresses, Blink, InSession
  <2>4. missed \subseteq missed'
    BY <1>5 DEF notification_handler, Blink
  <2>5. QED
    BY <1>5, <2>1, <2>2, <2>3, <2>4
       DEF notification_handler, Program, addresses, SessionInv, InSession,
           LinkUp, Attached
<1>6. CASE Attach \/ Detach \/ SelfDetach
  <2>1. /\ Told => Told'
        /\ (Detach \/ SelfDetach) /\ subscribed => Told'
    BY <1>6, TellKeepsTold, DetachIsTold
       DEF Attach, Detach, SelfDetach, Notes, TypeOK
  <2>2. notes' # << >> => subscribed
    BY <1>6 DEF Attach, Detach, SelfDetach, Tell, SessionInv
  <2>3. QED
    BY <1>6, <2>1, <2>2
       DEF Attach, Detach, SelfDetach, Stray, Program, SessionInv, InSession,
           LinkUp, Attached, addresses, flags, history
<1>7. CASE Drop \/ FlightMode
  BY <1>7
     DEF Drop, FlightMode, Stray, Program, SessionInv, InSession, LinkUp, Told,
         Attached, addresses, flags
<1>8. QED
  BY <1>1, <1>2, <1>3, <1>4, <1>5, <1>6, <1>7 DEF Next, ModemNext, StrayNext

(* A session is not used with an address the modem no longer has, but for  *)
(* a detach about to be told, a drop, and a time without the link that     *)
(* eth_tx_thread did not notice.                                           *)
THEOREM SessionHolds == Spec => []SessionCurrent
<1>1. Init => SessionInv
  BY DEF Init, SessionInv, InSession
<1>2. SessionInv => SessionCurrent
  BY DEF SessionInv, SessionCurrent, Told
<1>3. QED
  BY <1>1, <1>2, SessionKept, TypeCorrect, PTL DEF Spec

-----------------------------------------------------------------------------
(* The resets.                                                             *)

Excused ==
  \/ missed \cap {"failed", "late"} # {}
  \/ strayed \cap {"detach", "flight"} # {}

(* A detach is told only while disconnect waits for it, and once: its flag *)
(* is set and cleared there, and after it the modem stays off until it is  *)
(* configured again.                                                       *)
ResetInv ==
  \/ Excused
  \/ /\ Told => at = "detaching" /\ ~Attached /\ ~detach
     /\ \A i \in DOMAIN notes : notes[i] = "DETACH" => i = Len(notes)
     /\ detach => at = "detaching" /\ ~Attached
     /\ cfun = 0 /\ Attached => at = "detaching"
     /\ at \in {"detaching", "settle", "reset", "reboot"} => cfun = 0
     /\ at \in {"settle", "reset", "reboot"} => ~Attached

LEMMA ResetInvInit == Init => ResetInv
BY ToComeEmpty DEF Init, ResetInv, Told, Attached

(* What went wrong stays remembered until the board starts again.          *)
LEMMA ExcuseStays == [Next]_vars /\ ~Reboot => (Excused => Excused')
<1> SUFFICES ASSUME [Next]_vars, ~Reboot, Excused PROVE Excused'
  OBVIOUS
<1> USE DEF Excused, history
<1>1. CASE MainNext
  BY <1>1, MainFrameHolds DEF MainFrame
<1>2. CASE OpenSession \/ CloseSession \/ ModemNext \/ UNCHANGED vars
  BY <1>2
     DEF OpenSession, CloseSession, ModemNext, AnswerArrives, Attach, Detach,
         notification_handler, Blink, vars
<1>3. CASE StrayNext
  BY <1>3 DEF StrayNext, SelfDetach, Drop, FlightMode, Stray
<1>4. QED
  BY <1>1, <1>2, <1>3 DEF Next

(* A detach that the handler hears was the only one.                       *)
LEMMA HeardOnce ==
  ASSUME NotesOK, notification_handler,
         \A i \in DOMAIN notes : notes[i] = "DETACH" => i = Len(notes)
  PROVE  /\ \A i \in DOMAIN notes' : notes'[i] = "DETACH" => i = Len(notes')
         /\ Head(notes) = "DETACH" => Told /\ ~Told'
         /\ Told' => Told
<1>1. /\ Len(notes') = Len(notes) - 1
      /\ DOMAIN notes' = 1..(Len(notes) - 1)
      /\ \A i \in DOMAIN notes' : notes'[i] = notes[i + 1]
      /\ DOMAIN notes = 1..Len(notes) /\ Len(notes) \in Nat
      /\ Head(notes) = notes[1] /\ 1 \in DOMAIN notes
  BY DEF NotesOK, notification_handler
<1>2. \A i \in DOMAIN notes' : notes'[i] = "DETACH" => i = Len(notes')
  BY <1>1
<1>3. Told' => Told
  BY <1>1 DEF Told, ToCome
<1>4. ASSUME Head(notes) = "DETACH" PROVE Told /\ ~Told'
  <2>1. Len(notes) = 1 /\ Told
    BY <1>1, <1>4 DEF Told, ToCome
  <2>2. DOMAIN notes' = {}
    BY <1>1, <2>1
  <2>3. QED
    BY <2>1, <2>2 DEF Told, ToCome
<1>5. QED
  BY <1>2, <1>3, <1>4

LEMMA ResetKeptByMain ==
  ASSUME TypeOK, ResetInv, MainNext, ~Excused, ~Reboot, ~Excused'
  PROVE  ResetInv'
<1>1. UNCHANGED <<addr, notes>> /\ Told' = Told
  BY MainFrameHolds DEF MainFrame, Told
<1> USE <1>1
        DEF ResetInv, Excused, Go, OnlyAsks, OnlyMoves, Attached, addresses,
            flags, modem, history, TypeOK
<1>2. CASE Start
  BY <1>2 DEF Start
<1>3. CASE Ask
  BY <1>3 DEF Ask
<1>4. CASE AskFails \/ AnswerTimesOut
  BY <1>4 DEF AskFails, AnswerTimesOut, NoAnswer
<1>5. CASE ReadAtStart \/ ReadInLoop \/ ReadInConnect \/ ReadAtExit
  BY <1>5 DEF ReadAtStart, ReadInLoop, ReadInConnect, ReadAtExit, Read
<1>6. CASE Retry \/ Active \/ Configure
  BY <1>6 DEF Retry, Active, Configure
<1>7. CASE Activate \/ ActivateFails \/ Activated \/ ActivateTimesOut
  BY <1>7 DEF Activate, ActivateFails, Activated, ActivateTimesOut
<1>8. CASE Subscribe \/ Deactivate
  BY <1>8 DEF Subscribe, Deactivate
<1>9. CASE Detached \/ Settle
  BY <1>9 DEF Detached, Settle, Return
<1>10. CASE DeactivateFails \/ DetachTimesOut
  BY <1>10 DEF DeactivateFails, DetachTimesOut, Return, Told
<1>11. CASE PrepareFails \/ NoAddress \/ StoreAddress
  BY <1>11 DEF PrepareFails, NoAddress, StoreAddress
<1>12. CASE Serve \/ StopServing \/ SwitchOff
  BY <1>12 DEF Serve, StopServing, SwitchOff, vars
<1>13. QED
  BY <1>2, <1>3, <1>4, <1>5, <1>6, <1>7, <1>8, <1>9, <1>10, <1>11, <1>12
     DEF MainNext

(* Told after Tell, and where.                                             *)
LEMMA ToldAfterTell ==
  ASSUME NotesOK, NEW note \in Notes, Tell(note), ~Told
  PROVE  /\ \A i \in DOMAIN notes' : notes'[i] = "DETACH" => i = Len(notes')
         /\ Told' => note = "DETACH"
<1>1. \A i \in DOMAIN notes : notes[i] # "DETACH"
  BY DEF Told, ToCome
<1>2. CASE ~subscribed
  <2>1. notes' = notes
    BY <1>2 DEF Tell
  <2>2. QED
    BY <1>1, <2>1 DEF Told, ToCome
<1>3. CASE subscribed
  <2>1. /\ DOMAIN notes' = 1..(Len(notes) + 1)
        /\ Len(notes') = Len(notes) + 1
        /\ Len(notes) \in Nat
        /\ DOMAIN notes = 1..Len(notes)
        /\ notes'[Len(notes) + 1] = note
        /\ \A i \in DOMAIN notes : notes'[i] = notes[i]
    BY <1>3 DEF Tell, NotesOK
  <2>2. \A i \in DOMAIN notes' : notes'[i] = "DETACH" => i = Len(notes')
    BY <1>1, <2>1
  <2>3. Told' => note = "DETACH"
    BY <1>1, <2>1 DEF Told, ToCome
  <2>4. QED
    BY <2>2, <2>3
<1>4. QED
  BY <1>2, <1>3

LEMMA ResetKept == TypeOK /\ ResetInv /\ [Next]_vars => ResetInv'
<1> SUFFICES ASSUME TypeOK, ResetInv, [Next]_vars PROVE ResetInv'
  OBVIOUS
<1>1. CASE Reboot
  BY <1>1, ToComeEmpty DEF Reboot, ResetInv, Told, Attached
<1>2. CASE Excused' /\ ~Reboot
  BY <1>2 DEF ResetInv
<1>3. CASE ~Excused' /\ ~Reboot
  <2>1. ~Excused
    BY <1>3, ExcuseStays
  <2> NotesOK
    BY DEF TypeOK
  <2>2. CASE UNCHANGED vars
    BY <2>1, <2>2 DEF vars, ResetInv, Told, Attached, flags, modem
  <2>3. CASE MainNext
    BY <1>3, <2>1, <2>3, ResetKeptByMain
  <2>4. CASE OpenSession \/ CloseSession \/ AnswerArrives
    BY <2>1, <2>4
       DEF OpenSession, CloseSession, AnswerArrives, Program, ResetInv, Told,
           Attached, flags, modem
  <2>5. CASE notification_handler
    <3>1. \A i \in DOMAIN notes : notes[i] = "DETACH" => i = Len(notes)
      BY <2>1 DEF ResetInv
    <3>2. /\ \A i \in DOMAIN notes' : notes'[i] = "DETACH" => i = Len(notes')
          /\ Head(notes) = "DETACH" => Told /\ ~Told'
          /\ Told' => Told
      BY <2>5, <3>1, HeardOnce
    <3>3. /\ UNCHANGED <<at, addr, cfun>>
          /\ detach' => detach \/ Head(notes) = "DETACH"
          /\ detach /\ Told => FALSE
          /\ Told' => ~detach'
      BY <2>1, <2>5, <3>2 DEF notification_handler, Program, ResetInv
    <3>4. QED
      BY <2>1, <3>2, <3>3 DEF ResetInv, Attached
  <2>6. CASE Attach
    <3>1. ~Told
      BY <2>1, <2>6 DEF Attach, ResetInv
    <3>2. /\ \A i \in DOMAIN notes' : notes'[i] = "DETACH" => i = Len(notes')
          /\ ~Told'
      BY <2>6, <3>1, ToldAfterTell DEF Attach, Notes
    <3>3. QED
      BY <2>1, <2>6, <3>2 DEF Attach, Program, ResetInv, Attached, flags
  <2>7. CASE Detach
    <3>1. ~Told /\ ~detach /\ at = "detaching"
      BY <2>1, <2>7 DEF Detach, ResetInv
    <3>2. \A i \in DOMAIN notes' : notes'[i] = "DETACH" => i = Len(notes')
      BY <2>7, <3>1, ToldAfterTell DEF Detach, Notes
    <3>3. QED
      BY <2>1, <2>7, <3>1, <3>2
         DEF Detach, Program, ResetInv, Attached, flags
  <2>8. CASE SelfDetach \/ FlightMode
    BY <1>3, <2>8 DEF SelfDetach, FlightMode, Stray, Excused
  <2>9. CASE Drop
    <3>1. ~Told
      BY <2>1, <2>9 DEF Drop, Stray, ResetInv
    <3>2. UNCHANGED <<at, detach, cfun, notes>> /\ ~Attached' /\ ~Told'
      BY <2>9, <3>1 DEF Drop, Stray, Program, flags, Attached, Told
    <3>3. QED
      BY <2>1, <3>2 DEF ResetInv
  <2>10. QED
    BY <2>2, <2>3, <2>4, <2>5, <2>6, <2>7, <2>8, <2>9
       DEF Next, ModemNext, StrayNext
<1>4. QED
  BY <1>1, <1>2, <1>3

(* The board is reset under an attached modem only after a disconnect that *)
(* failed or came too late, or a detach or a flight mode unasked.          *)
THEOREM ResetsHold == Spec => []ResetsDetached
<1>1. ResetInv => ResetsDetached
  BY DEF ResetInv, ResetsDetached, Excused
<1>2. QED
  BY <1>1, ResetInvInit, ResetKept, TypeCorrect, PTL DEF Spec

-----------------------------------------------------------------------------
(***************************************************************************)
(* StaleTakedownOnce, for every number of failures.  Each takedown must be *)
(* paid for by a trouble, all but one.  Debt is the number of takedowns    *)
(* that may still follow without another trouble; it is a function of the  *)
(* state, and no step but a reboot lets takedowns + Debt grow by more than *)
(* the step adds to trouble.                                               *)
(*                                                                         *)
(* What can bring a takedown about is an answer to AT+CFUN? that is no     *)
(* longer true, and a notification that is no longer true or was heard in  *)
(* place of another.  Debt counts them.                                    *)
(***************************************************************************)

One(b) == IF b THEN 1 ELSE 0

(* The modem is on; at_cfun_read1 was last told that it is off, which is   *)
(* an old answer while the modem is on.                                    *)
On  == cfun = 1
Old == at_status1 = 0

(* The queue of notifications: how many attachments it tells, its ends.    *)
TellsAct(queue) == {i \in DOMAIN queue : queue[i] = "ACT"}

Acts   == Cardinality(TellsAct(notes))
First  == IF notes = << >> THEN "none" ELSE notes[1]
Newest == IF notes = << >> THEN "none" ELSE notes[Len(notes)]

-----------------------------------------------------------------------------
(* What the places of the main thread imply.                               *)

(* The places of nrf91_lte_disconnect, of nrf91_lte_connect, and those of  *)
(* the main loop beside the two.                                           *)
Disconnecting == {"off", "cfun0", "detaching", "settle"}
Connecting    == {"config", "cfun1", "attaching"}
Beside        == {"prepare", "serve"}

(* Who called what the main thread is in, and that the link is active      *)
(* wherever the main loop relies on it.                                    *)
SiteInv ==
  /\ at \in Disconnecting => site \in {"connect", "exit"}
  /\ at \in Connecting => site = "connect"
  /\ at \in Beside => site \in {"loop", "connect"}
  /\ site = "exit" =>
       at \in Disconnecting \cup {"ask", "answer", "reset", "reboot"}
  /\ site = "start" =>
       /\ at \in {"start", "ask", "answer", "retry", "reset", "reboot"}
       /\ ~act /\ ~On /\ ~Attached /\ Old /\ notes = << >>
  /\ at = "start" => site = "start"
  /\ at \in Beside \/ (at \in {"ask", "answer"} /\ site = "loop") => act

(* What the modem has been commanded by then, and which answer is awaited. *)
CommandInv ==
  /\ ~subscribed => notes = << >> /\ ~act
  /\ at \in {"cfun0", "detaching", "settle"} => subscribed /\ ~pending
  /\ at = "cfun1" => ~pending
  /\ at = "config" /\ pending => Old
  /\ at \in {"detaching", "settle"} => ~On
  /\ at \in {"off", "cfun0"} /\ site = "connect" /\ Old => ~On

(* Between two detaches the modem attaches.                                *)
Alternate ==
  /\ \A i \in 1..(Len(notes) - 1) :
       ~(notes[i] = "DETACH" /\ notes[i + 1] = "DETACH")
  /\ Attached => Newest # "DETACH"

PathInv == SiteInv /\ CommandInv /\ Alternate

-----------------------------------------------------------------------------
(* The takedowns to come.                                                  *)

(* The attachments told that are over: by the queue, by the flag as well.  *)
Spare(told) == IF told > One(Attached) THEN told - One(Attached) ELSE 0

QueueSpare == Spare(Acts)
AllSpare   == Spare(Acts + One(act))

(* A modem that is up in a way the main thread has not been told.          *)
Unsaid == (On /\ Old) \/ (~On /\ Attached)

FirstDetach == First = "DETACH"
FirstAct    == First = "ACT"

(* The debt by place.  A link that is up owes one for each attachment told *)
(* that is over; a link on its way up or down also for an old answer and   *)
(* for a DETACH that is heard too late or too early.                       *)
BesideDebt == AllSpare + One(Unsaid)

AskDebt ==
  QueueSpare + 1 + One(FirstDetach /\ (Attached \/ On))
  + One(~On /\ Attached /\ (~Old \/ FirstAct))

OffDebt ==
  QueueSpare + 1 + One(FirstDetach /\ (Attached \/ On)) + One(~On /\ Attached)
  + One(at = "cfun0" /\ detach /\ (Attached \/ On))

DetachDebt ==
  IF Attached
  THEN QueueSpare + IF ~(detach \/ FirstDetach \/ Old) THEN 0
                    ELSE IF One(detach) + One(FirstDetach) + One(Old) = 1 THEN 1
                    ELSE 2
  ELSE QueueSpare + One(Old \/ (detach /\ FirstDetach))
       - One(~detach /\ ~FirstDetach /\ Newest = "DETACH")

SettleDebt == QueueSpare + One(Attached) + One(Old \/ FirstDetach)

ConfigDebt ==
  IF On THEN QueueSpare + 1
        ELSE QueueSpare + One(Attached)
             + One(FirstDetach \/ (Old /\ (FirstAct \/ ~Attached)))

SwitchDebt ==
  IF ~subscribed THEN AllSpare + 1
  ELSE AllSpare + One(Attached)
       + One((FirstDetach /\ ~act) \/ (Old /\ (~Attached \/ act \/ FirstAct)))

AttachDebt ==
  IF act \/ FirstAct THEN BesideDebt
  ELSE IF Attached THEN AllSpare + 1 + One(~On)
  ELSE AllSpare + One(Old \/ ~subscribed \/ FirstDetach \/ ~On)

(* The run ends in a reboot; it has just begun; the link is up, or was.    *)
Over   == site = "exit" \/ at \in {"reset", "reboot"}
Fresh  == at = "start" \/ (site = "start" /\ at \in {"ask", "answer"})
Asking == at \in {"ask", "answer", "retry"}
Linked == at \in Beside \/ (at = "retry" /\ act)
          \/ (at \in {"ask", "answer"} /\ site = "loop")

Debt ==
  IF Over THEN 0
  ELSE IF Fresh THEN 1
  ELSE IF Linked THEN BesideDebt
  ELSE IF Asking THEN AskDebt
  ELSE IF at \in {"off", "cfun0"} THEN OffDebt
  ELSE IF at = "detaching" THEN DetachDebt
  ELSE IF at = "settle" THEN SettleDebt
  ELSE IF at = "config" THEN ConfigDebt
  ELSE IF at = "cfun1" /\ ~On THEN SwitchDebt
  ELSE AttachDebt

-----------------------------------------------------------------------------
(* The queue.                                                              *)

LEMMA TellsActFinite ==
  ASSUME NEW queue \in Seq(Notes)
  PROVE  /\ IsFiniteSet(TellsAct(queue))
         /\ Cardinality(TellsAct(queue)) \in Nat
<1>1. IsFiniteSet(1..Len(queue))
  BY FS_Interval
<1>2. TellsAct(queue) \subseteq 1..Len(queue)
  BY DEF TellsAct
<1>3. QED
  BY <1>1, <1>2, FS_Subset, FS_CardinalityType

LEMMA AppendCounts ==
  ASSUME NEW queue \in Seq(Notes), NEW note \in Notes
  PROVE  Cardinality(TellsAct(Append(queue, note)))
         = Cardinality(TellsAct(queue)) + One(note = "ACT")
<1> DEFINE last == Len(queue) + 1
<1>1. /\ DOMAIN Append(queue, note) = DOMAIN queue \cup {last}
      /\ last \notin DOMAIN queue
      /\ Append(queue, note)[last] = note
      /\ \A i \in DOMAIN queue : Append(queue, note)[i] = queue[i]
  OBVIOUS
<1>2. TellsAct(Append(queue, note))
      = TellsAct(queue) \cup IF note = "ACT" THEN {last} ELSE {}
  BY <1>1, Zenon DEF TellsAct
<1>3. last \notin TellsAct(queue)
  BY <1>1 DEF TellsAct
<1>4. IsFiniteSet(TellsAct(queue)) /\ Cardinality(TellsAct(queue)) \in Nat
  BY TellsActFinite
<1>5. Cardinality(TellsAct(queue) \cup {last}) = Cardinality(TellsAct(queue)) + 1
  BY <1>3, <1>4, FS_AddElement, Zenon
<1>6. TellsAct(queue) \cup {} = TellsAct(queue)
  OBVIOUS
<1>7. CASE note = "ACT"
  BY <1>2, <1>5, <1>7 DEF One
<1>8. CASE note # "ACT"
  BY <1>2, <1>4, <1>6, <1>8 DEF One
<1>9. QED
  BY <1>7, <1>8

LEMMA TailCounts ==
  ASSUME NEW queue \in Seq(Notes), queue # << >>
  PROVE  Cardinality(TellsAct(queue))
         = Cardinality(TellsAct(Tail(queue))) + One(Head(queue) = "ACT")
<1> DEFINE rest   == Tail(queue)
           before == [i \in TellsAct(rest) |-> i + 1]
<1>1. /\ rest \in Seq(Notes) /\ Len(queue) \in Nat \ {0}
      /\ DOMAIN queue = 1..Len(queue) /\ DOMAIN rest = 1..(Len(queue) - 1)
      /\ \A i \in DOMAIN rest : rest[i] = queue[i + 1]
      /\ Head(queue) = queue[1]
  OBVIOUS
<1>2. before \in Bijection(TellsAct(rest), TellsAct(queue) \ {1})
  <2>1. \A i \in TellsAct(rest) : i \in Nat /\ i + 1 \in TellsAct(queue) \ {1}
    BY <1>1 DEF TellsAct
  <2>2. before \in [TellsAct(rest) -> TellsAct(queue) \ {1}]
    BY <2>1
  <2>3. \A i, j \in TellsAct(rest) : before[i] = before[j] => i = j
    BY <2>1
  <2>4. ASSUME NEW j \in TellsAct(queue) \ {1}
        PROVE  \E i \in TellsAct(rest) : before[i] = j
    <3>1. j - 1 \in TellsAct(rest) /\ (j - 1) + 1 = j
      BY <1>1 DEF TellsAct
    <3>2. QED
      BY <3>1
  <2>5. QED
    BY <2>2, <2>3, <2>4 DEF Bijection, Injection, Surjection, IsInjective
<1>3. ExistsBijection(TellsAct(rest), TellsAct(queue) \ {1})
  BY <1>2, Zenon DEF ExistsBijection
<1>4. /\ IsFiniteSet(TellsAct(rest)) /\ Cardinality(TellsAct(rest)) \in Nat
      /\ IsFiniteSet(TellsAct(queue)) /\ Cardinality(TellsAct(queue)) \in Nat
  BY <1>1, TellsActFinite, Zenon
<1>5. Cardinality(TellsAct(queue) \ {1}) = Cardinality(TellsAct(rest))
  BY <1>3, <1>4, FS_Bijection
<1>6. Cardinality(TellsAct(queue) \ {1})
      = IF 1 \in TellsAct(queue) THEN Cardinality(TellsAct(queue)) - 1
                                 ELSE Cardinality(TellsAct(queue))
  BY <1>4, FS_RemoveElement, Zenon
<1>7. 1 \in TellsAct(queue) <=> Head(queue) = "ACT"
  BY <1>1 DEF TellsAct
<1>8. QED
  BY <1>4, <1>5, <1>6, <1>7 DEF One

Ends == {"none", "ACT", "DETACH"}

LEMMA QueueFacts ==
  ASSUME NotesOK
  PROVE  /\ Acts \in Nat /\ First \in Ends /\ Newest \in Ends
         /\ First = "none" <=> notes = << >>
         /\ Newest = "none" <=> notes = << >>
         /\ notes = << >> => Acts = 0
         /\ First = "ACT" \/ Newest = "ACT" => Acts > 0
         /\ "ACT" \in ToCome(notes) <=> Acts > 0
         /\ First = "DETACH" \/ Newest = "DETACH" => "DETACH" \in ToCome(notes)
<1>1. notes \in Seq(Notes) /\ DOMAIN notes = 1..Len(notes) /\ Len(notes) \in Nat
  BY DEF NotesOK, Notes
<1>2. Acts \in Nat /\ IsFiniteSet(TellsAct(notes))
  BY <1>1, TellsActFinite DEF Acts
<1>3. notes # << >> => 1 \in DOMAIN notes /\ Len(notes) \in DOMAIN notes
  BY <1>1
<1>4. notes # << >> => First \in Notes /\ Newest \in Notes
  BY <1>1, <1>3 DEF First, Newest
<1>5. First \in Ends /\ Newest \in Ends
      /\ (First = "none" <=> notes = << >>) /\ (Newest = "none" <=> notes = << >>)
  BY <1>4 DEF First, Newest, Ends, Notes
<1>6. Acts = 0 <=> TellsAct(notes) = {}
  BY <1>2, FS_EmptySet DEF Acts
<1>7. TellsAct(notes) = {} <=> "ACT" \notin ToCome(notes)
  BY Zenon DEF TellsAct, ToCome
<1>8. \A note : First = note \/ Newest = note => note = "none" \/ note \in ToCome(notes)
  BY <1>3 DEF First, Newest, ToCome
<1>9. notes = << >> => ToCome(notes) = {}
  BY ToComeEmpty
<1>10. Acts > 0 <=> "ACT" \in ToCome(notes)
  BY <1>2, <1>6, <1>7
<1>11. QED
  BY <1>2, <1>5, <1>8, <1>9, <1>10

LEMMA NotesSame ==
  ASSUME notes' = notes
  PROVE  Acts' = Acts /\ First' = First /\ Newest' = Newest
BY DEF Acts, First, Newest

LEMMA NotesAppend ==
  ASSUME NotesOK, NEW note \in Notes, notes' = Append(notes, note)
  PROVE  /\ Acts' = Acts + One(note = "ACT")
         /\ First' = IF First = "none" THEN note ELSE First
         /\ Newest' = note
<1>1. notes \in Seq(Notes)
  BY DEF NotesOK, Notes
<1>2. Acts' = Acts + One(note = "ACT")
  BY <1>1, AppendCounts DEF Acts
<1>3. notes # << >> => First \in Notes
  BY <1>1 DEF First
<1>4. QED
  BY <1>1, <1>2, <1>3 DEF First, Newest, Notes

LEMMA NotesTail ==
  ASSUME NotesOK, Alternate, notes # << >>, notes' = Tail(notes)
  PROVE  /\ Acts = Acts' + One(First = "ACT")
         /\ Head(notes) = First
         /\ Newest' \in {"none", Newest}
         /\ First = "DETACH" => First' # "DETACH"
<1>1. notes \in Seq(Notes)
  BY DEF NotesOK, Notes
<1>2. /\ Len(notes) \in Nat \ {0} /\ Len(notes') = Len(notes) - 1
      /\ \A i \in 1..Len(notes') : notes'[i] = notes[i + 1]
      /\ Head(notes) = notes[1]
      /\ Len(notes') = 0 => notes' = << >>
  BY <1>1
<1>3. Acts = Acts' + One(First = "ACT")
  BY <1>1, <1>2, TailCounts DEF Acts, First
<1>4. Newest' \in {"none", Newest}
  BY <1>1, <1>2 DEF Newest
<1>5. ASSUME First = "DETACH", notes' # << >> PROVE First' # "DETACH"
  <2>1. notes[1] = "DETACH" /\ 1 \in 1..(Len(notes) - 1) /\ notes'[1] = notes[2]
    BY <1>1, <1>2, <1>5 DEF First
  <2>2. QED
    BY <1>5, <2>1 DEF Alternate, First
<1>6. QED
  BY <1>2, <1>3, <1>4, <1>5 DEF First

-----------------------------------------------------------------------------
(* Steps of the main thread.                                               *)

Types ==
  /\ at \in Places /\ site \in Sites
  /\ act \in BOOLEAN /\ detach \in BOOLEAN
  /\ at_status1 \in {0, 1} /\ cfun \in {0, 1}
  /\ pending \in BOOLEAN /\ subscribed \in BOOLEAN
  /\ {trouble, takedowns, Acts} \subseteq Nat
  /\ First \in Ends /\ Newest \in Ends
  /\ First = "none" <=> Newest = "none"
  /\ First = "none" => Acts = 0
  /\ First = "ACT" \/ Newest = "ACT" => Acts > 0
  /\ notes = << >> <=> First = "none"

LEMMA TypesHold == TypeOK => Types
BY QueueFacts DEF TypeOK, CountsOK, Types

(* A step lets the takedowns, those to come included, grow by no more than *)
(* it adds to trouble.                                                     *)
Pays == takedowns' + Debt' - trouble' <= takedowns + Debt - trouble

LEMMA MainQueue ==
  ASSUME MainNext, ~Reboot
  PROVE  /\ notes' = notes /\ Attached' = Attached
         /\ Acts' = Acts /\ First' = First /\ Newest' = Newest
BY MainFrameHolds, NotesSame DEF MainFrame, Attached

(* The next lemmas are about all of it.                                    *)
USE DEF Types, Places, Sites, Ends, Disconnecting, Connecting, Beside,
        PathInv, SiteInv, CommandInv, Pays, Debt, Over, Fresh, Linked, Asking,
        BesideDebt, AskDebt, OffDebt, DetachDebt, SettleDebt, ConfigDebt,
        SwitchDebt, AttachDebt, Spare, QueueSpare, AllSpare, One, Unsaid,
        FirstDetach, FirstAct

LEMMA MainPays ==
  ASSUME TypeOK, Types', PathInv, PathInv', MainNext, ~Reboot
  PROVE  Pays
<1>1. Types
  BY TypesHold
<1>2. /\ notes' = notes /\ Attached' = Attached
      /\ Acts' = Acts /\ First' = First /\ Newest' = Newest
  BY MainQueue
<1> USE <1>1, <1>2
        DEF On, Old, Go, Trouble, OnlyAsks, OnlyMoves, flags, modem, statics,
            locals, history
<1>3. CASE Start
  BY <1>3 DEF Start
<1>4. CASE Ask
  BY <1>4, SMTT(30) DEF Ask
<1>5. CASE AskFails
  BY <1>5, SMTT(30) DEF AskFails, NoAnswer
<1>6. CASE AnswerTimesOut
  BY <1>6, SMTT(30) DEF AnswerTimesOut, NoAnswer
<1>7. CASE ReadAtStart
  BY <1>7 DEF ReadAtStart, Read
<1>8. CASE ReadInLoop
  <2>1. CASE Old
    <3>1. CASE Attached
      <4>1. First # "none" => Acts > 0
        BY <3>1 DEF Alternate
      <4>2. CASE First = "none"
        BY <1>8, <2>1, <3>1, <4>2 DEF ReadInLoop, Read
      <4>3. CASE First # "none"
        BY <1>8, <2>1, <3>1, <4>1, <4>3 DEF ReadInLoop, Read
      <4>4. QED
        BY <4>2, <4>3
    <3>2. CASE ~Attached
      BY <1>8, <2>1, <3>2 DEF ReadInLoop, Read
    <3>3. QED
      BY <3>1, <3>2
  <2>2. CASE ~Old
    BY <1>8, <2>2 DEF ReadInLoop, Read
  <2>3. QED
    BY <2>1, <2>2
<1>9. CASE ReadInConnect
  BY <1>9 DEF ReadInConnect, Read
<1>10. CASE ReadAtExit
  BY <1>10 DEF ReadAtExit, Read
<1>11. CASE Retry
  BY <1>11 DEF Retry
<1>12. CASE Active
  BY <1>12 DEF Active
<1>13. CASE Configure
  <2>1. CASE trouble' = trouble
    BY <1>13, <2>1, SMTT(30) DEF Configure
  <2>2. CASE trouble' # trouble
    BY <1>13, <2>2, SMTT(30) DEF Configure
  <2>3. QED
    BY <2>1, <2>2
<1>14. CASE Activate
  BY <1>14, SMTT(30) DEF Activate
<1>15. CASE ActivateFails
  BY <1>15, SMTT(30) DEF ActivateFails
<1>16. CASE Activated
  BY <1>16 DEF Activated
<1>17. CASE ActivateTimesOut
  <2>1. "ACT" \in ToCome(notes) <=> Acts > 0
    BY QueueFacts DEF TypeOK
  <2>2. CASE Attached
    <3>1. CASE First = "none"
      BY <1>17, <2>1, <2>2, <3>1 DEF ActivateTimesOut
    <3>2. CASE First = "ACT"
      BY <1>17, <2>1, <2>2, <3>2 DEF ActivateTimesOut
    <3>3. CASE First = "DETACH"
      <4>1. Acts > 0 /\ trouble' = trouble + 1
        BY <1>17, <2>1, <2>2, <3>3 DEF ActivateTimesOut, Alternate
      <4>2. QED
        BY <1>17, <4>1, <2>2, <3>3 DEF ActivateTimesOut
    <3>4. QED
      BY <3>1, <3>2, <3>3
  <2>3. CASE ~Attached /\ On
    BY <1>17, <2>1, <2>3 DEF ActivateTimesOut
  <2>4. CASE ~Attached /\ ~On
    BY <1>17, <2>1, <2>4 DEF ActivateTimesOut
  <2>5. QED
    BY <2>2, <2>3, <2>4
<1>18. CASE Subscribe
  BY <1>18 DEF Subscribe
<1>19. CASE Deactivate
  <2>1. CASE Attached
    <3>1. CASE Old
      BY <1>19, <2>1, <3>1, SMTT(30) DEF Deactivate
    <3>2. CASE ~Old
      <4>1. CASE detach
        BY <1>19, <2>1, <3>2, <4>1, SMTT(30) DEF Deactivate
      <4>2. CASE ~detach
        BY <1>19, <2>1, <3>2, <4>2, SMTT(30) DEF Deactivate
      <4>3. QED
        BY <4>1, <4>2
    <3>3. QED
      BY <3>1, <3>2
  <2>2. CASE ~Attached
    BY <1>19, <2>2, SMTT(30) DEF Deactivate
  <2>3. QED
    BY <2>1, <2>2
<1>20. CASE DeactivateFails
  BY <1>20, SMTT(30) DEF DeactivateFails, Return
<1>21. CASE Detached
  BY <1>21 DEF Detached
<1>22. CASE DetachTimesOut
  <2>1. First = "DETACH" \/ Newest = "DETACH" => "DETACH" \in ToCome(notes)
    BY QueueFacts DEF TypeOK
  <2>2. CASE Attached
    BY <1>22, <2>1, <2>2, SMTT(30) DEF DetachTimesOut, Return
  <2>3. CASE ~Attached
    BY <1>22, <2>1, <2>3, SMTT(30) DEF DetachTimesOut, Return
  <2>4. QED
    BY <2>2, <2>3
<1>23. CASE Settle
  BY <1>23 DEF Settle, Return
<1>24. CASE PrepareFails
  BY <1>24, SMTT(30) DEF PrepareFails
<1>25. CASE NoAddress
  <2>1. CASE trouble' = trouble
    BY <1>25, <2>1 DEF NoAddress
  <2>2. CASE trouble' # trouble
    BY <1>25, <2>2 DEF NoAddress
  <2>3. QED
    BY <2>1, <2>2
<1>26. CASE StoreAddress
  BY <1>26 DEF StoreAddress
<1>27. CASE Serve
  BY <1>27 DEF Serve, vars
<1>28. CASE StopServing
  BY <1>28 DEF StopServing
<1>29. CASE SwitchOff
  <2>1. /\ Over /\ Over' /\ takedowns' = takedowns
        /\ trouble' = trouble \/ trouble' = trouble + 1
    BY <1>29 DEF SwitchOff
  <2>2. QED
    BY <2>1
<1>30. QED
  BY <1>3, <1>4, <1>5, <1>6, <1>7, <1>8, <1>9, <1>10, <1>11, <1>12, <1>13,
     <1>14, <1>15, <1>16, <1>17, <1>18, <1>19, <1>20, <1>21, <1>22, <1>23,
     <1>24, <1>25, <1>26, <1>27, <1>28, <1>29 DEF MainNext

-----------------------------------------------------------------------------
(* Steps of the modem.                                                     *)

FlagsStay  == (act' <=> act) /\ (detach' <=> detach)
QueueStays == Acts' = Acts /\ First' = First /\ Newest' = Newest
Stays ==
  /\ at' = at /\ site' = site /\ takedowns' = takedowns
  /\ subscribed' <=> subscribed

(* What Tell does to the queue.                                            *)
Tells(note) ==
  IF subscribed
  THEN /\ Acts' = Acts + One(note = "ACT")
       /\ First' = IF First = "none" THEN note ELSE First
       /\ Newest' = note
  ELSE QueueStays

LEMMA TellEffect ==
  ASSUME NotesOK, NEW note \in Notes, Tell(note)
  PROVE  Tells(note)
<1>1. CASE subscribed
  BY <1>1, NotesAppend DEF Tell, Tells
<1>2. CASE ~subscribed
  BY <1>2, NotesSame DEF Tell, Tells, QueueStays
<1>3. QED
  BY <1>1, <1>2

AnswerEffect ==
  /\ Stays /\ QueueStays /\ FlagsStay
  /\ pending /\ trouble' = trouble
  /\ On' <=> On
  /\ Old' <=> ~On
  /\ Attached' <=> Attached

HandlerEffect ==
  /\ Stays
  /\ trouble' = trouble
  /\ First # "none"
  /\ Acts = Acts' + One(First = "ACT")
  /\ Newest' \in {"none", Newest}
  /\ First = "DETACH" => First' # "DETACH"
  /\ act' <=> act \/ First = "ACT"
  /\ detach' <=> detach \/ First = "DETACH"
  /\ On' <=> On
  /\ Old' <=> Old
  /\ Attached' <=> Attached

(* The modem comes up, or goes down, and tells.                            *)
TellingEffect(note) ==
  /\ Stays /\ FlagsStay
  /\ Tells(note)
  /\ On' <=> On
  /\ Old' <=> Old
  /\ Attached <=> note = "DETACH"
  /\ Attached' <=> note = "ACT"

AttachEffect == TellingEffect("ACT") /\ On /\ trouble' = trouble
DetachEffect == TellingEffect("DETACH") /\ ~On /\ trouble' = trouble
SelfDetachEffect == TellingEffect("DETACH") /\ On /\ trouble' = trouble + 1

(* It goes down, or is no longer on, and does not tell.                    *)
SilentEffect ==
  /\ Stays /\ FlagsStay /\ QueueStays
  /\ trouble' = trouble + 1
  /\ On /\ Attached
  /\ Old' <=> Old
  /\ On' <=> ~Attached'

LEMMA ModemEffects ==
  ASSUME TypeOK, Alternate, Types
  PROVE  /\ AnswerArrives => AnswerEffect
         /\ notification_handler => HandlerEffect
         /\ Attach => AttachEffect
         /\ Detach => DetachEffect
         /\ SelfDetach => SelfDetachEffect
         /\ Drop \/ FlightMode => SilentEffect
<1> USE DEF Stays, FlagsStay, On, Old, Attached, Program, flags, statics, modem,
            locals, history, Stray, Trouble
<1>1. NotesOK /\ {"ACT", "DETACH"} \subseteq Notes /\ NoAddr \notin Addrs
  BY ModemAssumption DEF TypeOK, Notes
<1>2. notes' = notes => QueueStays
  BY NotesSame DEF QueueStays
<1>3. ASSUME AnswerArrives PROVE AnswerEffect
  BY <1>2, <1>3 DEF AnswerArrives, AnswerEffect, Types
<1>4. ASSUME notification_handler PROVE HandlerEffect
  BY <1>1, <1>4, NotesTail, Zenon DEF notification_handler, HandlerEffect, Types
<1>5. ASSUME Attach PROVE AttachEffect
  BY <1>1, <1>5, TellEffect DEF Attach, AttachEffect, TellingEffect
<1>6. ASSUME Detach PROVE DetachEffect
  BY <1>1, <1>6, TellEffect DEF Detach, DetachEffect, TellingEffect
<1>7. ASSUME SelfDetach PROVE SelfDetachEffect
  BY <1>1, <1>7, TellEffect DEF SelfDetach, SelfDetachEffect, TellingEffect
<1>8. ASSUME Drop \/ FlightMode PROVE SilentEffect
  BY <1>1, <1>2, <1>8 DEF Drop, FlightMode, SilentEffect
<1>9. QED
  BY <1>3, <1>4, <1>5, <1>6, <1>7, <1>8

LEMMA AnswerPays ==
  ASSUME Types, Types', PathInv, PathInv', AnswerEffect
  PROVE  Pays
<1> USE DEF AnswerEffect, Stays, FlagsStay, QueueStays
<1>1. CASE Over
  BY <1>1
<1>2. CASE Fresh /\ ~Over
  BY <1>2
<1>3. CASE Linked /\ ~Fresh /\ ~Over
  BY <1>3
<1>4. CASE Asking /\ ~Linked /\ ~Fresh /\ ~Over
  BY <1>4
<1>5. CASE at \in {"off", "cfun0"} /\ ~Over
  BY <1>5
<1>6. CASE at = "detaching" /\ ~Over
  BY <1>6
<1>7. CASE at = "settle" /\ ~Over
  BY <1>7
<1>8. CASE at = "config"
  BY <1>8
<1>9. CASE at = "cfun1"
  BY <1>9
<1>10. CASE at = "attaching"
  BY <1>10, SMTT(30)
<1>11. QED
  BY <1>1, <1>2, <1>3, <1>4, <1>5, <1>6, <1>7, <1>8, <1>9, <1>10

LEMMA HandlerPays ==
  ASSUME Types, Types', PathInv, PathInv', HandlerEffect
  PROVE  Pays
<1> USE DEF HandlerEffect, Stays, FlagsStay
<1>1. CASE Over
  BY <1>1
<1>2. CASE Fresh /\ ~Over
  BY <1>2
<1>3. CASE Linked /\ ~Fresh /\ ~Over
  <2>1. CASE First = "ACT" /\ Acts' = 0
    <3>1. Attached => First' = "none"
      BY <2>1 DEF Alternate
    <3>2. QED
      BY <1>3, <2>1, <3>1
  <2>2. CASE First = "ACT" /\ Acts' > 0 /\ Attached
    BY <1>3, <2>2
  <2>3. CASE First = "ACT" /\ Acts' > 0 /\ ~Attached
    BY <1>3, <2>3
  <2>4. CASE First = "DETACH"
    BY <1>3, <2>4
  <2>5. QED
    BY <2>1, <2>2, <2>3, <2>4
<1>4. CASE Asking /\ ~Linked /\ ~Fresh /\ ~Over
  <2>1. CASE First = "ACT" /\ Acts' = 0
    <3>1. Attached => First' = "none"
      BY <2>1 DEF Alternate
    <3>2. QED
      BY <1>4, <2>1, <3>1
  <2>2. CASE First = "ACT" /\ Acts' > 0 /\ Attached
    BY <1>4, <2>2
  <2>3. CASE First = "ACT" /\ Acts' > 0 /\ ~Attached
    BY <1>4, <2>3
  <2>4. CASE First = "DETACH"
    BY <1>4, <2>4
  <2>5. QED
    BY <2>1, <2>2, <2>3, <2>4
<1>5. CASE at \in {"off", "cfun0"} /\ ~Over
  <2>1. CASE First = "ACT" /\ Acts' = 0
    <3>1. Attached => First' = "none"
      BY <2>1 DEF Alternate
    <3>2. QED
      BY <1>5, <2>1, <3>1
  <2>2. CASE First = "ACT" /\ Acts' > 0 /\ Attached
    BY <1>5, <2>2, SMTT(30)
  <2>3. CASE First = "ACT" /\ Acts' > 0 /\ ~Attached
    BY <1>5, <2>3
  <2>4. CASE First = "DETACH"
    BY <1>5, <2>4, SMTT(30)
  <2>5. QED
    BY <2>1, <2>2, <2>3, <2>4
<1>6. CASE at = "detaching" /\ ~Over
  <2>1. CASE First = "ACT" /\ Acts' = 0
    <3>1. Attached => First' = "none"
      BY <2>1 DEF Alternate
    <3>2. QED
      BY <1>6, <2>1, <3>1
  <2>2. CASE First = "ACT" /\ Acts' > 0 /\ Attached
    BY <1>6, <2>2, SMTT(30)
  <2>3. CASE First = "ACT" /\ Acts' > 0 /\ ~Attached
    <3>1. CASE detach
      BY <1>6, <2>3, <3>1
    <3>2. CASE ~detach
      BY <1>6, <2>3, <3>2, SMTT(30)
    <3>3. QED
      BY <3>1, <3>2
  <2>4. CASE First = "DETACH"
    BY <1>6, <2>4, SMTT(30)
  <2>5. QED
    BY <2>1, <2>2, <2>3, <2>4
<1>7. CASE at = "settle" /\ ~Over
  <2>1. CASE First = "ACT" /\ Acts' = 0
    <3>1. Attached => First' = "none"
      BY <2>1 DEF Alternate
    <3>2. QED
      BY <1>7, <2>1, <3>1
  <2>2. CASE First = "ACT" /\ Acts' > 0 /\ Attached
    BY <1>7, <2>2
  <2>3. CASE First = "ACT" /\ Acts' > 0 /\ ~Attached
    BY <1>7, <2>3
  <2>4. CASE First = "DETACH"
    BY <1>7, <2>4
  <2>5. QED
    BY <2>1, <2>2, <2>3, <2>4
<1>8. CASE at = "config"
  <2>1. CASE First = "ACT" /\ Acts' = 0
    <3>1. Attached => First' = "none"
      BY <2>1 DEF Alternate
    <3>2. QED
      BY <1>8, <2>1, <3>1
  <2>2. CASE First = "ACT" /\ Acts' > 0 /\ Attached
    BY <1>8, <2>2, SMTT(30)
  <2>3. CASE First = "ACT" /\ Acts' > 0 /\ ~Attached
    BY <1>8, <2>3
  <2>4. CASE First = "DETACH"
    BY <1>8, <2>4
  <2>5. QED
    BY <2>1, <2>2, <2>3, <2>4
<1>9. CASE at = "cfun1"
  <2>1. CASE subscribed /\ First = "none"
    BY <1>9, <2>1
  <2>2. CASE subscribed /\ First # "none"
    <3>1. CASE act
      BY <1>9, <2>2, <3>1, SMTT(30)
    <3>2. CASE ~act
      BY <1>9, <2>2, <3>2
    <3>3. QED
      BY <3>1, <3>2
  <2>3. CASE ~subscribed
    BY <1>9, <2>3
  <2>4. QED
    BY <2>1, <2>2, <2>3
<1>10. CASE at = "attaching"
  <2>1. CASE First = "ACT" /\ Acts' = 0
    <3>1. Attached => First' = "none"
      BY <2>1 DEF Alternate
    <3>2. QED
      BY <1>10, <2>1, <3>1
  <2>2. CASE First = "ACT" /\ Acts' > 0 /\ Attached
    BY <1>10, <2>2
  <2>3. CASE First = "ACT" /\ Acts' > 0 /\ ~Attached
    BY <1>10, <2>3
  <2>4. CASE First = "DETACH"
    BY <1>10, <2>4
  <2>5. QED
    BY <2>1, <2>2, <2>3, <2>4
<1>11. QED
  BY <1>1, <1>2, <1>3, <1>4, <1>5, <1>6, <1>7, <1>8, <1>9, <1>10

LEMMA AttachPays ==
  ASSUME Types, Types', PathInv, PathInv', AttachEffect
  PROVE  Pays
<1> USE DEF AttachEffect, TellingEffect, Stays, FlagsStay, Tells, QueueStays
<1>1. CASE Over
  BY <1>1
<1>2. CASE Fresh /\ ~Over
  BY <1>2
<1>3. CASE Linked /\ ~Fresh /\ ~Over
  BY <1>3
<1>4. CASE Asking /\ ~Linked /\ ~Fresh /\ ~Over
  BY <1>4
<1>5. CASE at \in {"off", "cfun0"} /\ ~Over
  BY <1>5
<1>6. CASE at = "detaching" /\ ~Over
  BY <1>6
<1>7. CASE at = "settle" /\ ~Over
  BY <1>7
<1>8. CASE at = "config"
  BY <1>8
<1>9. CASE at = "cfun1"
  BY <1>9
<1>10. CASE at = "attaching"
  BY <1>10
<1>11. QED
  BY <1>1, <1>2, <1>3, <1>4, <1>5, <1>6, <1>7, <1>8, <1>9, <1>10

LEMMA DetachPays ==
  ASSUME Types, Types', PathInv, PathInv', DetachEffect
  PROVE  Pays
<1> USE DEF DetachEffect, TellingEffect, Stays, FlagsStay, Tells, QueueStays
<1>1. CASE Over
  BY <1>1
<1>2. CASE Fresh /\ ~Over
  BY <1>2
<1>3. CASE Linked /\ ~Fresh /\ ~Over
  BY <1>3
<1>4. CASE Asking /\ ~Linked /\ ~Fresh /\ ~Over
  BY <1>4
<1>5. CASE at \in {"off", "cfun0"} /\ ~Over
  BY <1>5
<1>6. CASE at = "detaching" /\ ~Over
  BY <1>6, SMTT(30)
<1>7. CASE at = "settle" /\ ~Over
  BY <1>7
<1>8. CASE at = "config"
  BY <1>8
<1>9. CASE at = "cfun1"
  BY <1>9
<1>10. CASE at = "attaching"
  BY <1>10
<1>11. QED
  BY <1>1, <1>2, <1>3, <1>4, <1>5, <1>6, <1>7, <1>8, <1>9, <1>10

LEMMA SelfDetachPays ==
  ASSUME Types, Types', PathInv, PathInv', SelfDetachEffect
  PROVE  Pays
<1> USE DEF SelfDetachEffect, TellingEffect, Stays, FlagsStay, Tells, QueueStays
<1>1. CASE Over
  BY <1>1
<1>2. CASE Fresh /\ ~Over
  BY <1>2
<1>3. CASE Linked /\ ~Fresh /\ ~Over
  BY <1>3
<1>4. CASE Asking /\ ~Linked /\ ~Fresh /\ ~Over
  BY <1>4, SMTT(30)
<1>5. CASE at \in {"off", "cfun0"} /\ ~Over
  BY <1>5, SMTT(30)
<1>6. CASE at = "detaching" /\ ~Over
  BY <1>6
<1>7. CASE at = "settle" /\ ~Over
  BY <1>7
<1>8. CASE at = "config"
  BY <1>8
<1>9. CASE at = "cfun1"
  BY <1>9, SMTT(30)
<1>10. CASE at = "attaching"
  BY <1>10, SMTT(30)
<1>11. QED
  BY <1>1, <1>2, <1>3, <1>4, <1>5, <1>6, <1>7, <1>8, <1>9, <1>10

LEMMA SilentPays ==
  ASSUME Types, Types', PathInv, PathInv', SilentEffect
  PROVE  Pays
<1> USE DEF SilentEffect, Stays, FlagsStay, QueueStays
<1>1. CASE Over
  BY <1>1
<1>2. CASE Fresh /\ ~Over
  BY <1>2
<1>3. CASE Linked /\ ~Fresh /\ ~Over
  BY <1>3
<1>4. CASE Asking /\ ~Linked /\ ~Fresh /\ ~Over
  BY <1>4, SMTT(30)
<1>5. CASE at \in {"off", "cfun0"} /\ ~Over
  <2>1. CASE Attached
    BY <1>5, <2>1, SMTT(30)
  <2>2. CASE ~Attached
    BY <1>5, <2>2
  <2>3. QED
    BY <2>1, <2>2
<1>6. CASE at = "detaching" /\ ~Over
  BY <1>6
<1>7. CASE at = "settle" /\ ~Over
  BY <1>7
<1>8. CASE at = "config"
  BY <1>8
<1>9. CASE at = "cfun1"
  BY <1>9, SMTT(30)
<1>10. CASE at = "attaching"
  <2>1. CASE First = "ACT"
    BY <1>10, <2>1, SMTT(30)
  <2>2. CASE First = "DETACH"
    BY <1>10, <2>2, SMTT(30)
  <2>3. CASE First = "none"
    BY <1>10, <2>3
  <2>4. QED
    BY <2>1, <2>2, <2>3
<1>11. QED
  BY <1>1, <1>2, <1>3, <1>4, <1>5, <1>6, <1>7, <1>8, <1>9, <1>10


HIDE DEF Types, Places, Sites, Ends, Disconnecting, Connecting, Beside,
         PathInv, SiteInv, CommandInv, Pays, Debt, Over, Fresh, Linked, Asking,
         BesideDebt, AskDebt, OffDebt, DetachDebt, SettleDebt, ConfigDebt,
         SwitchDebt, AttachDebt, Spare, QueueSpare, AllSpare, One, Unsaid,
         FirstDetach, FirstAct

-----------------------------------------------------------------------------
(* The invariant.                                                          *)

LEMMA DebtNotNegative ==
  ASSUME Types, PathInv
  PROVE  Debt \in Nat
<1>1. \A b : One(b) \in {0, 1}
  BY DEF One
<1>2. /\ QueueSpare \in Nat /\ AllSpare \in Nat
      /\ ~Attached => QueueSpare = Acts
  BY DEF QueueSpare, AllSpare, Spare, One, Types
<1>3. DetachDebt \in Nat
  <2>1. CASE Attached
    BY <1>2, <2>1 DEF DetachDebt
  <2>2. CASE ~Attached /\ ~FirstDetach /\ Newest = "DETACH"
    <3>1. QueueSpare > 0
      BY <1>2, <2>2 DEF Types, FirstDetach, Ends
    <3>2. QED
      BY <1>1, <1>2, <2>2, <3>1 DEF DetachDebt
  <2>3. CASE ~Attached /\ ~(~FirstDetach /\ Newest = "DETACH")
    <3>1. One(~detach /\ ~FirstDetach /\ Newest = "DETACH") = 0
      BY <2>3 DEF One
    <3>2. QED
      BY <1>1, <1>2, <2>3, <3>1 DEF DetachDebt
  <2>4. QED
    BY <2>1, <2>2, <2>3
<1>4. BesideDebt \in Nat /\ AskDebt \in Nat
  BY <1>1, <1>2 DEF BesideDebt, AskDebt
<1>5. OffDebt \in Nat /\ SettleDebt \in Nat /\ ConfigDebt \in Nat
  BY <1>1, <1>2 DEF OffDebt, SettleDebt, ConfigDebt
<1>6. SwitchDebt \in Nat /\ AttachDebt \in Nat
  BY <1>1, <1>2, <1>4 DEF SwitchDebt, AttachDebt
<1>7. QED
  BY <1>3, <1>4, <1>5, <1>6 DEF Debt

LEMMA PathInit == Init => PathInv
BY DEF Init, PathInv, SiteInv, CommandInv, Alternate, On, Old, Attached, Newest,
       Disconnecting, Connecting, Beside

LEMMA SiteKeptByMain ==
  ASSUME TypeOK, SiteInv, MainNext, ~Reboot
  PROVE  SiteInv'
<1>1. notes' = notes /\ Attached' = Attached
  BY MainQueue
<1> USE <1>1 DEF SiteInv, TypeOK, Sites, On, Old, Disconnecting, Connecting, Beside,
            Go, OnlyAsks, OnlyMoves, flags, modem, statics, locals, Return
<1>2. CASE Start \/ Ask \/ AskFails \/ AnswerTimesOut
  BY <1>2 DEF Start, Ask, AskFails, AnswerTimesOut, NoAnswer
<1>3. CASE ReadAtStart \/ ReadInLoop \/ ReadInConnect \/ ReadAtExit
  BY <1>3 DEF ReadAtStart, ReadInLoop, ReadInConnect, ReadAtExit, Read
<1>4. CASE Retry \/ Active \/ Configure
  BY <1>4 DEF Retry, Active, Configure
<1>5. CASE Activate \/ ActivateFails \/ Activated \/ ActivateTimesOut
  BY <1>5 DEF Activate, ActivateFails, Activated, ActivateTimesOut
<1>6. CASE Subscribe \/ Deactivate \/ DeactivateFails \/ Detached
  BY <1>6 DEF Subscribe, Deactivate, DeactivateFails, Detached
<1>7. CASE DetachTimesOut \/ Settle
  BY <1>7 DEF DetachTimesOut, Settle
<1>8. CASE PrepareFails \/ NoAddress \/ StoreAddress
  BY <1>8 DEF PrepareFails, NoAddress, StoreAddress
<1>9. CASE Serve \/ StopServing \/ SwitchOff
  BY <1>9 DEF Serve, StopServing, SwitchOff, vars
<1>10. QED
  BY <1>2, <1>3, <1>4, <1>5, <1>6, <1>7, <1>8, <1>9 DEF MainNext

LEMMA CommandKeptByMain ==
  ASSUME TypeOK, SiteInv, CommandInv, MainNext, ~Reboot
  PROVE  CommandInv'
<1>1. notes' = notes /\ Attached' = Attached
  BY MainQueue
<1> USE <1>1 DEF SiteInv, CommandInv, TypeOK, On, Old, Disconnecting, Connecting, Beside,
            Go, OnlyAsks, OnlyMoves, flags, modem, statics, locals, Return
<1>2. CASE Start \/ Ask \/ AskFails \/ AnswerTimesOut
  BY <1>2 DEF Start, Ask, AskFails, AnswerTimesOut, NoAnswer
<1>3. CASE ReadAtStart \/ ReadInLoop \/ ReadInConnect \/ ReadAtExit
  BY <1>3 DEF ReadAtStart, ReadInLoop, ReadInConnect, ReadAtExit, Read
<1>4. CASE Retry \/ Active \/ Configure
  <2>1. CASE Retry \/ Active
    BY <2>1 DEF Retry, Active
  <2>2. CASE Configure
    BY <2>2 DEF Configure
  <2>3. QED
    BY <1>4, <2>1, <2>2
<1>5. CASE Activate \/ ActivateFails \/ Activated \/ ActivateTimesOut
  BY <1>5 DEF Activate, ActivateFails, Activated, ActivateTimesOut
<1>6. CASE Subscribe \/ Deactivate \/ DeactivateFails \/ Detached
  BY <1>6 DEF Subscribe, Deactivate, DeactivateFails, Detached
<1>7. CASE DetachTimesOut \/ Settle
  BY <1>7 DEF DetachTimesOut, Settle
<1>8. CASE PrepareFails \/ NoAddress \/ StoreAddress
  BY <1>8 DEF PrepareFails, NoAddress, StoreAddress
<1>9. CASE Serve \/ StopServing \/ SwitchOff
  BY <1>9 DEF Serve, StopServing, SwitchOff, vars
<1>10. QED
  BY <1>2, <1>3, <1>4, <1>5, <1>6, <1>7, <1>8, <1>9 DEF MainNext

LEMMA PathKeptByModem ==
  ASSUME TypeOK, SiteInv, CommandInv, ModemNext \/ StrayNext
  PROVE  SiteInv' /\ CommandInv'
<1> USE DEF SiteInv, CommandInv, TypeOK, On, Old, Attached, Disconnecting, Connecting, Beside,
            Program, Stray, Tell, flags, modem, statics, locals
<1>1. CASE AnswerArrives
  BY <1>1 DEF AnswerArrives
<1>2. CASE notification_handler
  BY <1>2 DEF notification_handler
<1>3. CASE Attach
  BY <1>3 DEF Attach
<1>4. CASE Detach
  BY <1>4 DEF Detach
<1>5. CASE SelfDetach \/ Drop \/ FlightMode
  BY <1>5 DEF SelfDetach, Drop, FlightMode
<1>6. QED
  BY <1>1, <1>2, <1>3, <1>4, <1>5 DEF ModemNext, StrayNext

(* A detach is told after an attachment.                                   *)
LEMMA AlternateAppend ==
  ASSUME NotesOK, Alternate, NEW note \in Notes, notes' = Append(notes, note),
         note = "DETACH" => Newest # "DETACH" /\ ~Attached'
  PROVE  Alternate'
<1>1. /\ Len(notes) \in Nat /\ Len(notes') = Len(notes) + 1
      /\ notes'[Len(notes) + 1] = note
      /\ \A i \in 1..Len(notes) : notes'[i] = notes[i]
  BY DEF NotesOK
<1>2. Newest' = note
  BY NotesAppend
<1>3. ASSUME NEW i \in 1..(Len(notes') - 1),
             notes'[i] = "DETACH", notes'[i + 1] = "DETACH"
      PROVE  FALSE
  <2>1. CASE i = Len(notes)
    <3>1. Newest = "DETACH"
      BY <1>1, <1>3, <2>1 DEF Newest
    <3>2. QED
      BY <1>1, <1>3, <2>1, <3>1
  <2>2. CASE i # Len(notes)
    <3>1. i \in 1..(Len(notes) - 1) /\ notes[i] = "DETACH" /\ notes[i + 1] = "DETACH"
      BY <1>1, <1>3, <2>2
    <3>2. QED
      BY <3>1 DEF Alternate
  <2>3. QED
    BY <2>1, <2>2
<1>4. QED
  BY <1>2, <1>3 DEF Alternate

LEMMA AlternateTail ==
  ASSUME NotesOK, Alternate, notes # << >>, notes' = Tail(notes), Attached' = Attached
  PROVE  Alternate'
<1>1. /\ Len(notes) \in Nat \ {0} /\ Len(notes') = Len(notes) - 1
      /\ \A i \in 1..Len(notes') : notes'[i] = notes[i + 1]
  BY DEF NotesOK
<1>2. Newest' \in {"none", Newest}
  BY NotesTail
<1>3. ASSUME NEW i \in 1..(Len(notes') - 1),
             notes'[i] = "DETACH", notes'[i + 1] = "DETACH"
      PROVE  FALSE
  <2>1. /\ i + 1 \in 1..(Len(notes) - 1)
        /\ notes[i + 1] = "DETACH" /\ notes[(i + 1) + 1] = "DETACH"
    BY <1>1, <1>3
  <2>2. QED
    BY <2>1 DEF Alternate
<1>4. QED
  BY <1>2, <1>3 DEF Alternate

LEMMA AlternateKept ==
  ASSUME TypeOK, CommandInv, Alternate, [Next]_vars, ~Reboot
  PROVE  Alternate'
<1>1. NotesOK /\ {"ACT", "DETACH"} \subseteq Notes /\ NoAddr \notin Addrs
  BY ModemAssumption DEF TypeOK, Notes
<1>2. ASSUME notes' = notes, Attached' => Attached PROVE Alternate'
  BY <1>2, NotesSame DEF Alternate
<1>3. CASE MainNext
  BY <1>2, <1>3, MainQueue
<1>4. CASE OpenSession \/ CloseSession \/ AnswerArrives \/ UNCHANGED vars
  BY <1>2, <1>4
     DEF OpenSession, CloseSession, AnswerArrives, vars, modem, Attached
<1>5. CASE notification_handler
  BY <1>1, <1>5, AlternateTail DEF notification_handler, Attached
<1>6. CASE Attach
  <2>1. CASE subscribed
    BY <1>1, <1>6, <2>1, AlternateAppend DEF Attach, Tell
  <2>2. CASE ~subscribed
    BY <1>6, <2>2 DEF Attach, Tell, CommandInv, Alternate, Newest
  <2>3. QED
    BY <2>1, <2>2
<1>7. CASE Detach \/ SelfDetach
  <2>1. Attached /\ ~Attached' /\ Tell("DETACH")
    BY <1>7 DEF Detach, SelfDetach, Stray, Attached
  <2>2. CASE subscribed
    BY <1>1, <2>1, <2>2, AlternateAppend DEF Tell, Alternate
  <2>3. CASE ~subscribed
    BY <1>2, <2>1, <2>3 DEF Tell
  <2>4. QED
    BY <2>2, <2>3
<1>8. CASE Drop \/ FlightMode
  BY <1>2, <1>8 DEF Drop, FlightMode, Stray, Attached
<1>9. QED
  BY <1>3, <1>4, <1>5, <1>6, <1>7, <1>8 DEF Next, ModemNext, StrayNext

LEMMA PathKept ==
  ASSUME TypeOK, PathInv, [Next]_vars
  PROVE  PathInv'
<1>1. CASE Reboot
  BY <1>1
     DEF Reboot, PathInv, SiteInv, CommandInv, Alternate, Go, On, Old, Attached,
         Newest, Disconnecting, Connecting, Beside
<1>2. CASE ~Reboot
  <2>1. Alternate'
    BY <1>2, AlternateKept DEF PathInv
  <2>2. CASE MainNext
    BY <1>2, <2>1, <2>2, SiteKeptByMain, CommandKeptByMain DEF PathInv
  <2>3. CASE ModemNext \/ StrayNext
    BY <2>1, <2>3, PathKeptByModem DEF PathInv
  <2>4. CASE OpenSession \/ CloseSession \/ UNCHANGED vars
    BY <2>1, <2>4
       DEF OpenSession, CloseSession, vars, PathInv, SiteInv, CommandInv, On, Old,
           Attached, flags, statics, modem, locals
  <2>5. QED
    BY <2>2, <2>3, <2>4 DEF Next
<1>3. QED
  BY <1>1, <1>2

-----------------------------------------------------------------------------
(* The inductive invariant: the takedowns there were and those that may    *)
(* follow without another failure are at most one more than the failures.  *)
DebtInv == PathInv /\ takedowns + Debt <= trouble + 1

LEMMA StepPays ==
  ASSUME TypeOK, Types, Types', PathInv, [Next]_vars, ~Reboot
  PROVE  Pays
<1>1. PathInv'
  BY PathKept
<1>2. CASE MainNext
  BY <1>1, <1>2, MainPays
<1>3. CASE ModemNext \/ StrayNext
  BY <1>1, <1>3, ModemEffects, AnswerPays, HandlerPays, AttachPays, DetachPays,
     SelfDetachPays, SilentPays DEF ModemNext, StrayNext, PathInv
<1>4. CASE OpenSession \/ CloseSession \/ UNCHANGED vars
  <2>1. /\ UNCHANGED <<at, site, act, detach, at_status1, cfun, addr, subscribed>>
        /\ UNCHANGED <<notes, takedowns, trouble>>
    BY <1>4 DEF OpenSession, CloseSession, vars, flags, statics, modem, locals, history
  <2>2. Acts' = Acts /\ First' = First /\ Newest' = Newest
    BY <2>1, NotesSame
  <2>3. Debt' = Debt
    BY <2>1, <2>2
       DEF Debt, Over, Fresh, Asking, Linked, BesideDebt, AskDebt, OffDebt,
           DetachDebt, SettleDebt, ConfigDebt, SwitchDebt, AttachDebt, Spare,
           QueueSpare, AllSpare, One, On, Old, Attached, Unsaid, FirstDetach, FirstAct
  <2>4. {takedowns, trouble, Debt} \subseteq Int
    BY <1>1, DebtNotNegative DEF Types
  <2>5. QED
    BY <2>1, <2>3, <2>4 DEF Pays
<1>5. QED
  BY <1>2, <1>3, <1>4 DEF Next

LEMMA DebtKept ==
  ASSUME TypeOK, Types, Types', Debt' \in Nat, DebtInv, [Next]_vars
  PROVE  DebtInv'
<1>1. PathInv'
  BY PathKept DEF DebtInv
<1>2. {takedowns, takedowns', trouble, trouble', Debt, Debt'} \subseteq Nat
  BY DebtNotNegative DEF DebtInv, Types
<1>3. CASE ~Reboot
  BY <1>1, <1>2, <1>3, StepPays DEF DebtInv, Pays
<1>4. CASE Reboot
  <2>1. takedowns' = 0 /\ Debt' = 1
    BY <1>4 DEF Reboot, Go, Debt, Over, Fresh
  <2>2. QED
    BY <1>1, <1>2, <2>1 DEF DebtInv
<1>5. QED
  BY <1>3, <1>4

(* Wherever the main thread of nrf91_lte.c is in connecting and            *)
(* disconnecting, it is there for the caller and with the modem in the     *)
(* state of SiteInv and CommandInv, and the queue of notifications never   *)
(* tells of two detaches in a row.                                         *)
THEOREM PathHolds == Spec => []PathInv
BY PathInit, PathKept, TypeCorrect, PTL DEF Spec

(* StaleTakedownOnce: whatever fails, and however often,                   *)
(* nrf91_lte_connect switches a modem off that has attached at most once   *)
(* more than there were failures since the last reboot.                    *)
THEOREM TakedownsPaid == Spec => []StaleTakedownOnce
<1>1. Init => DebtInv
  BY PathInit DEF Init, DebtInv, Debt, Over, Fresh
<1>2. TypeOK /\ PathInv => Types /\ Debt \in Nat
  BY TypesHold, DebtNotNegative
<1>3. TypeOK /\ Types /\ (Types /\ Debt \in Nat)' /\ DebtInv /\ [Next]_vars => DebtInv'
  BY DebtKept
<1>4. Types /\ Debt \in Nat /\ DebtInv => StaleTakedownOnce
  <2> SUFFICES ASSUME Types, Debt \in Nat, DebtInv PROVE StaleTakedownOnce
    OBVIOUS
  <2>1. {takedowns, trouble, Debt} \subseteq Nat
    BY DEF Types
  <2>2. QED
    BY <2>1 DEF DebtInv, StaleTakedownOnce
<1>5. QED
  BY <1>1, <1>2, <1>3, <1>4, PathHolds, TypeCorrect, PTL DEF Spec
=============================================================================
