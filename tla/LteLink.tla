------------------------------- MODULE LteLink -------------------------------
(***************************************************************************)
(* nrf91_lte.c: the main thread brings the LTE link up, waits beside it    *)
(* and brings it up again; notification_handler sets the two flags that    *)
(* all threads look at; at_cfun_read1 asks the modem for its state.        *)
(*                                                                         *)
(* The modem is external: it executes one AT command at a time, attaches   *)
(* and detaches in its own time, sends notifications in order, and answers *)
(* AT+CFUN? when it likes.  Commands that only configure it are left out.  *)
(***************************************************************************)
EXTENDS Naturals, Sequences

CONSTANTS
  Addrs, NoAddr,  \* addresses the network may assign
  ModemMay,       \* what the modem does unasked: see ModemAssumption
  MaxTrouble      \* bound on failures, late answers and unasked changes

ASSUME ModemAssumption ==
  /\ NoAddr \notin Addrs
  /\ ModemMay \subseteq
       {"detach",    \* detaches, says so, and attaches again
        "drop",      \* loses its address and gets another, without DETACH
        "flight"}    \* goes to CFUN=0 or 4 by itself
  /\ MaxTrouble \in Nat

VARIABLES
  at,           \* where the main thread is
  site,         \* the call of at_cfun_read1 it is in
  in_loop,      \* inside while (true) of nrf91_main_loop_lte
  my_ip_addr,
  my_addr,      \* eth_tx_thread: the address its session was opened with
  act,          \* is_cgev_act_on
  detach,       \* is_cgev_detach_on
  at_status1, is_done,   \* the statics of at_cfun_read1
  cfun,         \* modem: 0 (off or flight mode) or 1
  addr,         \* modem: the address it is attached with
  pending,      \* modem: AT+CFUN? without an answer yet
  subscribed,   \* modem: AT+CGEREP=1
  notes,        \* modem: notifications under way
  trouble,      \* failures so far
  strayed,      \* history: what the modem did unasked since the board started
  missed,       \* history: disconnects that went wrong, and a time without
                \* the link that eth_tx_thread did not notice, since then
  takedowns     \* history: how often connect switched an attached modem off

addresses == <<my_ip_addr, my_addr>>
flags    == <<act, detach>>
statics  == <<at_status1, is_done>>
modem    == <<cfun, addr, pending, subscribed, notes>>
locals   == <<site, in_loop>>
history  == <<strayed, missed, takedowns>>
vars == <<at, locals, addresses, flags, statics, modem, trouble, history>>

Places ==
  {"start", "ask", "answer", "retry", "off", "cfun0", "detaching", "settle",
   "config", "cfun1", "attaching", "prepare", "serve", "reset", "reboot"}
Sites == {"start", "loop", "connect", "exit"}

(* One more than StaleTakedownOnce allows.                                 *)
TakedownBound == MaxTrouble + 2

NotesOK == notes \in Seq({"ACT", "DETACH"})

CountsOK == trouble \in 0..MaxTrouble /\ takedowns \in 0..TakedownBound

TypeOK ==
  /\ at \in Places
  /\ site \in Sites
  /\ in_loop \in BOOLEAN
  /\ {my_ip_addr, my_addr} \subseteq Addrs \cup {NoAddr}
  /\ act \in BOOLEAN /\ detach \in BOOLEAN
  /\ at_status1 \in {0, 1} /\ is_done \in BOOLEAN
  /\ cfun \in {0, 1}
  /\ addr \in Addrs \cup {NoAddr}
  /\ pending \in BOOLEAN /\ subscribed \in BOOLEAN
  /\ NotesOK
  /\ strayed \subseteq ModemMay
  /\ missed \subseteq {"failed", "late", "blink"}
  /\ CountsOK

(* main.c has initialised the modem library, which starts the modem.       *)
Init ==
  /\ at = "start" /\ site = "start" /\ in_loop = FALSE
  /\ my_ip_addr = NoAddr /\ my_addr = NoAddr
  /\ act = FALSE /\ detach = FALSE
  /\ at_status1 = 0 /\ is_done = FALSE
  /\ cfun = 0 /\ addr = NoAddr
  /\ pending = FALSE /\ subscribed = FALSE
  /\ notes = << >>
  /\ trouble = 0
  /\ strayed = {} /\ missed = {} /\ takedowns = 0

Go(from, to) == at = from /\ at' = to

OnlyAsks  == UNCHANGED <<in_loop, addresses, flags, statics, modem, history>>
OnlyMoves == UNCHANGED site /\ OnlyAsks /\ UNCHANGED trouble

(* A failure, as long as there may be another.                             *)
Trouble == trouble < MaxTrouble /\ trouble' = trouble + 1

Attached == addr # NoAddr

(* What all threads look at before each packet.                            *)
LinkUp == act /\ ~detach

(* The flags come to say so in a session that has not seen them say no.    *)
Blink ==
  missed' = IF my_addr # NoAddr /\ ~LinkUp /\ LinkUp' THEN missed \cup {"blink"}
                                                     ELSE missed

ToCome(queue) == {queue[i] : i \in DOMAIN queue}
-----------------------------------------------------------------------------
(* nrf91_main_loop_lte, up to its first question.                          *)
Start ==
  /\ Go("start", "ask")
  /\ act' = FALSE /\ detach' = FALSE
  /\ UNCHANGED <<locals, addresses, statics, modem, trouble, history>>

-----------------------------------------------------------------------------
(* at_cfun_read1, with what each of its callers does next.                 *)
Ask ==
  /\ Go("ask", "answer")
  /\ ~pending /\ pending' = TRUE
  /\ UNCHANGED <<locals, addresses, flags, statics, cfun, addr, subscribed,
                 notes, trouble, history>>

(* No answer.  A caller in a loop goes to exit_lte_loop, which asks again; *)
(* the first caller and the last return, and the board is reset.           *)
NoAnswer ==
  /\ Trouble
  /\ IF site \in {"loop", "connect"}
     THEN at' = "ask" /\ site' = "exit" /\ UNCHANGED missed
     ELSE at' = "reset" /\ missed' = missed \cup {"failed"} /\ UNCHANGED site
  /\ UNCHANGED <<in_loop, addresses, flags, statics, modem, strayed, takedowns>>

AskFails == at = "ask" /\ NoAnswer

AnswerTimesOut == at = "answer" /\ ~is_done /\ NoAnswer

(* The answer to any question since the board started has set is_done:     *)
(* after one sleep the caller gets the status as it is then.               *)
Read(caller) == at = "answer" /\ site = caller /\ is_done

ReadAtStart ==
  /\ Read("start")
  /\ IF at_status1 = 0
     THEN at' = "retry" /\ UNCHANGED locals
     ELSE at' = "ask" /\ site' = "loop" /\ in_loop' = TRUE
  /\ UNCHANGED act
  /\ UNCHANGED <<addresses, detach, statics, modem, trouble, history>>

\* Mistake on purpose: the condition of connect.
ReadInLoop_On ==
  /\ Read("loop")
  /\ IF at_status1 # 0
     THEN at' = "retry" /\ act' = FALSE
     ELSE at' = "prepare" /\ UNCHANGED act
  /\ UNCHANGED locals
  /\ UNCHANGED <<addresses, detach, statics, modem, trouble, history>>

ReadInLoop ==
  /\ Read("loop")
  /\ IF at_status1 = 0
     THEN at' = "retry" /\ act' = FALSE
     ELSE at' = "prepare" /\ UNCHANGED act
  /\ UNCHANGED locals
  /\ UNCHANGED <<addresses, detach, statics, modem, trouble, history>>

ReadInConnect ==
  /\ Read("connect")
  /\ at' = IF at_status1 = 0 THEN "config" ELSE "off"
  /\ UNCHANGED <<locals, act>>
  /\ UNCHANGED <<addresses, detach, statics, modem, trouble, history>>

\* Mistake on purpose: exit_lte_loop does not disconnect.
ReadAtExit_NoDisconnect ==
  /\ Read("exit")
  /\ at' = "reset"
  /\ UNCHANGED <<locals, act>>
  /\ UNCHANGED <<addresses, detach, statics, modem, trouble, history>>

(* exit_lte_loop disconnects, whatever the status is.                      *)
ReadAtExit ==
  /\ Read("exit")
  /\ at' = "off"
  /\ UNCHANGED <<locals, act>>
  /\ UNCHANGED <<addresses, detach, statics, modem, trouble, history>>

-----------------------------------------------------------------------------
(* while (!is_cgev_act_on) nrf91_lte_connect(true).                        *)
Retry ==
  /\ at = "retry"
  /\ ~act
  /\ at' = "ask" /\ site' = "connect"
  /\ OnlyAsks /\ UNCHANGED trouble

Active ==
  /\ at = "retry"
  /\ act
  /\ IF in_loop THEN at' = "prepare" /\ UNCHANGED locals
                ELSE at' = "ask" /\ site' = "loop" /\ in_loop' = TRUE
  /\ UNCHANGED <<addresses, flags, statics, modem, trouble, history>>

(* The commands up to AT+CFUN=1 configure the modem; that AT+CGEREP=1 may  *)
(* fail among them is only logged.  The flag is cleared at their end.      *)
Configure ==
  /\ Go("config", "cfun1")
  /\ ~pending
  /\ \/ subscribed' = TRUE /\ UNCHANGED trouble
     \/ Trouble /\ UNCHANGED subscribed
  /\ act' = FALSE
  /\ UNCHANGED <<locals, addresses, detach, statics, cfun, addr, pending,
                 notes, history>>

Activate ==
  /\ Go("cfun1", "attaching")
  /\ cfun' = 1
  /\ UNCHANGED <<locals, addresses, flags, statics, addr, pending, subscribed,
                 notes, trouble, history>>

ActivateFails ==
  /\ Go("cfun1", "retry")
  /\ Trouble
  /\ UNCHANGED <<locals, addresses, flags, statics, modem, history>>

Activated ==
  /\ Go("attaching", "retry")
  /\ act
  /\ OnlyMoves

(* After 30 s.  It is the modem's slowness if a notification is to come.   *)
ActivateTimesOut ==
  /\ Go("attaching", "retry")
  /\ ~act
  /\ IF (cfun = 1 /\ ~Attached /\ subscribed) \/ "ACT" \in ToCome(notes)
     THEN Trouble ELSE UNCHANGED trouble
  /\ UNCHANGED <<locals, addresses, flags, statics, modem, history>>

-----------------------------------------------------------------------------
(* nrf91_lte_disconnect(0): its callers go on whatever it returns.         *)
Return == IF site = "exit" THEN "reset" ELSE "config"

Subscribe ==
  /\ Go("off", "cfun0")
  /\ ~pending
  /\ subscribed' = TRUE
  /\ detach' = FALSE
  /\ UNCHANGED <<locals, addresses, act, statics, cfun, addr, pending, notes,
                 trouble, strayed, takedowns>>
  /\ Blink

Deactivate ==
  /\ Go("cfun0", "detaching")
  /\ cfun' = 0
  /\ takedowns' = IF site = "connect" /\ Attached /\ takedowns < TakedownBound
                  THEN takedowns + 1 ELSE takedowns
  /\ UNCHANGED <<locals, addresses, flags, statics, addr, pending, subscribed,
                 notes, trouble, strayed, missed>>

DeactivateFails ==
  /\ at \in {"off", "cfun0"}
  /\ ~pending
  /\ Trouble
  /\ at' = Return
  /\ missed' = missed \cup {"failed"}
  /\ UNCHANGED <<locals, addresses, flags, statics, modem, strayed, takedowns>>

\* Mistake on purpose: the flag is not cleared again.
Detached_KeepFlag ==
  /\ Go("detaching", "settle")
  /\ detach
  /\ OnlyMoves

Detached ==
  /\ Go("detaching", "settle")
  /\ detach
  /\ detach' = FALSE
  /\ UNCHANGED <<locals, addresses, act, statics, modem, trouble, strayed, takedowns>>
  /\ Blink

(* After 10 s, as above.                                                   *)
DetachTimesOut ==
  /\ at = "detaching"
  /\ ~detach
  /\ IF Attached \/ "DETACH" \in ToCome(notes)
     THEN Trouble /\ missed' = missed \cup {"late"} ELSE UNCHANGED <<trouble, missed>>
  /\ at' = Return
  /\ UNCHANGED <<locals, addresses, flags, statics, modem, strayed, takedowns>>

(* Up to 10 s of AT%XMONITOR, with or without success.                     *)
Settle ==
  /\ Go("settle", Return)
  /\ OnlyMoves

-----------------------------------------------------------------------------
(* while (true) of nrf91_main_loop_lte, after its question.                *)
PrepareFails ==
  /\ at = "prepare"
  /\ Trouble
  /\ at' = "ask" /\ site' = "exit"
  /\ OnlyAsks

(* The address cannot be had: ask again.                                   *)
NoAddress ==
  /\ at = "prepare"
  /\ ~pending
  /\ IF Attached THEN Trouble ELSE UNCHANGED trouble
  /\ subscribed' = TRUE
  /\ at' = "ask" /\ site' = "loop"
  /\ UNCHANGED <<in_loop, addresses, flags, statics, cfun, addr, pending,
                 notes, history>>

\* Mistake on purpose: an address once stored is kept.
StoreAddress_Once ==
  /\ Go("prepare", "serve")
  /\ ~pending
  /\ Attached
  /\ subscribed' = TRUE
  /\ my_ip_addr' = IF my_ip_addr = NoAddr THEN addr ELSE my_ip_addr
  /\ UNCHANGED <<locals, my_addr, flags, statics, cfun, addr, pending, notes,
                 trouble, history>>

StoreAddress ==
  /\ Go("prepare", "serve")
  /\ ~pending
  /\ Attached
  /\ subscribed' = TRUE
  /\ my_ip_addr' = addr
  /\ UNCHANGED <<locals, my_addr, flags, statics, cfun, addr, pending, notes,
                 trouble, history>>

(* cbf_main sleeps beside the link as long as it is up ...                 *)
Serve ==
  /\ at = "serve"
  /\ LinkUp
  /\ UNCHANGED vars

(* ... and nothing else ends it.                                           *)
StopServing ==
  /\ at = "serve"
  /\ ~LinkUp
  /\ at' = "ask" /\ site' = "loop"
  /\ OnlyAsks /\ UNCHANGED trouble

-----------------------------------------------------------------------------
(* handle_reset: AT+CFUN=0, which may fail, a second's sleep, the reboot.  *)
SwitchOff ==
  /\ Go("reset", "reboot")
  /\ \/ ~pending /\ cfun' = 0 /\ UNCHANGED trouble
     \/ Trouble /\ UNCHANGED cfun
  /\ UNCHANGED <<locals, addresses, flags, statics, addr, pending, subscribed,
                 notes, history>>

Reboot ==
  /\ Go("reboot", "start")
  /\ site' = "start" /\ in_loop' = FALSE
  /\ my_ip_addr' = NoAddr /\ my_addr' = NoAddr
  /\ act' = FALSE /\ detach' = FALSE
  /\ at_status1' = 0 /\ is_done' = FALSE
  /\ cfun' = 0 /\ addr' = NoAddr
  /\ pending' = FALSE /\ subscribed' = FALSE
  /\ notes' = << >>
  /\ strayed' = {} /\ missed' = {} /\ takedowns' = 0
  /\ UNCHANGED trouble

-----------------------------------------------------------------------------
(* eth_tx_thread's session: it opens with the address the modem tells, and *)
(* ends when the link is down or the modem tells none.  An address is      *)
(* asked for in every turn but never compared with the first.              *)
InSession == my_addr # NoAddr

OpenSession ==
  /\ ~InSession
  /\ LinkUp
  /\ Attached
  /\ my_addr' = addr
  /\ UNCHANGED <<at, locals, my_ip_addr, flags, statics, modem, trouble, history>>

CloseSession ==
  /\ InSession
  /\ ~LinkUp \/ ~Attached
  /\ my_addr' = NoAddr
  /\ UNCHANGED <<at, locals, my_ip_addr, flags, statics, modem, trouble, history>>

-----------------------------------------------------------------------------
(* The modem and the callbacks that run for it.                            *)
Program == <<at, locals, addresses>>

Tell(note) == notes' = IF subscribed THEN Append(notes, note) ELSE notes

\* Mistake on purpose: the status is taken as the character it is.
AnswerArrives_Char ==
  /\ pending /\ pending' = FALSE
  /\ at_status1' = cfun + 48 /\ is_done' = TRUE
  /\ UNCHANGED <<Program, flags, cfun, addr, subscribed, notes, trouble, history>>

(* __callback of at_cfun_read1.                                            *)
AnswerArrives ==
  /\ pending /\ pending' = FALSE
  /\ at_status1' = cfun /\ is_done' = TRUE
  /\ UNCHANGED <<Program, flags, cfun, addr, subscribed, notes, trouble, history>>

\* Mistake on purpose: a detach is only shown by the LED.
notification_handler_ActOnly ==
  /\ notes # << >>
  /\ notes' = Tail(notes)
  /\ act' = (act \/ Head(notes) = "ACT")
  /\ UNCHANGED <<Program, detach, statics, cfun, addr, pending, subscribed, trouble,
                 history>>

notification_handler ==
  /\ notes # << >>
  /\ notes' = Tail(notes)
  /\ act' = (act \/ Head(notes) = "ACT")
  /\ detach' = (detach \/ Head(notes) = "DETACH")
  /\ UNCHANGED <<Program, statics, cfun, addr, pending, subscribed, trouble, strayed,
                 takedowns>>
  /\ Blink

Attach ==
  /\ cfun = 1 /\ ~Attached
  /\ addr' \in Addrs
  /\ Tell("ACT")
  /\ UNCHANGED <<Program, flags, statics, cfun, pending, subscribed, trouble, history>>

Detach ==
  /\ cfun = 0 /\ Attached
  /\ addr' = NoAddr
  /\ Tell("DETACH")
  /\ UNCHANGED <<Program, flags, statics, cfun, pending, subscribed, trouble, history>>

Stray(kind) ==
  /\ kind \in ModemMay
  /\ cfun = 1 /\ Attached
  /\ Trouble
  /\ strayed' = strayed \cup {kind}
  /\ UNCHANGED <<Program, flags, statics, pending, subscribed, missed, takedowns>>

SelfDetach == Stray("detach") /\ addr' = NoAddr /\ Tell("DETACH") /\ UNCHANGED cfun
Drop       == Stray("drop") /\ addr' = NoAddr /\ UNCHANGED <<cfun, notes>>
FlightMode == Stray("flight") /\ cfun' = 0 /\ UNCHANGED <<addr, notes>>

-----------------------------------------------------------------------------
MainNext ==
  \/ Start \/ Ask \/ AskFails \/ AnswerTimesOut
  \/ ReadAtStart \/ ReadInLoop \/ ReadInConnect \/ ReadAtExit
  \/ Retry \/ Active \/ Configure \/ Activate \/ ActivateFails
  \/ Activated \/ ActivateTimesOut
  \/ Subscribe \/ Deactivate \/ DeactivateFails \/ Detached \/ DetachTimesOut
  \/ Settle
  \/ PrepareFails \/ NoAddress \/ StoreAddress \/ Serve \/ StopServing
  \/ SwitchOff \/ Reboot

ModemNext == AnswerArrives \/ notification_handler \/ Attach \/ Detach

StrayNext == SelfDetach \/ Drop \/ FlightMode

Next == MainNext \/ OpenSession \/ CloseSession \/ ModemNext \/ StrayNext

Spec == Init /\ [][Next]_vars

(* The main thread's waits are bounded sleeps and AT commands that return; *)
(* a modem that is switched on attaches, and tells what it was asked for.  *)
(* What it does unasked, it need not do.                                   *)
FairSpec ==
  /\ Spec
  /\ WF_vars(MainNext)
  /\ WF_vars(OpenSession) /\ WF_vars(CloseSession)
  /\ WF_vars(AnswerArrives)
  /\ WF_vars(notification_handler)
  /\ WF_vars(Attach)
  /\ WF_vars(Detach)

-----------------------------------------------------------------------------
(* Properties.                                                             *)

(* Packets pass in both directions: those from Ethernet are stamped with   *)
(* the modem's address, those from LTE are compared with it.               *)
Usable ==
  at = "serve" /\ LinkUp /\ Attached /\ my_ip_addr = addr /\ my_addr = addr

(* Whatever fails on the way up or is answered late, and through the       *)
(* resets that follow, the gateway comes to forward packets for good: or   *)
(* since the board was last started the modem has done something unasked,  *)
(* a detach has taken it more than the 10 s that disconnect waits, or      *)
(* eth_tx_thread has slept through a time without the link.                *)
ComesUp ==
  <>[]Usable \/ <>[](strayed # {} \/ missed \cap {"late", "blink"} # {})

(* And even then: README.md, "You will be able to communicate with the     *)
(* server via LTE".                                                        *)
LinkComesBack == <>[]Usable

(* The status that at_cfun_read1 returns may be old.  This makes connect   *)
(* switch an attached modem off once, not in every turn; else it takes a   *)
(* failure each time.                                                      *)
StaleTakedownOnce == takedowns <= trouble + 1

(* While the main thread waits beside a link that the other threads use,   *)
(* the modem is attached and has the address that packets are stamped      *)
(* with, but for a detach about to be told and a drop that never is.       *)
StampCurrent ==
  at = "serve" /\ LinkUp =>
    \/ Attached /\ my_ip_addr = addr
    \/ "DETACH" \in ToCome(notes)
    \/ "drop" \in strayed

(* A session that outlives the address it was opened with has slept        *)
(* through a time without the link, or is about to see one, or a drop.     *)
SessionCurrent ==
  InSession /\ LinkUp /\ Attached =>
    \/ my_addr = addr
    \/ "DETACH" \in ToCome(notes)
    \/ "drop" \in strayed
    \/ "blink" \in missed

(* The board is reset under an attached modem only if the disconnect was   *)
(* left out or not finished, or took the notification of an earlier detach *)
(* for its own: not because a second's sleep was too short.                *)
ResetsDetached ==
  at \in {"reset", "reboot"} /\ Attached =>
    \/ missed \cap {"failed", "late"} # {}
    \/ strayed \cap {"detach", "flight"} # {}
=============================================================================
