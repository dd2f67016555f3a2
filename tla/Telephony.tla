------------------------------- MODULE Telephony -------------------------------
(***************************************************************************)
(* Calls and messages: the Phone and Messages pages, the part of           *)
(* SystemBackend they call, and ModemManager behind mmcli, composed with   *)
(* the window manager, which creates and destroys the pages.               *)
(*                                                                         *)
(* SystemBackend::run() blocks the one thread of the shell until mmcli has *)
(* ended or its time is over, so that a tap with all its commands is one   *)
(* step.  Every command may fail without effect.  One killed at its        *)
(* timeout is reported as failed too, and may have had its effect.         *)
(* The page is destroyed with the application; SystemBackend is not.       *)
(***************************************************************************)
EXTENDS AppSurface, FiniteSets

CONSTANTS
    Phone, Messages, \* the two applications of AppIds
    CallIds,         \* ModemManager's call objects (bound)
    NoCall,          \* m_activeCall is empty
    MaxSends         \* bound: times one text is delivered

ASSUME TelephonyAssumption ==
    /\ Phone \in AppIds /\ Messages \in AppIds /\ Phone # Messages
    /\ NoCall \notin CallIds
    /\ MaxSends \in Nat

VARIABLES
    call,         \* ModemManager: the state of each call object
    m_activeCall, \* SystemBackend::m_activeCall
    calling,      \* PhoneApp.calling
    draft,        \* MessagesApp: there is text in the field
    lost,         \* history: live calls left by their page, or reported failed
    wrote,        \* history: a message was written on this page ...
    delivered,    \* history: ... so often it was sent ...
    unsure        \* history: ... and a send of it was killed at its timeout

phoneVars == <<call, m_activeCall, calling, lost>>
smsVars == <<draft, wrote, delivered, unsure>>
telVars == <<vars, phoneVars, smsVars>>

(* "made" is a call object that was not started. *)
CallStates == {"none", "made", "live", "over"}

TelInit ==
    /\ Init
    /\ call = [c \in CallIds |-> "none"]
    /\ m_activeCall = NoCall
    /\ calling = FALSE
    /\ lost = {}
    /\ draft = FALSE /\ wrote = FALSE /\ delivered = 0 /\ unsure = FALSE

-----------------------------------------------------------------------------
(* The loader drops its page, with the state the page had. *)
PageGone ==
    /\ calling' = FALSE
    /\ lost' = lost \cup {c \in {m_activeCall} : calling}
    /\ draft' = FALSE /\ wrote' = FALSE /\ delivered' = 0 /\ unsure' = FALSE
    /\ UNCHANGED <<call, m_activeCall>>

(* Every launch loads its source anew, the same application's too. *)
PageSteps ==
    /\ (\E a \in AppIds : LaunchUrl(a)) \/ CloseTimerFires \/ BackCloseTimerFires
    /\ PageGone

(* Phone and Messages have no pages: their canGoBack is false. *)
OpenOtherPage == OpenPage /\ loaded \notin {Phone, Messages}

SurfaceSteps ==
    /\ \/ CallLater
       \/ OpenOtherPage
       \/ GoToRoot
       \/ GoHome
       \/ BeginBack
       \/ UpdateBack
       \/ FinishBackInternal
       \/ FinishBackRoot
       \/ FinishBackCancelled
       \/ OpenControlCenter
       \/ CloseControlCenter
    /\ UNCHANGED <<phoneVars, smsVars>>

(* A finger can tap on the page of a. *)
Touchable(a) == active /\ loaded = a /\ ~ccOpened /\ ~backPressed

-----------------------------------------------------------------------------
(* dial() before --voice-create-call succeeds: no modem, a refused number, *)
(* or a failing command, which may leave a call object nobody knows.       *)
DialRefused ==
    /\ Touchable(Phone) /\ ~calling
    /\ call' \in {call} \cup {[call EXCEPT ![c] = "made"] :
                                c \in {d \in CallIds : call[d] = "none"}}
    /\ UNCHANGED <<m_activeCall, calling, lost>>

(* Fault: m_activeCall is not set when there was a call before. *)
Dial_KeepsOld(c) ==
    /\ Touchable(Phone) /\ ~calling
    /\ call[c] = "none"
    /\ m_activeCall' = IF m_activeCall = NoCall THEN c ELSE m_activeCall
    /\ \E how \in {"started", "failed", "killed"} :
        /\ call' \in {[call EXCEPT ![c] = s] :
                s \in CASE how = "started" -> {"live"}
                        [] how = "failed" -> {"made"}
                        [] how = "killed" -> {"made", "live"}}
        /\ calling' = (how = "started")
        /\ lost' = IF how = "killed" THEN lost \cup {c} ELSE lost

(* dial() with a new call object: m_activeCall is set, whatever it was, and *)
(* --start succeeds, fails, or is killed at its timeout.                    *)
Dial(c) ==
    /\ Touchable(Phone) /\ ~calling
    /\ call[c] = "none"
    /\ m_activeCall' = c
    /\ \E how \in {"started", "failed", "killed"} :
        /\ call' \in {[call EXCEPT ![c] = s] :
                s \in CASE how = "started" -> {"live"}
                        [] how = "failed" -> {"made"}
                        [] how = "killed" -> {"made", "live"}}
        /\ calling' = (how = "started")
        /\ lost' = IF how = "killed" THEN lost \cup {c} ELSE lost

(* hangupCall() answered "ok": the call is over. *)
HangUpCall ==
    /\ Touchable(Phone) /\ calling
    /\ m_activeCall # NoCall
    /\ call' = [call EXCEPT ![m_activeCall] = "over"]
    /\ m_activeCall' = NoCall
    /\ calling' = FALSE
    /\ UNCHANGED lost

(* Fault: the page takes every answer for the end of the call. *)
HangUpFails_EndsCall ==
    /\ Touchable(Phone) /\ calling
    /\ call' \in {call} \cup {[call EXCEPT ![c] = "over"] : c \in {m_activeCall} \ {NoCall}}
    /\ calling' = FALSE
    /\ UNCHANGED <<m_activeCall, lost>>

(* hangupCall() fails, as it may for a call the other side has ended, or   *)
(* mmcli is killed, perhaps after the call's end: "End" stays on the page. *)
HangUpFails ==
    /\ Touchable(Phone) /\ calling
    /\ call' \in {call} \cup {[call EXCEPT ![c] = "over"] : c \in {m_activeCall} \ {NoCall}}
    /\ UNCHANGED <<m_activeCall, calling, lost>>

(* The other side, or the network, ends a call; nobody tells the shell. *)
RemoteEnds(c) ==
    /\ call[c] = "live"
    /\ call' = [call EXCEPT ![c] = "over"]
    /\ UNCHANGED <<m_activeCall, calling, lost>>

-----------------------------------------------------------------------------
(* The text of the field is replaced, or erased. *)
EditMessage(text) ==
    /\ Touchable(Messages)
    /\ draft' = text /\ wrote' = text
    /\ delivered' = 0
    /\ unsure' = FALSE

(* sendSms() answered "ok": the message is out and the field is emptied. *)
SendSms ==
    /\ Touchable(Messages)
    /\ draft
    /\ delivered < MaxSends
    /\ delivered' = delivered + 1
    /\ draft' = FALSE
    /\ UNCHANGED <<wrote, unsure>>

(* Fault: the field is emptied whatever sendSms() answered. *)
SendSmsFails_Clears ==
    /\ Touchable(Messages)
    /\ draft
    /\ delivered < MaxSends
    /\ draft' = FALSE
    /\ \/ UNCHANGED <<delivered, unsure>>
       \/ unsure' = TRUE /\ delivered' \in {delivered, delivered + 1}
    /\ UNCHANGED wrote

(* It failed, or --send was killed at its timeout; the text stays, to be   *)
(* sent again.                                                             *)
SendSmsFails ==
    /\ Touchable(Messages)
    /\ draft
    /\ delivered < MaxSends
    /\ \/ UNCHANGED <<delivered, unsure>>
       \/ unsure' = TRUE /\ delivered' \in {delivered, delivered + 1}
    /\ UNCHANGED <<draft, wrote>>

-----------------------------------------------------------------------------
PhoneSteps ==
    /\ \/ DialRefused
       \/ \E c \in CallIds : Dial(c)
       \/ HangUpCall
       \/ HangUpFails
       \/ \E c \in CallIds : RemoteEnds(c)
    /\ UNCHANGED <<vars, smsVars>>

SmsSteps ==
    /\ \/ \E text \in BOOLEAN : EditMessage(text)
       \/ SendSms
       \/ SendSmsFails
    /\ UNCHANGED <<vars, phoneVars>>

TelNext == PageSteps \/ SurfaceSteps \/ PhoneSteps \/ SmsSteps

TelSpec == TelInit /\ [][TelNext]_telVars /\ Fairness

-----------------------------------------------------------------------------
(* Type invariant.  Only a Phone page calls, only a Messages page has text. *)
TelTypeOK ==
    /\ call \in [CallIds -> CallStates]
    /\ m_activeCall \in CallIds \cup {NoCall}
    /\ calling \in BOOLEAN /\ (calling => loaded = Phone)
    /\ draft \in BOOLEAN /\ (draft => wrote)
    /\ wrote \in BOOLEAN /\ (wrote => loaded = Messages)
    /\ unsure \in BOOLEAN
    /\ lost \in SUBSET CallIds
    /\ delivered \in 0 .. MaxSends

(* The End button always has a call to end, one that was started: no order *)
(* of dialling, failing commands, launches and closing timers leaves it    *)
(* without one, or with one that never began.                              *)
EndButtonHasCall ==
    calling => m_activeCall \in CallIds /\ call[m_activeCall] \in {"live", "over"}

(* A call that goes on can be ended on the page, unless the page was left  *)
(* during the call or mmcli was killed while it started the call.  (Those  *)
(* cannot be ended: a new page shows "Call", and dials the next.)          *)
LiveCallsCanBeEnded ==
    \A c \in CallIds :
        call[c] = "live" => c \in lost \/ (calling /\ m_activeCall = c)

(* The text of a message is in the field exactly as long as it was not     *)
(* sent: tapping again sends no message twice, and none is dropped, unless *)
(* a send was killed at its timeout.                                       *)
EachMessageOnce ==
    ~unsure => delivered = (IF wrote /\ ~draft THEN 1 ELSE 0)
=============================================================================
