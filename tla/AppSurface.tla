------------------------------ MODULE AppSurface ------------------------------
(***************************************************************************)
(* The window manager of the shell: AppSurface.qml holds the one running   *)
(* application, Main.qml turns gestures into its calls.                    *)
(*                                                                         *)
(* The positions and opacities are the targets of the animations.  The     *)
(* two single-shot timers (205 ms and 200 ms) and the functions handed to  *)
(* Qt.callLater() run from the event loop, in any order with respect to    *)
(* the user's gestures; callLater functions run in the order they were     *)
(* queued.  Time is abstracted: a running timer fires at some later step.  *)
(***************************************************************************)
EXTENDS Naturals, Sequences

CONSTANTS
    AppIds,      \* the applications Home can launch
    NoApp,       \* no application is loaded
    MaxPages,    \* the deepest page inside an application
    MaxCalls     \* bound: pending callLater functions

ASSUME SurfaceAssumption ==
    /\ NoApp \notin AppIds
    /\ MaxPages \in Nat
    /\ MaxCalls \in Nat \ {0}

VARIABLES
    active,         \* AppSurface.active
    loaded,         \* the application in the loader
    pages,          \* its pages above the root: canGoBack is pages > 0
    x,              \* where the left edge of the surface is going
    box,            \* its y, width and height
    opacity,
    instant,        \* animations switched off
    draggingBack,
    closeTimer,     \* closeTimer.running
    backCloseTimer, \* backCloseTimer.running
    calls,          \* functions queued with Qt.callLater
    backPressed,    \* backGesture.pressed
    ccOpened,       \* controlCenter.opened
    asked,          \* history: Home or root Back since the last launch
    overlap         \* history: the last launch found a close timer running

surface == <<active, loaded, pages, x, box, opacity, instant, draggingBack>>
timers == <<closeTimer, backCloseTimer>>
history == <<asked, overlap>>
vars == <<surface, timers, calls, backPressed, ccOpened, history>>

Edges == {"icon", "zero", "dragged", "aside"}
Boxes == {"icon", "full"}
Opacities == {"clear", "dim", "opaque"}

-----------------------------------------------------------------------------
Init ==
    /\ active = FALSE
    /\ loaded = NoApp
    /\ pages = 0
    /\ x = "icon"
    /\ box = "icon"
    /\ opacity = "clear"
    /\ instant = FALSE
    /\ draggingBack = FALSE
    /\ closeTimer = FALSE
    /\ backCloseTimer = FALSE
    /\ calls = <<>>
    /\ backPressed = FALSE
    /\ ccOpened = FALSE
    /\ asked = FALSE
    /\ overlap = FALSE

(* Fault: a drag of the previous application is not forgotten. *)
LaunchUrl_KeepsDrag(a) ==
    /\ ~ccOpened
    /\ Len(calls) < MaxCalls
    /\ active' = TRUE
    /\ loaded' = a
    /\ pages' = 0
    /\ x' = "icon"
    /\ box' = "icon"
    /\ opacity' = "dim"
    /\ instant' = TRUE
    /\ calls' = Append(calls, "expand")
    /\ asked' = FALSE
    /\ overlap' = (closeTimer \/ backCloseTimer)
    /\ UNCHANGED <<draggingBack, timers, backPressed, ccOpened>>

(* launchUrl(), from a tap on an icon that no control center covers.  The  *)
(* code asks nothing of the surface: the previous application may still be *)
(* there, or on its way out.                                               *)
LaunchUrl(a) ==
    /\ ~ccOpened
    /\ Len(calls) < MaxCalls
    /\ active' = TRUE
    /\ loaded' = a
    /\ pages' = 0
    /\ x' = "icon"
    /\ box' = "icon"
    /\ opacity' = "dim"
    /\ instant' = TRUE
    /\ draggingBack' = FALSE
    /\ calls' = Append(calls, "expand")
    /\ asked' = FALSE
    /\ overlap' = (closeTimer \/ backCloseTimer)
    /\ UNCHANGED <<timers, backPressed, ccOpened>>

(* Fault: the surface stays where the icon is. *)
CallLater_NoExpand ==
    /\ calls # <<>>
    /\ calls' = Tail(calls)
    /\ instant' = FALSE
    /\ UNCHANGED <<active, loaded, pages, x, box, opacity, draggingBack, timers,
                   backPressed, ccOpened, history>>

(* The event loop runs the next queued function: launchUrl()'s expands the *)
(* surface, finishClose()'s only switches the animations on again.         *)
CallLater ==
    /\ calls # <<>>
    /\ calls' = Tail(calls)
    /\ instant' = FALSE
    /\ IF Head(calls) = "expand"
       THEN x' = "zero" /\ box' = "full" /\ opacity' = "opaque"
       ELSE UNCHANGED <<x, box, opacity>>
    /\ UNCHANGED <<active, loaded, pages, draggingBack, timers, backPressed,
                   ccOpened, history>>

(* The application opens a page of its own. *)
OpenPage ==
    /\ active
    /\ pages < MaxPages
    /\ pages' = pages + 1
    /\ UNCHANGED <<active, loaded, x, box, opacity, instant, draggingBack, timers,
                   calls, backPressed, ccOpened, history>>

(* The application returns to its root page: the Home button of Files      *)
(* empties its history.                                                    *)
GoToRoot ==
    /\ active
    /\ pages > 0
    /\ pages' = 0
    /\ UNCHANGED <<active, loaded, x, box, opacity, instant, draggingBack, timers,
                   calls, backPressed, ccOpened, history>>

(* Fault: closeTimer is not started. *)
GoHome_NoTimer ==
    /\ active
    /\ ccOpened' = FALSE
    /\ draggingBack' = FALSE
    /\ instant' = FALSE
    /\ x' = "icon"
    /\ box' = "icon"
    /\ opacity' = "clear"
    /\ asked' = TRUE
    /\ UNCHANGED <<active, loaded, pages, timers, calls, backPressed, overlap>>

(* homeGesture: closes the control center and calls goHome(), which shrinks *)
(* the surface and (re)starts closeTimer.                                   *)
GoHome ==
    /\ active
    /\ ccOpened' = FALSE
    /\ draggingBack' = FALSE
    /\ instant' = FALSE
    /\ x' = "icon"
    /\ box' = "icon"
    /\ opacity' = "clear"
    /\ closeTimer' = TRUE
    /\ asked' = TRUE
    /\ UNCHANGED <<active, loaded, pages, backCloseTimer, calls, backPressed, overlap>>

(* backGesture pressed: beginBack(). *)
BeginBack ==
    /\ active
    /\ ~ccOpened
    /\ ~backPressed
    /\ backPressed' = TRUE
    /\ draggingBack' = TRUE
    /\ instant' = TRUE
    /\ UNCHANGED <<active, loaded, pages, x, box, opacity, timers, calls, ccOpened, history>>

(* backGesture moved: updateBack(). *)
UpdateBack ==
    /\ backPressed
    /\ active
    /\ x' = "dragged"
    /\ opacity' = "opaque"
    /\ UNCHANGED <<active, loaded, pages, box, instant, draggingBack, timers, calls,
                   backPressed, ccOpened, history>>

(* The part of finishBack() that returns the surface to its place; only x  *)
(* is set, so a surface that goHome() has begun to shrink keeps its box.   *)
BackToPlace ==
    /\ draggingBack' = FALSE
    /\ instant' = FALSE
    /\ x' = "zero"
    /\ opacity' = "opaque"

(* Fault: the return after app.goBack() is missing. *)
FinishBackInternal_FallsThrough ==
    /\ backPressed
    /\ active
    /\ pages > 0
    /\ backPressed' = FALSE
    /\ draggingBack' = FALSE
    /\ instant' = FALSE
    /\ x' = "aside"
    /\ opacity' = "opaque"
    /\ pages' = pages - 1
    /\ backCloseTimer' = TRUE
    /\ UNCHANGED <<active, loaded, box, closeTimer, calls, ccOpened, history>>

(* finishBack() past the threshold: an internal page goes back first. *)
FinishBackInternal ==
    /\ backPressed
    /\ active
    /\ pages > 0
    /\ backPressed' = FALSE
    /\ BackToPlace
    /\ pages' = pages - 1
    /\ UNCHANGED <<active, loaded, box, timers, calls, ccOpened, history>>

(* finishBack() past the threshold at the root of the application: the     *)
(* surface slides out and backCloseTimer (re)starts.                       *)
FinishBackRoot ==
    /\ backPressed
    /\ active
    /\ pages = 0
    /\ backPressed' = FALSE
    /\ draggingBack' = FALSE
    /\ instant' = FALSE
    /\ x' = "aside"
    /\ opacity' = "opaque"
    /\ backCloseTimer' = TRUE
    /\ asked' = TRUE
    /\ UNCHANGED <<active, loaded, pages, box, closeTimer, calls, ccOpened, overlap>>

(* finishBack() below the threshold. *)
FinishBackCancelled ==
    /\ backPressed
    /\ active
    /\ backPressed' = FALSE
    /\ BackToPlace
    /\ UNCHANGED <<active, loaded, pages, box, timers, calls, ccOpened, history>>

(* topGesture opens the control center.  backGesture is disabled by it: if *)
(* it was pressed it is cancelled, finishBack(0).                          *)
OpenControlCenter ==
    /\ ~ccOpened
    /\ ccOpened' = TRUE
    /\ backPressed' = FALSE
    /\ IF backPressed /\ active THEN BackToPlace
       ELSE UNCHANGED <<draggingBack, instant, x, opacity>>
    /\ UNCHANGED <<active, loaded, pages, box, timers, calls, history>>

(* A tap outside the panel. *)
CloseControlCenter ==
    /\ ccOpened
    /\ ccOpened' = FALSE
    /\ UNCHANGED <<surface, timers, calls, backPressed, history>>

(* finishClose(): active = false disables backGesture; a press in progress *)
(* is cancelled, but its finishBack(0) returns early, active being false.  *)
FinishClose ==
    /\ Len(calls) < MaxCalls
    /\ active' = FALSE
    /\ loaded' = NoApp
    /\ pages' = 0
    /\ x' = "zero"
    /\ box' = "full"
    /\ opacity' = "clear"
    /\ instant' = TRUE
    /\ calls' = Append(calls, "animate")
    /\ backPressed' = FALSE
    /\ UNCHANGED <<draggingBack, ccOpened, history>>

CloseTimerFires ==
    /\ closeTimer
    /\ closeTimer' = FALSE
    /\ FinishClose
    /\ UNCHANGED backCloseTimer

BackCloseTimerFires ==
    /\ backCloseTimer
    /\ backCloseTimer' = FALSE
    /\ FinishClose
    /\ UNCHANGED closeTimer

Next ==
    \/ \E a \in AppIds : LaunchUrl(a)
    \/ CallLater
    \/ OpenPage
    \/ GoToRoot
    \/ GoHome
    \/ BeginBack
    \/ UpdateBack
    \/ FinishBackInternal
    \/ FinishBackRoot
    \/ FinishBackCancelled
    \/ OpenControlCenter
    \/ CloseControlCenter
    \/ CloseTimerFires
    \/ BackCloseTimerFires

(* The event loop runs queued functions and fires timers that are due.     *)
(* Nothing is assumed of the user.                                         *)
Fairness ==
    /\ WF_vars(CallLater)
    /\ WF_vars(CloseTimerFires)
    /\ WF_vars(BackCloseTimerFires)

Spec == Init /\ [][Next]_vars /\ Fairness

-----------------------------------------------------------------------------
(* Type invariant: a loaded application and an active surface go together. *)
TypeOK ==
    /\ active \in BOOLEAN /\ asked \in BOOLEAN /\ overlap \in BOOLEAN
    /\ loaded \in AppIds \cup {NoApp}
    /\ active <=> loaded # NoApp
    /\ pages \in 0 .. MaxPages
    /\ x \in Edges
    /\ box \in Boxes
    /\ opacity \in Opacities
    /\ calls \in Seq({"expand", "animate"}) /\ Len(calls) <= MaxCalls
    /\ instant \in BOOLEAN /\ draggingBack \in BOOLEAN
    /\ closeTimer \in BOOLEAN /\ backCloseTimer \in BOOLEAN
    /\ backPressed \in BOOLEAN /\ ccOpened \in BOOLEAN

(* A visible application is never left with its animations frozen by a     *)
(* back swipe that was interrupted: by a timer that closed the application *)
(* under the finger, by the control center, or by the next launch.         *)
NoFrozenDrag == active /\ draggingBack => backPressed

(* When nothing is pending and no finger is down, an active application    *)
(* fills the screen: no order of launches, swipes, timers and queued calls *)
(* leaves it shrunk, shoved aside, half faded or without animations.       *)
Settled == calls = <<>> /\ ~closeTimer /\ ~backCloseTimer /\ ~backPressed
ShownWhenSettled ==
    Settled /\ active =>
        x = "zero" /\ box = "full" /\ opacity = "opaque" /\ ~instant

(* An application that was launched while no close was pending is closed   *)
(* only after the user asked for Home, or swiped Back at its root.         *)
ClosedOnlyWhenAsked ==
    [][ active /\ ~active' => asked \/ overlap ]_vars

(* Asking for Home, or Back at the root, closes the application unless     *)
(* another launch takes the surface over.                                  *)
HomeReached == (asked /\ active) ~> (~active \/ ~asked)

(* A launched application comes to fill the screen or is closed again.     *)
LaunchCompletes == (active /\ box = "icon") ~> (box = "full" \/ ~active)

(* AppSurface.qml:408-410: an internal Back is to "Return the app surface  *)
(* to its normal position" and "Do NOT throw the application away": after  *)
(* one, the application stays until the next request to leave.             *)
InternalBackKeepsApp ==
    [][ FinishBackInternal => ~closeTimer' /\ ~backCloseTimer' ]_vars
=============================================================================
