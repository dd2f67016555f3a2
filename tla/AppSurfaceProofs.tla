-------------------------- MODULE AppSurfaceProofs --------------------------
(***************************************************************************)
(* Proofs about the window manager, for any set of applications, any depth *)
(* of pages and any bound on the queued functions, and about calls and     *)
(* messages on its pages, for any number of calls.                         *)
(***************************************************************************)
EXTENDS Telephony, TLAPS

(* launchUrl()'s function is in the event loop. *)
WillExpand == \E i \in DOMAIN calls : calls[i] = "expand"

Leaving == closeTimer \/ backCloseTimer

(* The inductive invariant.  ShownWhenSettled speaks about moments with    *)
(* nothing pending; its parts say what each pending thing still excuses.   *)
BoxFull == active /\ ~Leaving /\ ~WillExpand => box = "full"
InPlace ==
    active /\ ~Leaving /\ ~WillExpand /\ ~backPressed =>
        x = "zero" /\ opacity = "opaque"
Animated == active /\ instant /\ calls = <<>> => backPressed
SurfaceInv == TypeOK /\ NoFrozenDrag /\ BoxFull /\ InPlace /\ Animated

USE SurfaceAssumption

(* The empty queue holds no function, and taking or adding the other       *)
(* function neither hides nor creates launchUrl()'s.                       *)
LEMMA QueueLemma ==
    ASSUME NEW q \in Seq({"expand", "animate"})
    PROVE  /\ \A c \in {"expand", "animate"} :
                  /\ Append(q, c) \in Seq({"expand", "animate"})
                  /\ Append(q, c) # <<>>
                  /\ (\E i \in DOMAIN Append(q, c) : Append(q, c)[i] = "expand")
                         <=> (c = "expand" \/ \E i \in DOMAIN q : q[i] = "expand")
           /\ q # <<>> =>
                  /\ Tail(q) \in Seq({"expand", "animate"})
                  /\ Len(Tail(q)) < Len(q)
                  /\ (\E i \in DOMAIN q : q[i] = "expand")
                         => (Head(q) = "expand" \/ \E i \in DOMAIN Tail(q) : Tail(q)[i] = "expand")
<1>1. ASSUME NEW c \in {"expand", "animate"}
      PROVE  /\ Append(q, c) \in Seq({"expand", "animate"})
             /\ Append(q, c) # <<>>
             /\ (\E i \in DOMAIN Append(q, c) : Append(q, c)[i] = "expand")
                    <=> (c = "expand" \/ \E i \in DOMAIN q : q[i] = "expand")
  <2>1. Append(q, c) \in Seq({"expand", "animate"})
    OBVIOUS
  <2>2. Append(q, c) # <<>>
    <3>1. Len(Append(q, c)) = Len(q) + 1 /\ Len(q) \in Nat
      OBVIOUS
    <3>2. Len(<<>>) = 0
      OBVIOUS
    <3> QED
      BY <3>1, <3>2
  <2>3. (\E i \in DOMAIN Append(q, c) : Append(q, c)[i] = "expand")
            <=> (c = "expand" \/ \E i \in DOMAIN q : q[i] = "expand")
    <3>1. DOMAIN Append(q, c) = 1 .. Len(q) + 1 /\ DOMAIN q = 1 .. Len(q) /\ Len(q) \in Nat
      OBVIOUS
    <3>2. Append(q, c)[Len(q) + 1] = c
      OBVIOUS
    <3>3. \A i \in 1 .. Len(q) : Append(q, c)[i] = q[i]
      OBVIOUS
    <3> QED
      BY <3>1, <3>2, <3>3
  <2> QED
    BY <2>1, <2>2, <2>3
<1>2. ASSUME q # <<>>
      PROVE  /\ Tail(q) \in Seq({"expand", "animate"})
             /\ Len(Tail(q)) < Len(q)
             /\ (\E i \in DOMAIN q : q[i] = "expand")
                    => (Head(q) = "expand" \/ \E i \in DOMAIN Tail(q) : Tail(q)[i] = "expand")
  <2>1. Tail(q) \in Seq({"expand", "animate"}) /\ Len(Tail(q)) = Len(q) - 1 /\ Len(q) \in Nat
    BY <1>2
  <2>2. ASSUME NEW i \in DOMAIN q, q[i] = "expand", Head(q) # "expand"
        PROVE  \E j \in DOMAIN Tail(q) : Tail(q)[j] = "expand"
    <3>1. i \in 1 .. Len(q) /\ i # 1
      BY <2>2, <1>2
    <3>2. i - 1 \in DOMAIN Tail(q) /\ Tail(q)[i - 1] = q[i]
      BY <3>1, <1>2
    <3> QED
      BY <3>2, <2>2
  <2> QED
    BY <2>1, <2>2
<1> QED
  BY <1>1, <1>2

(* Initially the surface is inactive, which makes every part trivial. *)
LEMMA SurfaceInit == Init => SurfaceInv
<1> SUFFICES ASSUME Init PROVE SurfaceInv
  OBVIOUS
<1> USE DEF Init
<1>1. TypeOK
  <2>1. <<>> \in Seq({"expand", "animate"}) /\ Len(<<>>) = 0
    OBVIOUS
  <2>2. pages \in 0 .. MaxPages /\ Len(calls) <= MaxCalls
    BY <2>1
  <2> QED
    BY <2>1, <2>2 DEF TypeOK, Edges, Boxes, Opacities
<1> QED
  BY <1>1 DEF SurfaceInv, NoFrozenDrag, BoxFull, InPlace, Animated

(* Every step keeps the invariant; one step of the proof per action. *)
LEMMA SurfaceStep == SurfaceInv /\ [Next]_vars => SurfaceInv'
<1> USE DEF SurfaceInv, TypeOK, NoFrozenDrag, BoxFull, InPlace, Animated,
            Leaving, Edges, Boxes, Opacities
<1> SUFFICES ASSUME SurfaceInv, [Next]_vars PROVE SurfaceInv'
  OBVIOUS
<1>1. ASSUME NEW a \in AppIds, LaunchUrl(a) PROVE SurfaceInv'
  <2>1. /\ calls' \in Seq({"expand", "animate"})
        /\ calls' # <<>>
        /\ WillExpand'
    BY <1>1, QueueLemma DEF LaunchUrl, WillExpand
  <2>2. Len(calls') <= MaxCalls
    BY <1>1 DEF LaunchUrl
  <2>p1. TypeOK'
    <3>1. active' \in BOOLEAN /\ loaded' \in AppIds \cup {NoApp} /\ (active' <=> loaded' # NoApp)
      BY <1>1 DEF LaunchUrl, timers
    <3>2. pages' \in 0 .. MaxPages
      BY <1>1 DEF LaunchUrl, timers
    <3>3. x' \in Edges /\ box' \in Boxes /\ opacity' \in Opacities
      BY <1>1 DEF LaunchUrl, timers
    <3>4. /\ asked' \in BOOLEAN /\ overlap' \in BOOLEAN
          /\ instant' \in BOOLEAN /\ draggingBack' \in BOOLEAN
          /\ closeTimer' \in BOOLEAN /\ backCloseTimer' \in BOOLEAN
          /\ backPressed' \in BOOLEAN /\ ccOpened' \in BOOLEAN
      BY <1>1 DEF LaunchUrl, timers
    <3> QED
      BY <3>1, <3>2, <3>3, <3>4, <2>1, <2>2
  <2>p2. NoFrozenDrag'
    BY <1>1, <2>1, <2>2 DEF LaunchUrl, timers
  <2>p3. BoxFull'
    BY <1>1, <2>1, <2>2 DEF LaunchUrl, timers
  <2>p4. InPlace'
    BY <1>1, <2>1, <2>2 DEF LaunchUrl, timers
  <2>p5. Animated'
    BY <1>1, <2>1, <2>2 DEF LaunchUrl, timers
  <2> HIDE DEF TypeOK, NoFrozenDrag, BoxFull, InPlace, Animated
  <2> QED
    BY <2>p1, <2>p2, <2>p3, <2>p4, <2>p5
<1>2. CASE CallLater
  <2>1. /\ calls' \in Seq({"expand", "animate"})
        /\ Len(calls') <= MaxCalls
    BY <1>2, QueueLemma DEF CallLater
  <2>2. WillExpand => Head(calls) = "expand" \/ WillExpand'
    BY <1>2, QueueLemma DEF CallLater, WillExpand
  <2>p1. TypeOK'
    <3>1. active' \in BOOLEAN /\ loaded' \in AppIds \cup {NoApp} /\ (active' <=> loaded' # NoApp)
      BY <1>2 DEF CallLater, timers, history
    <3>2. pages' \in 0 .. MaxPages
      BY <1>2 DEF CallLater, timers, history
    <3>3. x' \in Edges /\ box' \in Boxes /\ opacity' \in Opacities
      BY <1>2 DEF CallLater, timers, history
    <3>4. /\ asked' \in BOOLEAN /\ overlap' \in BOOLEAN
          /\ instant' \in BOOLEAN /\ draggingBack' \in BOOLEAN
          /\ closeTimer' \in BOOLEAN /\ backCloseTimer' \in BOOLEAN
          /\ backPressed' \in BOOLEAN /\ ccOpened' \in BOOLEAN
      BY <1>2 DEF CallLater, timers, history
    <3> QED
      BY <3>1, <3>2, <3>3, <3>4, <2>1
  <2>p2. NoFrozenDrag'
    BY <1>2, <2>1, <2>2 DEF CallLater, timers, history
  <2>p3. BoxFull'
    BY <1>2, <2>1, <2>2 DEF CallLater, timers, history
  <2>p4. InPlace'
    BY <1>2, <2>1, <2>2 DEF CallLater, timers, history
  <2>p5. Animated'
    BY <1>2, <2>1, <2>2 DEF CallLater, timers, history
  <2> HIDE DEF TypeOK, NoFrozenDrag, BoxFull, InPlace, Animated
  <2> QED
    BY <2>p1, <2>p2, <2>p3, <2>p4, <2>p5
<1>3. CASE OpenPage
  <2>1. /\ active' = active /\ loaded' = loaded /\ pages' = pages + 1
        /\ x' = x /\ box' = box /\ opacity' = opacity
        /\ instant' = instant /\ draggingBack' = draggingBack
        /\ closeTimer' = closeTimer /\ backCloseTimer' = backCloseTimer
        /\ calls' = calls /\ backPressed' = backPressed
        /\ ccOpened' = ccOpened /\ asked' = asked /\ overlap' = overlap
    BY <1>3 DEF OpenPage, timers, history
  <2>2. WillExpand' = WillExpand
    BY <2>1 DEF WillExpand
  <2>3. TypeOK'
    BY <1>3, <2>1 DEF OpenPage
  <2>4. NoFrozenDrag'
    BY <1>3, <2>1 DEF OpenPage
  <2>5. BoxFull'
    BY <1>3, <2>1, <2>2 DEF OpenPage
  <2>6. InPlace'
    BY <1>3, <2>1, <2>2 DEF OpenPage
  <2>7. Animated'
    BY <1>3, <2>1 DEF OpenPage
  <2> HIDE DEF TypeOK, NoFrozenDrag, BoxFull, InPlace, Animated
  <2> QED
    BY <2>3, <2>4, <2>5, <2>6, <2>7
<1>4. CASE GoHome
  <2>1. /\ active' = active /\ loaded' = loaded /\ pages' = pages
        /\ x' = "icon" /\ box' = "icon" /\ opacity' = "clear"
        /\ instant' = FALSE /\ draggingBack' = FALSE
        /\ closeTimer' = TRUE /\ backCloseTimer' = backCloseTimer
        /\ calls' = calls /\ backPressed' = backPressed
        /\ ccOpened' = FALSE /\ asked' = TRUE /\ overlap' = overlap
    BY <1>4 DEF GoHome
  <2>2. WillExpand' = WillExpand
    BY <2>1 DEF WillExpand
  <2>3. TypeOK'
    <3>1. /\ loaded' \in AppIds \cup {NoApp} /\ (active' <=> loaded' # NoApp)
          /\ pages' \in 0 .. MaxPages
          /\ calls' \in Seq({"expand", "animate"}) /\ Len(calls') <= MaxCalls
      BY <2>1
    <3>2. x' \in Edges /\ box' \in Boxes /\ opacity' \in Opacities
      BY <2>1
    <3>3. /\ active' \in BOOLEAN /\ instant' \in BOOLEAN /\ draggingBack' \in BOOLEAN
          /\ closeTimer' \in BOOLEAN /\ backCloseTimer' \in BOOLEAN
          /\ backPressed' \in BOOLEAN /\ ccOpened' \in BOOLEAN
          /\ asked' \in BOOLEAN /\ overlap' \in BOOLEAN
      BY <2>1
    <3> QED
      BY <3>1, <3>2, <3>3
  <2>4. NoFrozenDrag'
    BY <1>4, <2>1 DEF GoHome
  <2>5. BoxFull'
    BY <1>4, <2>1, <2>2 DEF GoHome
  <2>6. InPlace'
    BY <1>4, <2>1, <2>2 DEF GoHome
  <2>7. Animated'
    BY <1>4, <2>1 DEF GoHome
  <2> HIDE DEF TypeOK, NoFrozenDrag, BoxFull, InPlace, Animated
  <2> QED
    BY <2>3, <2>4, <2>5, <2>6, <2>7
<1>5. CASE BeginBack
  <2>1. /\ active' = active /\ loaded' = loaded /\ pages' = pages
        /\ x' = x /\ box' = box /\ opacity' = opacity /\ instant' = TRUE
        /\ draggingBack' = TRUE /\ closeTimer' = closeTimer
        /\ backCloseTimer' = backCloseTimer /\ calls' = calls
        /\ backPressed' = TRUE /\ ccOpened' = ccOpened /\ asked' = asked
        /\ overlap' = overlap
    BY <1>5 DEF BeginBack, timers, history
  <2>2. WillExpand' = WillExpand
    BY <2>1 DEF WillExpand
  <2>3. TypeOK'
    BY <1>5, <2>1 DEF BeginBack
  <2>4. NoFrozenDrag'
    BY <1>5, <2>1 DEF BeginBack
  <2>5. BoxFull'
    BY <1>5, <2>1, <2>2 DEF BeginBack
  <2>6. InPlace'
    BY <1>5, <2>1, <2>2 DEF BeginBack
  <2>7. Animated'
    BY <1>5, <2>1 DEF BeginBack
  <2> HIDE DEF TypeOK, NoFrozenDrag, BoxFull, InPlace, Animated
  <2> QED
    BY <2>3, <2>4, <2>5, <2>6, <2>7
<1>6. CASE UpdateBack
  <2>1. /\ active' = active /\ loaded' = loaded /\ pages' = pages
        /\ x' = "dragged" /\ box' = box /\ opacity' = "opaque"
        /\ instant' = instant /\ draggingBack' = draggingBack
        /\ closeTimer' = closeTimer /\ backCloseTimer' = backCloseTimer
        /\ calls' = calls /\ backPressed' = backPressed
        /\ ccOpened' = ccOpened /\ asked' = asked /\ overlap' = overlap
    BY <1>6 DEF UpdateBack, timers, history
  <2>2. WillExpand' = WillExpand
    BY <2>1 DEF WillExpand
  <2>3. TypeOK'
    BY <1>6, <2>1 DEF UpdateBack
  <2>4. NoFrozenDrag'
    BY <1>6, <2>1 DEF UpdateBack
  <2>5. BoxFull'
    BY <1>6, <2>1, <2>2 DEF UpdateBack
  <2>6. InPlace'
    BY <1>6, <2>1, <2>2 DEF UpdateBack
  <2>7. Animated'
    BY <1>6, <2>1 DEF UpdateBack
  <2> HIDE DEF TypeOK, NoFrozenDrag, BoxFull, InPlace, Animated
  <2> QED
    BY <2>3, <2>4, <2>5, <2>6, <2>7
<1>7. CASE FinishBackInternal
  <2>p1. TypeOK'
    <3>1. pages' \in 0 .. MaxPages
      <4>1. pages \in 0 .. MaxPages /\ pages > 0 /\ pages' = pages - 1
        BY <1>7 DEF FinishBackInternal
      <4> QED
        BY <4>1
    <3> QED
      BY <1>7, <3>1 DEF FinishBackInternal, BackToPlace, timers, history
  <2>p2. NoFrozenDrag'
    BY <1>7 DEF FinishBackInternal, BackToPlace, timers, history, WillExpand
  <2>p3. BoxFull'
    BY <1>7 DEF FinishBackInternal, BackToPlace, timers, history, WillExpand
  <2>p4. InPlace'
    BY <1>7 DEF FinishBackInternal, BackToPlace, timers, history, WillExpand
  <2>p5. Animated'
    BY <1>7 DEF FinishBackInternal, BackToPlace, timers, history, WillExpand
  <2> HIDE DEF TypeOK, NoFrozenDrag, BoxFull, InPlace, Animated
  <2> QED
    BY <2>p1, <2>p2, <2>p3, <2>p4, <2>p5
<1>8. CASE FinishBackRoot
  <2>1. /\ active' = active /\ loaded' = loaded /\ pages' = pages
        /\ x' = "aside" /\ box' = box /\ opacity' = "opaque"
        /\ instant' = FALSE /\ draggingBack' = FALSE
        /\ closeTimer' = closeTimer /\ backCloseTimer' = TRUE
        /\ calls' = calls /\ backPressed' = FALSE
        /\ ccOpened' = ccOpened /\ asked' = TRUE /\ overlap' = overlap
    BY <1>8 DEF FinishBackRoot
  <2>2. WillExpand' = WillExpand
    BY <2>1 DEF WillExpand
  <2>3. TypeOK'
    <3>1. /\ loaded' \in AppIds \cup {NoApp} /\ (active' <=> loaded' # NoApp)
          /\ pages' \in 0 .. MaxPages
          /\ calls' \in Seq({"expand", "animate"}) /\ Len(calls') <= MaxCalls
      BY <2>1
    <3>2. x' \in Edges /\ box' \in Boxes /\ opacity' \in Opacities
      BY <2>1
    <3>3. /\ active' \in BOOLEAN /\ instant' \in BOOLEAN /\ draggingBack' \in BOOLEAN
          /\ closeTimer' \in BOOLEAN /\ backCloseTimer' \in BOOLEAN
          /\ backPressed' \in BOOLEAN /\ ccOpened' \in BOOLEAN
          /\ asked' \in BOOLEAN /\ overlap' \in BOOLEAN
      BY <2>1
    <3> QED
      BY <3>1, <3>2, <3>3
  <2>4. NoFrozenDrag'
    BY <1>8, <2>1 DEF FinishBackRoot
  <2>5. BoxFull'
    BY <1>8, <2>1, <2>2 DEF FinishBackRoot
  <2>6. InPlace'
    BY <1>8, <2>1, <2>2 DEF FinishBackRoot
  <2>7. Animated'
    BY <1>8, <2>1 DEF FinishBackRoot
  <2> HIDE DEF TypeOK, NoFrozenDrag, BoxFull, InPlace, Animated
  <2> QED
    BY <2>3, <2>4, <2>5, <2>6, <2>7
<1>9. CASE FinishBackCancelled
  <2>1. /\ active' = active /\ loaded' = loaded /\ pages' = pages
        /\ x' = "zero" /\ box' = box /\ opacity' = "opaque"
        /\ instant' = FALSE /\ draggingBack' = FALSE
        /\ closeTimer' = closeTimer /\ backCloseTimer' = backCloseTimer
        /\ calls' = calls /\ backPressed' = FALSE
        /\ ccOpened' = ccOpened /\ asked' = asked /\ overlap' = overlap
    BY <1>9 DEF FinishBackCancelled, BackToPlace, timers, history
  <2>2. WillExpand' = WillExpand
    BY <2>1 DEF WillExpand
  <2>3. TypeOK'
    <3>1. /\ loaded' \in AppIds \cup {NoApp} /\ (active' <=> loaded' # NoApp)
          /\ pages' \in 0 .. MaxPages
          /\ calls' \in Seq({"expand", "animate"}) /\ Len(calls') <= MaxCalls
      BY <2>1
    <3>2. x' \in Edges /\ box' \in Boxes /\ opacity' \in Opacities
      BY <2>1
    <3>3. /\ active' \in BOOLEAN /\ instant' \in BOOLEAN /\ draggingBack' \in BOOLEAN
          /\ closeTimer' \in BOOLEAN /\ backCloseTimer' \in BOOLEAN
          /\ backPressed' \in BOOLEAN /\ ccOpened' \in BOOLEAN
          /\ asked' \in BOOLEAN /\ overlap' \in BOOLEAN
      BY <2>1
    <3> QED
      BY <3>1, <3>2, <3>3
  <2>4. NoFrozenDrag'
    BY <1>9, <2>1 DEF FinishBackCancelled
  <2>5. BoxFull'
    BY <1>9, <2>1, <2>2 DEF FinishBackCancelled
  <2>6. InPlace'
    BY <1>9, <2>1, <2>2 DEF FinishBackCancelled
  <2>7. Animated'
    BY <1>9, <2>1 DEF FinishBackCancelled
  <2> HIDE DEF TypeOK, NoFrozenDrag, BoxFull, InPlace, Animated
  <2> QED
    BY <2>3, <2>4, <2>5, <2>6, <2>7
<1>10. CASE OpenControlCenter
  <2>1. CASE backPressed /\ active
    <3>1. /\ active' = active /\ loaded' = loaded /\ pages' = pages
          /\ x' = "zero" /\ box' = box /\ opacity' = "opaque"
          /\ instant' = FALSE /\ draggingBack' = FALSE
          /\ closeTimer' = closeTimer /\ backCloseTimer' = backCloseTimer
          /\ calls' = calls /\ backPressed' = FALSE /\ ccOpened' = TRUE
          /\ asked' = asked /\ overlap' = overlap
      BY <1>10, <2>1 DEF OpenControlCenter, BackToPlace, timers, history
    <3>2. WillExpand' = WillExpand
      BY <3>1 DEF WillExpand
    <3>3. TypeOK'
      BY <1>10, <2>1, <3>1
    <3>4. NoFrozenDrag'
      BY <1>10, <2>1, <3>1
    <3>5. BoxFull'
      BY <1>10, <2>1, <3>1, <3>2
    <3>6. InPlace'
      BY <1>10, <2>1, <3>1, <3>2
    <3>7. Animated'
      BY <1>10, <2>1, <3>1
    <3> HIDE DEF TypeOK, NoFrozenDrag, BoxFull, InPlace, Animated
    <3> QED
      BY <3>3, <3>4, <3>5, <3>6, <3>7
  <2>2. CASE ~(backPressed /\ active)
    <3>1. /\ active' = active /\ loaded' = loaded /\ pages' = pages
          /\ x' = x /\ box' = box /\ opacity' = opacity
          /\ instant' = instant /\ draggingBack' = draggingBack
          /\ closeTimer' = closeTimer /\ backCloseTimer' = backCloseTimer
          /\ calls' = calls /\ backPressed' = FALSE /\ ccOpened' = TRUE
          /\ asked' = asked /\ overlap' = overlap
      BY <1>10, <2>2 DEF OpenControlCenter, timers, history
    <3>2. WillExpand' = WillExpand
      BY <3>1 DEF WillExpand
    <3>3. TypeOK'
      BY <2>2, <3>1
    <3>4. NoFrozenDrag'
      BY <2>2, <3>1
    <3>5. BoxFull'
      BY <2>2, <3>1, <3>2
    <3>6. InPlace'
      BY <2>2, <3>1, <3>2
    <3>7. Animated'
      BY <2>2, <3>1
    <3> HIDE DEF TypeOK, NoFrozenDrag, BoxFull, InPlace, Animated
    <3> QED
      BY <3>3, <3>4, <3>5, <3>6, <3>7
  <2> QED
    BY <2>1, <2>2
<1>11. CASE CloseControlCenter
  <2>1. /\ active' = active /\ loaded' = loaded /\ pages' = pages
        /\ x' = x /\ box' = box /\ opacity' = opacity
        /\ instant' = instant /\ draggingBack' = draggingBack
        /\ closeTimer' = closeTimer /\ backCloseTimer' = backCloseTimer
        /\ calls' = calls /\ backPressed' = backPressed
        /\ asked' = asked /\ overlap' = overlap
    BY <1>11 DEF CloseControlCenter, surface, timers, history
  <2>2. ccOpened' \in BOOLEAN
    BY <1>11 DEF CloseControlCenter
  <2>3. WillExpand' = WillExpand
    BY <2>1 DEF WillExpand
  <2>4. TypeOK'
    BY <2>1, <2>2
  <2> QED
    BY <2>1, <2>3, <2>4
<1>12. ASSUME FinishClose, closeTimer' \in BOOLEAN, backCloseTimer' \in BOOLEAN
       PROVE  SurfaceInv'
  <2>1. /\ calls' \in Seq({"expand", "animate"})
        /\ Len(calls') <= MaxCalls
    BY <1>12 DEF FinishClose
  <2>p1. TypeOK'
    <3>1. active' \in BOOLEAN /\ loaded' \in AppIds \cup {NoApp} /\ (active' <=> loaded' # NoApp)
      BY <1>12 DEF FinishClose, history
    <3>2. pages' \in 0 .. MaxPages
      BY <1>12 DEF FinishClose, history
    <3>3. x' \in Edges /\ box' \in Boxes /\ opacity' \in Opacities
      BY <1>12 DEF FinishClose, history
    <3>4. /\ asked' \in BOOLEAN /\ overlap' \in BOOLEAN
          /\ instant' \in BOOLEAN /\ draggingBack' \in BOOLEAN
          /\ closeTimer' \in BOOLEAN /\ backCloseTimer' \in BOOLEAN
          /\ backPressed' \in BOOLEAN /\ ccOpened' \in BOOLEAN
      BY <1>12 DEF FinishClose, history
    <3> QED
      BY <3>1, <3>2, <3>3, <3>4, <2>1
  <2>p2. NoFrozenDrag'
    BY <1>12, <2>1 DEF FinishClose, history
  <2>p3. BoxFull'
    BY <1>12, <2>1 DEF FinishClose, history
  <2>p4. InPlace'
    BY <1>12, <2>1 DEF FinishClose, history
  <2>p5. Animated'
    BY <1>12, <2>1 DEF FinishClose, history
  <2> HIDE DEF TypeOK, NoFrozenDrag, BoxFull, InPlace, Animated
  <2> QED
    BY <2>p1, <2>p2, <2>p3, <2>p4, <2>p5
<1>13. CASE CloseTimerFires
  BY <1>12, <1>13 DEF CloseTimerFires
<1>14. CASE BackCloseTimerFires
  BY <1>12, <1>14 DEF BackCloseTimerFires
<1>16. CASE GoToRoot
  <2>1. /\ active' = active /\ loaded' = loaded /\ pages' = 0
        /\ x' = x /\ box' = box /\ opacity' = opacity
        /\ instant' = instant /\ draggingBack' = draggingBack
        /\ closeTimer' = closeTimer /\ backCloseTimer' = backCloseTimer
        /\ calls' = calls /\ backPressed' = backPressed
        /\ ccOpened' = ccOpened /\ asked' = asked /\ overlap' = overlap
    BY <1>16 DEF GoToRoot, timers, history
  <2>2. WillExpand' = WillExpand
    BY <2>1 DEF WillExpand
  <2>3. TypeOK'
    BY <1>16, <2>1 DEF GoToRoot
  <2>4. NoFrozenDrag'
    BY <1>16, <2>1 DEF GoToRoot
  <2>5. BoxFull'
    BY <1>16, <2>1, <2>2 DEF GoToRoot
  <2>6. InPlace'
    BY <1>16, <2>1, <2>2 DEF GoToRoot
  <2>7. Animated'
    BY <1>16, <2>1 DEF GoToRoot
  <2> HIDE DEF TypeOK, NoFrozenDrag, BoxFull, InPlace, Animated
  <2> QED
    BY <2>3, <2>4, <2>5, <2>6, <2>7
<1>15. CASE UNCHANGED vars
  <2>1. /\ active' = active /\ loaded' = loaded /\ pages' = pages
        /\ x' = x /\ box' = box /\ opacity' = opacity
        /\ instant' = instant /\ draggingBack' = draggingBack
        /\ closeTimer' = closeTimer /\ backCloseTimer' = backCloseTimer
        /\ calls' = calls /\ backPressed' = backPressed
        /\ ccOpened' = ccOpened /\ asked' = asked /\ overlap' = overlap
    BY <1>15 DEF vars, surface, timers, history
  <2>2. WillExpand' = WillExpand
    BY <2>1 DEF WillExpand
  <2>3. TypeOK'
    BY <1>15, <2>1
  <2>4. NoFrozenDrag'
    BY <1>15, <2>1
  <2>5. BoxFull'
    BY <1>15, <2>1, <2>2
  <2>6. InPlace'
    BY <1>15, <2>1, <2>2
  <2>7. Animated'
    BY <1>15, <2>1
  <2> HIDE DEF TypeOK, NoFrozenDrag, BoxFull, InPlace, Animated
  <2> QED
    BY <2>3, <2>4, <2>5, <2>6, <2>7
<1> HIDE DEF SurfaceInv
<1> QED
  BY <1>1, <1>2, <1>3, <1>4, <1>5, <1>6, <1>7, <1>8, <1>9, <1>10, <1>11, <1>13,
     <1>14, <1>15, <1>16 DEF Next

(* The invariant holds throughout: the step the theorems below share. *)
THEOREM SurfaceInvHolds == Spec => []SurfaceInv
  BY SurfaceInit, SurfaceStep, PTL DEF Spec

(* AppSurface keeps `active' and the loader together, and its callLater    *)
(* queue holds nothing but the two functions of the code.                  *)
THEOREM SurfaceTyped == Spec => []TypeOK
<1>1. SurfaceInv => TypeOK
  BY DEF SurfaceInv
<1> QED
  BY <1>1, SurfaceInvHolds, PTL

(* A back swipe interrupted by a timer, the control center or a launch     *)
(* never leaves the visible application frozen in the drag.                *)
THEOREM DragsEnd == Spec => []NoFrozenDrag
<1>1. SurfaceInv => NoFrozenDrag
  BY DEF SurfaceInv
<1> QED
  BY <1>1, SurfaceInvHolds, PTL

(* With nothing pending, an active application fills the screen, whatever  *)
(* launches, swipes, timers and queued calls came before.                  *)
THEOREM ActiveFillsScreen == Spec => []ShownWhenSettled
<1>1. SurfaceInv => ShownWhenSettled
  <2> SUFFICES ASSUME SurfaceInv, Settled, active
               PROVE  x = "zero" /\ box = "full" /\ opacity = "opaque" /\ ~instant
    BY DEF ShownWhenSettled
  <2>1. ~WillExpand
    BY DEF Settled, WillExpand
  <2> QED
    BY <2>1 DEF SurfaceInv, BoxFull, InPlace, Animated, Leaving, Settled
<1> QED
  BY <1>1, SurfaceInvHolds, PTL

(* A close that is pending was asked for since the last launch, or was     *)
(* pending then.                                                           *)
CloseAsked == active /\ Leaving => asked \/ overlap

LEMMA CloseAskedStep == SurfaceInv /\ CloseAsked /\ [Next]_vars => CloseAsked'
<1> SUFFICES ASSUME SurfaceInv, CloseAsked, [Next]_vars PROVE CloseAsked'
  OBVIOUS
<1> USE DEF CloseAsked, Leaving
<1>1. ASSUME NEW a \in AppIds, LaunchUrl(a) PROVE CloseAsked'
  BY <1>1 DEF LaunchUrl, timers
<1>2. CASE CallLater \/ OpenPage \/ GoToRoot
  BY <1>2 DEF CallLater, OpenPage, GoToRoot, timers, history
<1>3. CASE GoHome
  BY <1>3 DEF GoHome
<1>4. CASE BeginBack \/ UpdateBack
  BY <1>4 DEF BeginBack, UpdateBack, timers, history
<1>5. CASE FinishBackInternal \/ FinishBackCancelled
  BY <1>5 DEF FinishBackInternal, FinishBackCancelled, timers, history
<1>6. CASE FinishBackRoot
  BY <1>6 DEF FinishBackRoot
<1>7. CASE OpenControlCenter \/ CloseControlCenter
  BY <1>7 DEF OpenControlCenter, CloseControlCenter, surface, timers, history
<1>8. CASE CloseTimerFires \/ BackCloseTimerFires
  BY <1>8 DEF CloseTimerFires, BackCloseTimerFires, FinishClose
<1>9. CASE UNCHANGED vars
  BY <1>9 DEF vars, surface, timers, history
<1> QED
  BY <1>1, <1>2, <1>3, <1>4, <1>5, <1>6, <1>7, <1>8, <1>9 DEF Next

(* An application launched while no close was pending is closed only after *)
(* the user asked for it.                                                  *)
THEOREM ClosedOnRequest == Spec => ClosedOnlyWhenAsked
<1>1. Init => CloseAsked
  BY DEF Init, CloseAsked
<1>2. CloseAsked /\ [Next]_vars => [active /\ ~active' => asked \/ overlap]_vars
  <2> SUFFICES ASSUME CloseAsked, Next, active, ~active' PROVE asked \/ overlap
    OBVIOUS
  <2>1. CloseTimerFires \/ BackCloseTimerFires
    BY DEF Next, LaunchUrl, CallLater, OpenPage, GoToRoot, GoHome, BeginBack,
           UpdateBack, FinishBackInternal, FinishBackRoot, FinishBackCancelled,
           OpenControlCenter, CloseControlCenter, surface
  <2> QED
    BY <2>1 DEF CloseTimerFires, BackCloseTimerFires, CloseAsked, Leaving
<1> QED
  BY <1>1, <1>2, CloseAskedStep, SurfaceInvHolds, PTL DEF Spec, ClosedOnlyWhenAsked

-----------------------------------------------------------------------------
(* Once asked for, the close of an application is pending until it is      *)
(* carried out: no gesture, queued function or control center stops the    *)
(* timer.                                                                  *)
ClosePending == asked /\ active => Leaving

LEMMA ClosePendingStep == SurfaceInv /\ ClosePending /\ [Next]_vars => ClosePending'
<1> SUFFICES ASSUME SurfaceInv, ClosePending, [Next]_vars PROVE ClosePending'
  OBVIOUS
<1> USE DEF ClosePending, Leaving
<1>1. ASSUME NEW a \in AppIds, LaunchUrl(a) PROVE ClosePending'
  BY <1>1 DEF LaunchUrl
<1>2. CASE CallLater \/ OpenPage \/ GoToRoot
  BY <1>2 DEF CallLater, OpenPage, GoToRoot, timers, history
<1>3. CASE GoHome
  BY <1>3 DEF GoHome
<1>4. CASE BeginBack \/ UpdateBack
  BY <1>4 DEF BeginBack, UpdateBack, timers, history
<1>5. CASE FinishBackInternal \/ FinishBackCancelled
  BY <1>5 DEF FinishBackInternal, FinishBackCancelled, timers, history
<1>6. CASE FinishBackRoot
  BY <1>6 DEF FinishBackRoot
<1>7. CASE OpenControlCenter \/ CloseControlCenter
  BY <1>7 DEF OpenControlCenter, CloseControlCenter, surface, timers, history
<1>8. CASE CloseTimerFires \/ BackCloseTimerFires
  BY <1>8 DEF CloseTimerFires, BackCloseTimerFires, FinishClose
<1>9. CASE UNCHANGED vars
  BY <1>9 DEF vars, surface, timers, history
<1> QED
  BY <1>1, <1>2, <1>3, <1>4, <1>5, <1>6, <1>7, <1>8, <1>9 DEF Next

(* What a request to leave has come to: one of the two timers runs, and    *)
(* there is room in the queue for the function of finishClose().           *)
Asked == asked /\ active
Room == Len(calls) < MaxCalls

(* Until the application is closed or another is launched, a timer goes on *)
(* running, and the queue only gets shorter.                               *)
LEMMA AskedStep ==
    ASSUME SurfaceInv, [Next]_vars, Asked, Asked'
    PROVE  /\ closeTimer => closeTimer'
           /\ backCloseTimer => backCloseTimer'
           /\ Room => Room'
<1> USE DEF Asked, Room
<1>0. calls \in Seq({"expand", "animate"}) /\ active \in BOOLEAN /\ asked \in BOOLEAN
  BY DEF SurfaceInv, TypeOK
<1>1. ASSUME NEW a \in AppIds, LaunchUrl(a) PROVE FALSE
  BY <1>1 DEF LaunchUrl
<1>2. CASE CallLater
  <2>1. calls # <<>> /\ calls' = Tail(calls) /\ UNCHANGED timers
    BY <1>2 DEF CallLater
  <2>2. Len(Tail(calls)) = Len(calls) - 1 /\ Len(calls) \in Nat
    BY <1>0, <2>1
  <2> QED BY <2>1, <2>2, SurfaceAssumption DEF timers
<1>3. CASE OpenPage \/ GoToRoot
  BY <1>3 DEF OpenPage, GoToRoot, timers
<1>4. CASE GoHome
  BY <1>4 DEF GoHome
<1>5. CASE BeginBack \/ UpdateBack
  BY <1>5 DEF BeginBack, UpdateBack, timers
<1>6. CASE FinishBackInternal \/ FinishBackCancelled
  BY <1>6 DEF FinishBackInternal, FinishBackCancelled, timers
<1>7. CASE FinishBackRoot
  BY <1>7 DEF FinishBackRoot
<1>8. CASE OpenControlCenter \/ CloseControlCenter
  BY <1>8 DEF OpenControlCenter, CloseControlCenter, timers
<1>9. CASE CloseTimerFires \/ BackCloseTimerFires
  BY <1>9 DEF CloseTimerFires, BackCloseTimerFires, FinishClose
<1>10. CASE UNCHANGED vars
  BY <1>10 DEF vars, timers
<1> QED
  BY <1>1, <1>2, <1>3, <1>4, <1>5, <1>6, <1>7, <1>8, <1>9, <1>10 DEF Next

(* What the prover cannot see of an action, that it can be taken when its  *)
(* guard holds: each of the three assigns every variable and changes one.  *)
EventLoopEnabled ==
    /\ calls # <<>> => ENABLED <<CallLater>>_vars
    /\ closeTimer /\ Room => ENABLED <<CloseTimerFires>>_vars
    /\ backCloseTimer /\ Room => ENABLED <<BackCloseTimerFires>>_vars

(* Home and Back at the root reach Home, for any bound on the queue: the   *)
(* close stays pending, a full queue is emptied by the event loop, and the *)
(* timer then fires, unless another launch takes the surface over.         *)
THEOREM HomeIsReached == Spec /\ []EventLoopEnabled => HomeReached
<1>1. Init => ClosePending
  BY DEF Init, ClosePending
<1>2. SurfaceInv /\ ClosePending /\ Asked => closeTimer \/ backCloseTimer
  BY DEF ClosePending, Asked, Leaving
<1>3. SurfaceInv /\ Asked /\ [Next]_vars =>
          \/ ~Asked'
          \/ /\ closeTimer => closeTimer'
             /\ backCloseTimer => backCloseTimer'
             /\ Room => Room'
  BY AskedStep
<1>4. <<CloseTimerFires>>_vars \/ <<BackCloseTimerFires>>_vars => ~Asked'
  BY DEF CloseTimerFires, BackCloseTimerFires, FinishClose, Asked
<1>5. SurfaceInv /\ ~Room => calls # <<>>
  BY SurfaceAssumption DEF Room, SurfaceInv, TypeOK
<1>6. SurfaceInv /\ <<CallLater>>_vars => Room'
  <2> SUFFICES ASSUME SurfaceInv, CallLater PROVE Room'
    OBVIOUS
  <2>1. /\ calls \in Seq({"expand", "animate"}) /\ Len(calls) <= MaxCalls
        /\ calls # <<>> /\ calls' = Tail(calls)
    BY DEF SurfaceInv, TypeOK, CallLater
  <2>2. Len(Tail(calls)) = Len(calls) - 1 /\ Len(calls) \in Nat
    BY <2>1
  <2> QED BY <2>1, <2>2, SurfaceAssumption DEF Room
<1>7. SurfaceInv => (Asked <=> asked /\ active) /\ (~Asked <=> ~active \/ ~asked)
  BY DEF SurfaceInv, TypeOK, Asked
<1> QED
  BY <1>1, <1>2, <1>3, <1>4, <1>5, <1>6, <1>7, SurfaceInvHolds, ClosePendingStep, PTL
  DEF Spec, Fairness, EventLoopEnabled, HomeReached

-----------------------------------------------------------------------------
(* Calls and messages.  The four invariants are inductive together.        *)
TelInv == TelTypeOK /\ EndButtonHasCall /\ LiveCallsCanBeEnded /\ EachMessageOnce

(* No page, no call and no message at first. *)
LEMMA TelInitInv == TelInit => TelInv
<1> SUFFICES ASSUME TelInit PROVE TelInv
  OBVIOUS
<1>1. TelTypeOK
  <2>1. 0 \in 0 .. MaxSends
    BY TelephonyAssumption
  <2> QED
    BY <2>1 DEF TelInit, TelTypeOK, CallStates
<1> QED
  BY <1>1 DEF TelInit, TelInv, EndButtonHasCall, LiveCallsCanBeEnded, EachMessageOnce

(* A page that goes takes its state along; its live call is lost.          *)
LEMMA PageStepsInv == TelInv /\ PageSteps => TelInv'
<1> SUFFICES ASSUME TelInv, PageGone PROVE TelInv'
  BY DEF PageSteps
<1> USE DEF TelInv, PageGone
<1>1. TelTypeOK'
  <2>1. 0 \in 0 .. MaxSends
    BY TelephonyAssumption
  <2>2. {c \in {m_activeCall} : calling} \subseteq CallIds
    BY DEF EndButtonHasCall
  <2> QED
    BY <2>1, <2>2 DEF TelTypeOK
<1>2. EndButtonHasCall'
  BY DEF EndButtonHasCall
<1>3. LiveCallsCanBeEnded'
  BY DEF LiveCallsCanBeEnded
<1>4. EachMessageOnce'
  BY DEF EachMessageOnce
<1> QED
  BY <1>1, <1>2, <1>3, <1>4

(* The other steps of the surface keep the page that is loaded. *)
LEMMA SurfaceStepsInv == TelInv /\ SurfaceSteps => TelInv'
<1> SUFFICES ASSUME TelInv, SurfaceSteps PROVE TelInv'
  OBVIOUS
<1>1. loaded' = loaded
  BY DEF SurfaceSteps, CallLater, OpenOtherPage, OpenPage, GoToRoot, GoHome, BeginBack,
         UpdateBack, FinishBackInternal, FinishBackRoot, FinishBackCancelled,
         OpenControlCenter, CloseControlCenter, surface
<1>2. UNCHANGED <<phoneVars, smsVars>>
  BY DEF SurfaceSteps
<1> QED
  BY <1>1, <1>2 DEF TelInv, TelTypeOK, EndButtonHasCall, LiveCallsCanBeEnded,
                    EachMessageOnce, phoneVars, smsVars

(* Dialling: the new call is the active one, and the old ones were lost.   *)
LEMMA DialInv ==
    ASSUME TelInv, NEW c \in CallIds, Dial(c), UNCHANGED <<vars, smsVars>>
    PROVE  TelInv'
<1>0. loaded' = loaded /\ loaded = Phone
  BY DEF vars, surface, Dial, Touchable
<1>1. PICK how \in {"started", "failed", "killed"}, s \in CallStates :
        /\ call' = [call EXCEPT ![c] = s]
        /\ calling' = (how = "started")
        /\ lost' = IF how = "killed" THEN lost \cup {c} ELSE lost
        /\ how = "started" => s = "live"
        /\ how = "failed" => s = "made"
  BY DEF Dial, CallStates
<1>2. /\ call \in [CallIds -> CallStates] /\ lost \in SUBSET CallIds
      /\ m_activeCall' = c /\ ~calling
  BY DEF TelInv, TelTypeOK, Dial
<1>3. TelTypeOK'
  <2>1. call' \in [CallIds -> CallStates] /\ lost' \in SUBSET CallIds
    BY <1>1, <1>2
  <2> QED
    BY <2>1, <1>0, <1>1, <1>2 DEF TelInv, TelTypeOK, smsVars
<1>4. EndButtonHasCall'
  BY <1>1, <1>2 DEF EndButtonHasCall
<1>5. LiveCallsCanBeEnded'
  <2>1. \A d \in CallIds : call[d] = "live" => d \in lost
    BY <1>2 DEF TelInv, LiveCallsCanBeEnded
  <2>2. \A d \in CallIds : call'[d] = (IF d = c THEN s ELSE call[d])
    BY <1>1, <1>2
  <2>3. how = "failed" => s # "live"
    BY <1>1
  <2> QED
    BY <2>1, <2>2, <2>3, <1>1, <1>2 DEF LiveCallsCanBeEnded
<1>6. EachMessageOnce'
  BY DEF TelInv, EachMessageOnce, smsVars
<1> QED
  BY <1>3, <1>4, <1>5, <1>6 DEF TelInv

(* The other steps of calls: the End button keeps its call. *)
LEMMA PhoneStepsInv == TelInv /\ PhoneSteps => TelInv'
<1> SUFFICES ASSUME TelInv, PhoneSteps PROVE TelInv'
  OBVIOUS
<1>0. /\ UNCHANGED <<vars, smsVars>>
      /\ loaded' = loaded
  BY DEF PhoneSteps, vars, surface
<1>t. /\ call \in [CallIds -> CallStates]
      /\ m_activeCall \in CallIds \cup {NoCall}
  BY DEF TelInv, TelTypeOK
<1>s. EachMessageOnce'
  BY <1>0 DEF TelInv, EachMessageOnce, smsVars
<1>1. ASSUME DialRefused PROVE TelInv'
  <2>1. /\ call' \in [CallIds -> CallStates]
        /\ \A d \in CallIds : call'[d] = "live" => call[d] = "live"
        /\ ~calling
    BY <1>1, <1>t DEF DialRefused, CallStates
  <2>2. TelTypeOK'
    BY <1>0, <1>1, <2>1 DEF DialRefused, TelInv, TelTypeOK, smsVars
  <2>3. EndButtonHasCall'
    BY <1>1, <2>1 DEF DialRefused, EndButtonHasCall
  <2>4. LiveCallsCanBeEnded'
    BY <1>1, <2>1 DEF DialRefused, TelInv, LiveCallsCanBeEnded
  <2> QED
    BY <1>s, <2>2, <2>3, <2>4 DEF TelInv
<1>2. ASSUME NEW c \in CallIds, Dial(c) PROVE TelInv'
  BY <1>0, <1>2, DialInv
<1>3. ASSUME HangUpCall PROVE TelInv'
  <2>1. /\ m_activeCall \in CallIds
        /\ call' \in [CallIds -> CallStates]
        /\ \A d \in CallIds : call'[d] = "live" => d # m_activeCall /\ call[d] = "live"
    BY <1>3, <1>t DEF HangUpCall, CallStates
  <2>2. TelTypeOK'
    BY <1>0, <1>3, <2>1 DEF HangUpCall, TelInv, TelTypeOK, smsVars
  <2>3. EndButtonHasCall'
    BY <1>3 DEF HangUpCall, EndButtonHasCall
  <2>4. LiveCallsCanBeEnded'
    BY <1>3, <2>1 DEF HangUpCall, TelInv, LiveCallsCanBeEnded
  <2> QED
    BY <1>s, <2>2, <2>3, <2>4 DEF TelInv
<1>4. ASSUME \/ HangUpFails
             \/ \E c \in CallIds : RemoteEnds(c)
      PROVE  TelInv'
  <2>0. UNCHANGED <<m_activeCall, calling, lost>>
    BY <1>4 DEF HangUpFails, RemoteEnds
  <2>1. call' = call \/ \E d \in CallIds :
            call' = [call EXCEPT ![d] = "over"] /\ call[d] \in {"live", "over"}
    BY <1>4, <1>t DEF HangUpFails, RemoteEnds, TelInv, EndButtonHasCall
  <2>2. /\ call' \in [CallIds -> CallStates]
        /\ \A d \in CallIds : call'[d] = "live" => call[d] = "live"
        /\ \A d \in CallIds : call[d] \in {"live", "over"} => call'[d] \in {"live", "over"}
    BY <2>1, <1>t DEF CallStates
  <2>3. TelTypeOK'
    BY <1>0, <2>0, <2>2 DEF TelInv, TelTypeOK, smsVars
  <2>4. EndButtonHasCall'
    BY <2>0, <2>2 DEF TelInv, EndButtonHasCall
  <2>5. LiveCallsCanBeEnded'
    BY <2>0, <2>2 DEF TelInv, LiveCallsCanBeEnded
  <2> QED
    BY <1>s, <2>3, <2>4, <2>5 DEF TelInv
<1> QED
  BY <1>1, <1>2, <1>3, <1>4 DEF PhoneSteps

(* Messages: the text leaves the field with the send that succeeds. *)
LEMMA SmsStepsInv == TelInv /\ SmsSteps => TelInv'
<1> SUFFICES ASSUME TelInv, SmsSteps PROVE TelInv'
  OBVIOUS
<1>0. UNCHANGED phoneVars /\ loaded' = loaded
  BY DEF SmsSteps, vars, surface
<1>1. EndButtonHasCall' /\ LiveCallsCanBeEnded'
  BY <1>0 DEF TelInv, EndButtonHasCall, LiveCallsCanBeEnded, phoneVars
<1>2. TelTypeOK'
  <2>0. /\ draft \in BOOLEAN /\ (draft => wrote) /\ wrote \in BOOLEAN
        /\ unsure \in BOOLEAN /\ delivered \in 0 .. MaxSends
        /\ (wrote => loaded = Messages)
    BY DEF TelInv, TelTypeOK
  <2>1. /\ draft' \in BOOLEAN /\ (draft' => wrote')
        /\ wrote' \in BOOLEAN /\ (wrote' => loaded = Messages)
    <3>1. ASSUME NEW text \in BOOLEAN, EditMessage(text)
          PROVE  /\ draft' \in BOOLEAN /\ (draft' => wrote')
                 /\ wrote' \in BOOLEAN /\ (wrote' => loaded = Messages)
      <4>1. draft' = text /\ wrote' = text /\ loaded = Messages
        BY <3>1 DEF EditMessage, Touchable
      <4> QED
        BY <4>1
    <3>2. CASE SendSms \/ SendSmsFails
      <4>1. wrote' = wrote
        BY <3>2 DEF SendSms, SendSmsFails
      <4>2. draft' = FALSE \/ draft' = draft
        BY <3>2 DEF SendSms, SendSmsFails
      <4>3. CASE draft' = FALSE
        BY <2>0, <4>1, <4>3
      <4>4. CASE draft' = draft
        BY <2>0, <4>1, <4>4
      <4> QED
        BY <4>2, <4>3, <4>4
    <3> QED
      BY <3>1, <3>2 DEF SmsSteps
  <2>3. unsure' \in BOOLEAN
    BY <2>0 DEF SmsSteps, EditMessage, SendSms, SendSmsFails
  <2>2. delivered' \in 0 .. MaxSends
    BY <2>0, TelephonyAssumption DEF SmsSteps, EditMessage, SendSms, SendSmsFails
  <2> QED
    BY <1>0, <2>1, <2>2, <2>3 DEF TelInv, TelTypeOK, phoneVars
<1>3. EachMessageOnce'
  BY DEF SmsSteps, EditMessage, SendSms, SendSmsFails, TelInv, TelTypeOK, EachMessageOnce
<1> QED
  BY <1>1, <1>2, <1>3 DEF TelInv

(* The invariant of calls and messages holds throughout. *)
THEOREM TelInvHolds == TelSpec => []TelInv
<1>1. TelInv /\ [TelNext]_telVars => TelInv'
  <2> SUFFICES ASSUME TelInv, [TelNext]_telVars PROVE TelInv'
    OBVIOUS
  <2>1. CASE UNCHANGED telVars
    BY <2>1 DEF telVars, vars, surface, phoneVars, smsVars, TelInv, TelTypeOK,
                EndButtonHasCall, LiveCallsCanBeEnded, EachMessageOnce
  <2> QED
    BY <2>1, PageStepsInv, SurfaceStepsInv, PhoneStepsInv, SmsStepsInv DEF TelNext
<1> QED
  BY <1>1, TelInitInv, PTL DEF TelSpec

(* With calls and messages on its pages the window manager is what it was: *)
(* every step is one of its own or leaves it alone, so that its theorems   *)
(* hold here too.                                                          *)
THEOREM TelephonyKeepsSurface == TelSpec => Spec
<1>1. TelInit => Init
  BY DEF TelInit
<1>2. [TelNext]_telVars => [Next]_vars
  <2> SUFFICES ASSUME [TelNext]_telVars PROVE [Next]_vars
    OBVIOUS
  <2>1. CASE PageSteps
    BY <2>1 DEF PageSteps, Next
  <2>2. CASE SurfaceSteps
    BY <2>2 DEF SurfaceSteps, OpenOtherPage, Next
  <2> QED
    BY <2>1, <2>2 DEF TelNext, PhoneSteps, SmsSteps, telVars
<1> QED
  BY <1>1, <1>2, PTL DEF TelSpec, Spec

(* Home is reached with the two pages in the surface, too: neither calls   *)
(* nor messages hold a timer back.                                         *)
THEOREM HomeIsReachedWithPages == TelSpec /\ []EventLoopEnabled => HomeReached
  BY HomeIsReached, TelephonyKeepsSurface, PTL

(* For any number of calls, in any order of dialling, failures, launches   *)
(* and closing timers, the End button names a call that was started.       *)
THEOREM EndButtonAlwaysHasCall == TelSpec => []EndButtonHasCall
<1>1. TelInv => EndButtonHasCall
  BY DEF TelInv
<1> QED
  BY <1>1, TelInvHolds, PTL

(* A live call is the page's, unless its page was left or its start killed. *)
THEOREM NoOtherLiveCall == TelSpec => []LiveCallsCanBeEnded
<1>1. TelInv => LiveCallsCanBeEnded
  BY DEF TelInv
<1> QED
  BY <1>1, TelInvHolds, PTL

(* A text is emptied from the field by the send that delivers it, and by   *)
(* no other answer.                                                        *)
THEOREM MessagesSentOnce == TelSpec => []EachMessageOnce
<1>1. TelInv => EachMessageOnce
  BY DEF TelInv
<1> QED
  BY <1>1, TelInvHolds, PTL
=============================================================================
