----------------------------- MODULE RequestReply -----------------------------
(***************************************************************************)
(* What the IPC of the framework and of LMS promises each caller: a        *)
(* request that was sent is over sooner or later, and at most one response *)
(* was sent to it.  Whether there is one is not promised: the service may  *)
(* go away.                                                                *)
(***************************************************************************)
EXTENDS Naturals

CONSTANT Callers

VARIABLES
    waiting,   \* the callers that have sent a request and wait
    responses  \* how many responses were sent to the caller's last request

vars == <<waiting, responses>>

Init ==
    /\ waiting = {}
    /\ responses = [c \in Callers |-> 0]

Request(c) ==
    /\ c \notin waiting
    /\ waiting' = waiting \cup {c}
    /\ responses' = [responses EXCEPT ![c] = 0]

(* The service answers, to a caller that still waits or has hung up. *)
Answer(c) ==
    /\ responses[c] = 0
    /\ responses' = [responses EXCEPT ![c] = 1]
    /\ waiting' = waiting \ {c}

(* Callers hang up, or lose the service: one that stops takes all along. *)
GiveUp(S) ==
    /\ waiting' = waiting \ S
    /\ UNCHANGED responses

(* The machine restarts. *)
Restart ==
    /\ waiting' = {}
    /\ responses' = [c \in Callers |-> 0]

Next ==
    \/ \E c \in Callers : Request(c) \/ Answer(c)
    \/ \E S \in SUBSET Callers : GiveUp(S)
    \/ Restart

(* Nobody waits for ever. *)
Heard == \A c \in Callers : (c \in waiting) ~> (c \notin waiting)

Spec == Init /\ [][Next]_vars /\ Heard
===============================================================================
