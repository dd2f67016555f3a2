------------------------------- MODULE Services -------------------------------
(***************************************************************************)
(* The two system services and their callers: lumad (Luma Framework) and   *)
(* lmsd (LMS), each a single thread that accepts, reads, answers and       *)
(* closes one connection after the other on a SOCK_SEQPACKET socket.  lmsd *)
(* is also a caller of lumad: it pings it before it opens its own socket,  *)
(* and inside every HEALTH request.                                        *)
(*                                                                         *)
(* The kernel's part: connect() succeeds once listen() was called, while   *)
(* the backlog has room, for a caller the mode of the socket file admits;  *)
(* a connection made survives until its side is closed, by close() or by   *)
(* the end of the process; what was sent can be received after the sender  *)
(* has gone; accept(), recv() and usleep() are not ended by a handler that *)
(* signal() installed (SA_RESTART), but accept() may fail for want of      *)
(* descriptors or memory, and a service then leaves its loop in good order *)
(* although nobody asked it to.                                            *)
(* A service is started again only when its last process is gone.          *)
(***************************************************************************)
EXTENDS Integers, Sequences, FiniteSets

CONSTANTS
    Apps,        \* the programs that use the SDK, lumactl or lmsctl
    Lumad, Lmsd, \* the two services
    Admitted,    \* the programs that may open each socket: root the one of
                 \* lumad (mode 0600), root and its group that of lmsd (0660)
    Backlog,     \* connections that wait for accept(), 32 in the code
    Attempts,    \* lmsd's pings before it gives up, 50 in the code
    Nobody       \* no connection is being served

Daemons == {Lumad, Lmsd}
Callers == Apps \cup {Lmsd}   \* lmsd calls lumad

(* What a request asks for.  "power" is SHUTDOWN or REBOOT; "refused" is   *)
(* one of the two in a message that request_valid() rejects (built for     *)
(* another ABI, say; client_is_privileged() refuses nobody, as only root   *)
(* gets so far); every other request, unknown commands and malformed       *)
(* messages included, is a "query".                                        *)
LumadKinds == {"query", "power", "refused"}
LmsdKinds == {"query", "health"}
Kinds(d) == IF d = Lumad THEN LumadKinds ELSE LmsdKinds

(* A connection: who made it, and what it asks for. *)
Conns == [by : Callers, kind : LumadKinds \cup LmsdKinds]

ASSUME ServicesAssumption ==
    /\ Lumad # Lmsd
    /\ Daemons \cap Apps = {}
    /\ Admitted \in [Daemons -> SUBSET Apps]
    /\ Nobody \notin Conns
    /\ Backlog \in Nat \ {0}
    /\ Attempts \in Nat \ {0}

VARIABLES
    pc,       \* where each service is in its main()
    stop,     \* running = 0: SIGTERM was handled
    path,     \* the socket file: none, stale (nobody listens), live
    ready,    \* the ready file exists
    queue,    \* connections that wait for accept(): caller and kind
    peer,     \* the connection being served, or Nobody
    attempts, \* pings lmsd may still try before it gives up
    phase,    \* the callers' connections
    sends,    \* history: responses sent to the caller's last request
    late      \* history: connections accepted since SIGTERM

daemonVars == <<pc, stop, path, ready, attempts, late>>
callerVars == <<phase, sends>>
vars == <<daemonVars, queue, peer, callerVars>>

(* main() is before its loop, in it, or behind it. *)
Starting == {"starting", "pinging", "pingSend", "pingRecv"}
Looping == {"accept", "recv", "reply", "power"}
Stopping == {"stopping", "unlinked"}
PCs == {"down"} \cup Starting \cup Looping \cup Stopping

(* A connection seen from the caller: open, request sent, and over again   *)
(* as soon as recv() returns; lmsd's own waits to be told "answered" or    *)
(* "lost".  "leftOpen" and "leftSent": the caller has closed its side, and *)
(* the service has not seen it yet.                                        *)
Phases == {"idle", "open", "sent", "answered", "lost", "leftOpen", "leftSent"}

-----------------------------------------------------------------------------
(* How a conversation ends for the caller c. *)
Over(c, how) == IF c = Lmsd THEN how ELSE "idle"

(* The service closes its side of the connections of S. *)
Close(S) ==
    [c \in Callers |->
        IF c \notin S THEN phase[c]
        ELSE CASE phase[c] \in {"open", "sent"} -> Over(c, "lost")
               [] phase[c] \in {"leftOpen", "leftSent"} -> "idle"
               [] OTHER -> phase[c]]

(* The caller closes its side. *)
HangUp(p) ==
    CASE p = "open" -> "leftOpen"
      [] p = "sent" -> "leftSent"
      [] p \in {"answered", "lost"} -> "idle"
      [] OTHER -> p

Waiting(d) == {queue[d][i].by : i \in DOMAIN queue[d]}
Served(d) == IF peer[d] = Nobody THEN {} ELSE {peer[d].by}
Held(d) == Waiting(d) \cup Served(d)

(* Fault: while (1). *)
NextTurn_Forever(d) == "accept"

(* The test of while (running). *)
NextTurn(d) == IF stop[d] THEN "stopping" ELSE "accept"

Init ==
    /\ pc = [d \in Daemons |-> "down"]
    /\ stop = [d \in Daemons |-> FALSE]
    /\ path = [d \in Daemons |-> "none"]
    /\ ready = [d \in Daemons |-> FALSE]
    /\ queue = [d \in Daemons |-> <<>>]
    /\ peer = [d \in Daemons |-> Nobody]
    /\ attempts = Attempts
    /\ phase = [c \in Callers |-> "idle"]
    /\ sends = [c \in Callers |-> 0]
    /\ late = [d \in Daemons |-> 0]

-----------------------------------------------------------------------------
(* The callers: SDK, lumactl, lmsctl.  A program that calls again while    *)
(* its last connection is still held, in reboot(), counts as another one.  *)
Connect(c, d, k) ==
    /\ phase[c] = "idle"
    /\ \A e \in Daemons : c \notin Held(e)
    /\ c \in Admitted[d]
    /\ path[d] = "live"
    /\ Len(queue[d]) < Backlog
    /\ k \in Kinds(d)
    /\ queue' = [queue EXCEPT ![d] = Append(@, [by |-> c, kind |-> k])]
    /\ phase' = [phase EXCEPT ![c] = "open"]
    /\ UNCHANGED <<daemonVars, peer, sends>>

Send(c) ==
    /\ phase[c] = "open"
    /\ phase' = [phase EXCEPT ![c] = "sent"]
    /\ sends' = [sends EXCEPT ![c] = 0]
    /\ UNCHANGED <<daemonVars, queue, peer>>

(* The program exits or is killed with a connection open, for instance by  *)
(* the timeout of SystemBackend::run().                                    *)
Leave(c) ==
    /\ phase[c] \in {"open", "sent"}
    /\ phase' = [phase EXCEPT ![c] = HangUp(@)]
    /\ UNCHANGED <<daemonVars, queue, peer, sends>>

-----------------------------------------------------------------------------
(* Fault: lumad leaves the ready file of the last process in place. *)
Start_KeepsReady(d) ==
    /\ pc[d] = "down"
    /\ pc' = [pc EXCEPT ![d] = IF d = Lumad THEN "starting" ELSE "pinging"]
    /\ stop' = [stop EXCEPT ![d] = FALSE]
    /\ late' = [late EXCEPT ![d] = 0]
    /\ IF d = Lumad
       THEN path' = [path EXCEPT ![d] = "none"] /\ UNCHANGED attempts
       ELSE attempts' = Attempts /\ UNCHANGED path
    /\ UNCHANGED <<ready, queue, peer, callerVars>>

(* A new process.  lumad unlinks what the last one left, lmsd pings first. *)
Start(d) ==
    /\ pc[d] = "down"
    /\ pc' = [pc EXCEPT ![d] = IF d = Lumad THEN "starting" ELSE "pinging"]
    /\ stop' = [stop EXCEPT ![d] = FALSE]
    /\ late' = [late EXCEPT ![d] = 0]
    /\ IF d = Lumad
       THEN /\ path' = [path EXCEPT ![d] = "none"]
            /\ ready' = [ready EXCEPT ![d] = FALSE]
            /\ UNCHANGED attempts
       ELSE attempts' = Attempts /\ UNCHANGED <<path, ready>>
    /\ UNCHANGED <<queue, peer, callerVars>>

(* bind(), listen() and the ready file, which may fail to open. *)
OpenSocket(d) ==
    /\ path' = [path EXCEPT ![d] = "live"]
    /\ \/ ready' = [ready EXCEPT ![d] = TRUE]
       \/ UNCHANGED ready

Listen(d) ==
    /\ pc[d] = "starting"
    /\ OpenSocket(d)
    /\ pc' = [pc EXCEPT ![d] = NextTurn(d)]
    /\ UNCHANGED <<stop, queue, peer, attempts, callerVars, late>>

(* Fault: a stop request ends the loop right after accept(). *)
Accept_DropsOnStop(d) ==
    /\ pc[d] = "accept"
    /\ queue[d] # <<>>
    /\ queue' = [queue EXCEPT ![d] = Tail(@)]
    /\ IF stop[d]
       THEN /\ pc' = [pc EXCEPT ![d] = "stopping"]
            /\ UNCHANGED <<peer, late>>
       ELSE /\ peer' = [peer EXCEPT ![d] = Head(queue[d])]
            /\ pc' = [pc EXCEPT ![d] = "recv"]
            /\ late' = [late EXCEPT ![d] = @ + (IF stop[d] THEN 1 ELSE 0)]
    /\ UNCHANGED <<stop, path, ready, attempts, callerVars>>

Accept(d) ==
    /\ pc[d] = "accept"
    /\ queue[d] # <<>>
    /\ peer' = [peer EXCEPT ![d] = Head(queue[d])]
    /\ queue' = [queue EXCEPT ![d] = Tail(@)]
    /\ pc' = [pc EXCEPT ![d] = "recv"]
    /\ late' = [late EXCEPT ![d] = @ + (IF stop[d] THEN 1 ELSE 0)]
    /\ UNCHANGED <<stop, path, ready, attempts, callerVars>>

(* accept() fails with something else than EINTR, and the loop ends.  The  *)
(* callers in the backlog are dropped when the listening socket is closed. *)
AcceptFails(d) ==
    /\ pc[d] = "accept"
    /\ pc' = [pc EXCEPT ![d] = "stopping"]
    /\ UNCHANGED <<stop, path, ready, attempts, late, queue, peer, callerVars>>

(* recv() returns a request. *)
Receive(d) ==
    /\ pc[d] = "recv"
    /\ phase[peer[d].by] \in {"sent", "leftSent"}
    /\ pc' = [pc EXCEPT ![d] =
                IF peer[d].kind = "health" THEN "pinging" ELSE "reply"]
    /\ UNCHANGED <<stop, path, ready, attempts, late, queue, peer, callerVars>>

(* close(client) and back to the loop. *)
Done(d) ==
    /\ peer' = [peer EXCEPT ![d] = Nobody]
    /\ pc' = [pc EXCEPT ![d] = NextTurn(d)]
    /\ UNCHANGED <<stop, path, ready, attempts, late, queue>>

(* Fault: nothing was read, and the loop goes on without close(). *)
ReceiveNothing_Again(d) ==
    /\ pc[d] = "recv"
    /\ phase[peer[d].by] = "leftOpen"
    /\ UNCHANGED vars

(* recv() returns 0: the caller left without a request. *)
ReceiveNothing(d) ==
    /\ pc[d] = "recv"
    /\ phase[peer[d].by] = "leftOpen"
    /\ phase' = Close(Served(d))
    /\ Done(d)
    /\ UNCHANGED sends

(* send(): the response reaches the caller c. *)
Deliver(c) ==
    /\ phase' = [phase EXCEPT ![c] = Over(c, "answered")]
    /\ sends' = [sends EXCEPT ![c] = @ + 1]

(* The response reaches the caller and the connection is closed. *)
Reply(d) ==
    /\ pc[d] = "reply"
    /\ peer[d].kind \in {"query", "health"}
    /\ phase[peer[d].by] = "sent"
    /\ Deliver(peer[d].by)
    /\ Done(d)

(* The process of d ends without cleaning up: its files stay, what it held *)
(* is closed, and a connection of its own is hung up.                      *)
Die(d) ==
    /\ pc' = [pc EXCEPT ![d] = "down"]
    /\ path' = [path EXCEPT ![d] = IF @ = "live" THEN "stale" ELSE @]
    /\ peer' = [peer EXCEPT ![d] = Nobody]
    /\ queue' = [queue EXCEPT ![d] = <<>>]
    /\ phase' = [c \in Callers |->
                    IF c = d THEN HangUp(phase[c]) ELSE Close(Held(d))[c]]
    /\ UNCHANGED <<stop, ready, attempts, late, sends>>

(* The caller has gone: lumad's send() passes MSG_NOSIGNAL and goes on;    *)
(* lmsd's does not, and SIGPIPE ends lmsd.                                 *)
ReplyToNobody(d) ==
    /\ pc[d] = "reply"
    /\ peer[d].kind \in {"query", "health"}
    /\ phase[peer[d].by] = "leftSent"
    /\ IF d = Lumad
       THEN phase' = Close(Served(d)) /\ Done(d) /\ UNCHANGED sends
       ELSE Die(d)

(* SHUTDOWN or REBOOT in an invalid message: the response is prepared, and *)
(* the common send() leaves these two commands out.                        *)
RefusePower ==
    /\ pc[Lumad] = "reply"
    /\ peer[Lumad].kind = "refused"
    /\ phase' = Close(Served(Lumad))
    /\ Done(Lumad)
    /\ UNCHANGED sends

(* SHUTDOWN or REBOOT: the response first, then sync(), reboot(). *)
AcceptPower ==
    /\ pc[Lumad] = "reply"
    /\ peer[Lumad].kind = "power"
    /\ IF phase[peer[Lumad].by] = "sent"
       THEN Deliver(peer[Lumad].by)
       ELSE UNCHANGED <<phase, sends>>
    /\ pc' = [pc EXCEPT ![Lumad] = "power"]
    /\ UNCHANGED <<stop, path, ready, attempts, late, queue, peer>>

(* Fault: the test of the command before the common send() is missing. *)
RebootFails_SendsAgain ==
    /\ pc[Lumad] = "power"
    /\ phase' = Close(Served(Lumad))
    /\ sends' = [sends EXCEPT ![peer[Lumad].by] = @ + 1]
    /\ Done(Lumad)

(* reboot() fails (no CAP_SYS_BOOT); its result is not looked at. *)
RebootFails ==
    /\ pc[Lumad] = "power"
    /\ phase' = Close(Served(Lumad))
    /\ Done(Lumad)
    /\ UNCHANGED sends

(* reboot() succeeds: everything ends, and /run is empty at the next boot. *)
PowerOff ==
    /\ pc[Lumad] = "power"
    /\ pc' = [d \in Daemons |-> "down"]
    /\ stop' = [d \in Daemons |-> FALSE]
    /\ path' = [d \in Daemons |-> "none"]
    /\ ready' = [d \in Daemons |-> FALSE]
    /\ queue' = [d \in Daemons |-> <<>>]
    /\ peer' = [d \in Daemons |-> Nobody]
    /\ attempts' = Attempts
    /\ phase' = [c \in Callers |-> "idle"]
    /\ sends' = [c \in Callers |-> 0]
    /\ late' = [d \in Daemons |-> 0]

-----------------------------------------------------------------------------
(* framework_ping(): connect, send, receive, close.  With nobody served it *)
(* is one of the attempts of lmsd's start.                                 *)
AtStart == peer[Lmsd] = Nobody

PingConnect ==
    /\ pc[Lmsd] = "pinging"
    /\ path[Lumad] = "live"
    /\ phase[Lmsd] = "idle"
    /\ Len(queue[Lumad]) < Backlog
    /\ Lmsd \notin Held(Lumad)
    /\ queue' = [queue EXCEPT ![Lumad] = Append(@, [by |-> Lmsd, kind |-> "query"])]
    /\ phase' = [phase EXCEPT ![Lmsd] = "open"]
    /\ pc' = [pc EXCEPT ![Lmsd] = "pingSend"]
    /\ UNCHANGED <<stop, path, ready, attempts, late, peer, sends>>

(* Fault: the result of send() is not looked at. *)
PingSend_Unsent ==
    /\ pc[Lmsd] = "pingSend"
    /\ phase[Lmsd] = "open"
    /\ \/ phase' = [phase EXCEPT ![Lmsd] = "sent"]
       \/ UNCHANGED phase
    /\ sends' = [sends EXCEPT ![Lmsd] = 0]
    /\ pc' = [pc EXCEPT ![Lmsd] = "pingRecv"]
    /\ UNCHANGED <<stop, path, ready, attempts, late, queue, peer>>

PingSend ==
    /\ pc[Lmsd] = "pingSend"
    /\ phase[Lmsd] = "open"
    /\ phase' = [phase EXCEPT ![Lmsd] = "sent"]
    /\ sends' = [sends EXCEPT ![Lmsd] = 0]
    /\ pc' = [pc EXCEPT ![Lmsd] = "pingRecv"]
    /\ UNCHANGED <<stop, path, ready, attempts, late, queue, peer>>

(* lumad went away between connect() and send(): an error, or SIGPIPE. *)
PingBroken ==
    /\ pc[Lmsd] = "pingSend"
    /\ phase[Lmsd] = "lost"
    /\ Die(Lmsd)

(* Fault: the attempts are not counted. *)
PingFails_NotCounted ==
    /\ \/ pc[Lmsd] = "pinging" /\ path[Lumad] # "live"
       \/ pc[Lmsd] \in {"pingSend", "pingRecv"} /\ phase[Lmsd] = "lost"
    /\ phase' = [phase EXCEPT ![Lmsd] = HangUp(@)]
    /\ pc' = [pc EXCEPT ![Lmsd] = IF AtStart THEN "pinging" ELSE "reply"]
    /\ UNCHANGED <<stop, path, ready, attempts, late, queue, peer, sends>>

(* The ping fails: HEALTH reports "offline"; the start tries again or, the *)
(* attempts used up, exits.                                                *)
PingFails ==
    /\ \/ pc[Lmsd] = "pinging" /\ path[Lumad] # "live"
       \/ pc[Lmsd] \in {"pingSend", "pingRecv"} /\ phase[Lmsd] = "lost"
    /\ phase' = [phase EXCEPT ![Lmsd] = HangUp(@)]
    /\ attempts' = IF AtStart THEN attempts - 1 ELSE attempts
    /\ pc' = [pc EXCEPT ![Lmsd] =
                IF ~AtStart THEN "reply"
                ELSE IF attempts > 1 THEN "pinging" ELSE "down"]
    /\ UNCHANGED <<stop, path, ready, late, queue, peer, sends>>

(* The ping is answered.  At the start lmsd now unlinks a left-over socket *)
(* (its ready file stays) and goes on to bind().                           *)
PingSucceeds ==
    /\ pc[Lmsd] = "pingRecv"
    /\ phase[Lmsd] = "answered"
    /\ phase' = [phase EXCEPT ![Lmsd] = "idle"]
    /\ pc' = [pc EXCEPT ![Lmsd] = IF AtStart THEN "starting" ELSE "reply"]
    /\ path' = [path EXCEPT ![Lmsd] = IF AtStart THEN "none" ELSE @]
    /\ UNCHANGED <<stop, ready, attempts, late, queue, peer, sends>>

-----------------------------------------------------------------------------
(* SIGTERM or SIGINT: the handler sets a flag that only the loop's test    *)
(* reads; a service that waits in accept() goes on waiting.                *)
Terminate(d) ==
    /\ pc[d] # "down"
    /\ stop' = [stop EXCEPT ![d] = TRUE]
    /\ UNCHANGED <<pc, path, ready, attempts, late, queue, peer, callerVars>>

(* Behind the loop.  lumad closes the listening socket first, lmsd last;   *)
(* closing it drops the connections not yet accepted.                      *)
UnlinkSocket(d) ==
    /\ pc[d] = "stopping"
    /\ path' = [path EXCEPT ![d] = "none"]
    /\ pc' = [pc EXCEPT ![d] = "unlinked"]
    /\ IF d = Lumad
       THEN queue' = [queue EXCEPT ![d] = <<>>] /\ phase' = Close(Waiting(d))
       ELSE UNCHANGED <<queue, phase>>
    /\ UNCHANGED <<stop, ready, attempts, late, peer, sends>>

Exit(d) ==
    /\ pc[d] = "unlinked"
    /\ ready' = [ready EXCEPT ![d] = FALSE]
    /\ queue' = [queue EXCEPT ![d] = <<>>]
    /\ phase' = Close(Waiting(d))
    /\ pc' = [pc EXCEPT ![d] = "down"]
    /\ UNCHANGED <<stop, path, attempts, late, peer, sends>>

(* The process is killed, or socket(), bind() or listen() fails. *)
Kill(d) ==
    /\ pc[d] # "down"
    /\ Die(d)

DaemonStep(d) ==
    \/ Listen(d)
    \/ Accept(d)
    \/ Receive(d)
    \/ ReceiveNothing(d)
    \/ Reply(d)
    \/ ReplyToNobody(d)
    \/ UnlinkSocket(d)
    \/ Exit(d)
    \/ d = Lumad /\ (RefusePower \/ AcceptPower \/ RebootFails \/ PowerOff)
    \/ d = Lmsd /\ (PingConnect \/ PingSend \/ PingBroken \/ PingFails \/ PingSucceeds)

Next ==
    \/ \E c \in Apps, d \in Daemons, k \in LumadKinds \cup LmsdKinds : Connect(c, d, k)
    \/ \E c \in Apps : Send(c) \/ Leave(c)
    \/ \E d \in Daemons : DaemonStep(d)
    \/ \E d \in Daemons : Start(d) \/ AcceptFails(d) \/ Terminate(d) \/ Kill(d)

(* The services run; a caller that has connected goes on to send, as every *)
(* one in the repository does.  connect() to a full backlog waits in line, *)
(* so that lmsd's ping gets in although others come and go.  Nothing is    *)
(* assumed of starts, signals, failing accept(), crashes and new requests. *)
Fairness ==
    /\ \A d \in Daemons : WF_vars(DaemonStep(d))
    /\ SF_vars(PingConnect)
    /\ \A c \in Apps : WF_vars(Send(c))

Spec == Init /\ [][Next]_vars /\ Fairness

-----------------------------------------------------------------------------
(* Type invariant, with what each place in main() implies: only a service  *)
(* between accept() and close() has a peer, and only one that listens has  *)
(* a live socket file.                                                     *)
Busy(d) == pc[d] \in {"recv", "reply", "power", "pinging", "pingSend", "pingRecv"}
TypeOK ==
    /\ pc \in [Daemons -> PCs]
    /\ stop \in [Daemons -> BOOLEAN]
    /\ path \in [Daemons -> {"none", "stale", "live"}]
    /\ ready \in [Daemons -> BOOLEAN]
    /\ queue \in [Daemons -> Seq(Conns)]
    /\ peer \in [Daemons -> Conns \cup {Nobody}]
    /\ attempts \in 0 .. Attempts
    /\ phase \in [Callers -> Phases]
    /\ sends \in [Callers -> Nat]
    /\ late \in [Daemons -> Nat]
    /\ \A d \in Daemons :
        /\ peer[d] # Nobody => Busy(d)
        /\ pc[d] \in {"recv", "reply", "power"} => peer[d] # Nobody
        /\ path[d] = "live" <=> pc[d] \in {"accept", "stopping"} \/ peer[d] # Nobody

(* Nobody waits on a connection that no service will look at: one and only *)
(* one running service has it, once, in its backlog or as its peer.        *)
Places(c) ==
    {at \in Daemons \X (0 .. Backlog) :
        \/ at[2] = 0 /\ c \in Served(at[1])
        \/ at[2] \in DOMAIN queue[at[1]] /\ queue[at[1]][at[2]].by = c}
NobodyForgotten ==
    \A c \in Callers : phase[c] \in {"open", "sent"} =>
        \E d \in Daemons : pc[d] # "down" /\ \E i \in 0 .. Backlog : Places(c) = {<<d, i>>}

(* lumad.c:762 "Shutdown/reboot may already have sent their response": no  *)
(* request is answered twice, also when reboot() returns.                  *)
AtMostOneResponse == \A c \in Callers : sends[c] <= 1

(* After SIGTERM a service serves at most the one caller it was waiting    *)
(* for or serving, and then leaves its loop.                               *)
StopsAfterOne == \A d \in Daemons : late[d] <= 1

(* main() of lumad unlinks the ready file an earlier process left, before  *)
(* its socket goes: beside a lumad that starts or loops, a ready file says *)
(* that it takes connections, whatever was killed before.  A lumad on its  *)
(* way out closes the socket first, and lmsd keeps an old file for as long *)
(* as it pings: there it is no such promise.                               *)
ReadyMeansLive ==
    ready[Lumad] /\ pc[Lumad] \in Starting \cup Looping => path[Lumad] = "live"

(* Nothing but a caller that is about to send, or has not come, holds a    *)
(* service up: the guards of DaemonStep, at each place in main().          *)
CanGoOn(d) ==
    \/ pc[d] \in {"starting", "power", "stopping", "unlinked"}
    \/ pc[d] = "accept" /\ queue[d] # <<>>
    \/ pc[d] = "recv" /\ phase[peer[d].by] \in {"sent", "leftSent", "leftOpen"}
    \/ /\ pc[d] = "reply"
       /\ \/ d = Lumad /\ peer[d].kind \in {"power", "refused"}
          \/ /\ peer[d].kind \in {"query", "health"}
             /\ phase[peer[d].by] \in {"sent", "leftSent"}
    \/ /\ d = Lmsd /\ pc[d] = "pinging"
       /\ \/ path[Lumad] # "live"
          \/ phase[d] = "idle" /\ Len(queue[Lumad]) < Backlog /\ d \notin Held(Lumad)
    \/ d = Lmsd /\ pc[d] = "pingSend" /\ phase[d] \in {"open", "lost"}
    \/ d = Lmsd /\ pc[d] = "pingRecv" /\ phase[d] \in {"answered", "lost"}
Idle(d) == pc[d] = "accept" /\ queue[d] = <<>>
AwaitsApp(d) == pc[d] = "recv" /\ peer[d].by \in Apps /\ phase[peer[d].by] = "open"

(* The two services never wait for each other: when one is held up by its  *)
(* call of the other, that one can go on, or waits for a program.          *)
NoDeadlock ==
    /\ pc[Lumad] # "down" =>
        \/ CanGoOn(Lumad) \/ Idle(Lumad) \/ AwaitsApp(Lumad)
        \/ peer[Lumad] # Nobody /\ peer[Lumad].by = Lmsd /\ CanGoOn(Lmsd)
    /\ pc[Lmsd] # "down" =>
        \/ CanGoOn(Lmsd) \/ Idle(Lmsd) \/ AwaitsApp(Lmsd)
        \/ CanGoOn(Lumad) \/ AwaitsApp(Lumad)

(* lmsd's start comes to an end, whatever lumad does meanwhile.            *)
LmsStartEnds ==
    (pc[Lmsd] \in Starting /\ AtStart) ~> (pc[Lmsd] \in {"down", "accept", "stopping"})

(* Every request is heard out, HEALTH with its nested request included.    *)
Abstract ==
    INSTANCE RequestReply WITH
        waiting <- {c \in Callers : phase[c] = "sent"},
        responses <- sends
KeepsPromise == Abstract!Spec
===============================================================================
