--------------------------- MODULE ServicesProofs ---------------------------
(***************************************************************************)
(* Proofs about lumad, lmsd and their callers, for any set of programs,    *)
(* any backlog and any number of attempts.                                 *)
(***************************************************************************)
EXTENDS Sdk, TLAPS

(* The parts of TypeOK. *)
ControlTyped ==
    /\ pc \in [Daemons -> PCs]
    /\ stop \in [Daemons -> BOOLEAN]
    /\ path \in [Daemons -> {"none", "stale", "live"}]
    /\ ready \in [Daemons -> BOOLEAN]
    /\ attempts \in 0 .. Attempts
    /\ late \in [Daemons -> Nat]
ConnsTyped ==
    /\ queue \in [Daemons -> Seq(Conns)]
    /\ peer \in [Daemons -> Conns \cup {Nobody}]
CallersTyped ==
    /\ phase \in [Callers -> Phases]
    /\ sends \in [Callers -> Nat]
FilesTrue ==
    \A d \in Daemons :
        /\ peer[d] # Nobody => Busy(d)
        /\ pc[d] \in {"recv", "reply", "power"} => peer[d] # Nobody
        /\ path[d] = "live" <=> pc[d] \in {"accept", "stopping"} \/ peer[d] # Nobody

(* lmsd pings at its start only with an attempt left. *)
PingCounted ==
    pc[Lmsd] \in {"pinging", "pingSend", "pingRecv"} /\ AtStart => attempts >= 1

(* A caller that still waits was sent nothing yet. *)
AnsweredOnce ==
    \A c \in Callers : sends[c] <= 1 /\ (phase[c] = "sent" => sends[c] = 0)

(* The one connection accepted since SIGTERM is being served, or the loop  *)
(* is behind.                                                              *)
LateOnce ==
    \A d \in Daemons :
        /\ late[d] <= 1
        /\ late[d] # 0 => /\ stop[d]
                          /\ pc[d] # "accept"
                          /\ pc[d] \in Starting => peer[d] # Nobody

ServicesInv == TypeOK /\ PingCounted /\ AnsweredOnce /\ LateOnce

USE ServicesAssumption

(* Who is who. *)
LEMMA DaemonFacts == Lumad \in Daemons /\ Lmsd \in Daemons /\ Lmsd \in Callers
  BY DEF Daemons, Callers

(* Closing the service's side, or the caller's, makes nobody wait. *)
LEMMA CloseFacts ==
    ASSUME phase \in [Callers -> Phases], NEW S
    PROVE  /\ Close(S) \in [Callers -> Phases]
           /\ \A c \in Callers : Close(S)[c] = "sent" => phase[c] = "sent"
<1>1. ASSUME NEW c \in Callers
      PROVE  Close(S)[c] \in Phases /\ (Close(S)[c] = "sent" => phase[c] = "sent")
  BY DEF Close, Over, Phases
<1> QED
  BY <1>1 DEF Close

(* A caller that closes its side no longer waits. *)
LEMMA HangUpFacts ==
    ASSUME NEW p \in Phases
    PROVE  HangUp(p) \in Phases /\ HangUp(p) # "sent"
  BY DEF HangUp, Phases

(* A service with a connection has a peer. *)
LEMMA NobodyIsNoConn == ASSUME NEW conn \in Conns PROVE conn # Nobody
  OBVIOUS

(* Backlogs stay lists of connections. *)
LEMMA QueueFacts ==
    /\ <<>> \in Seq(Conns)
    /\ \A q \in Seq(Conns), conn \in Conns : Append(q, conn) \in Seq(Conns)
    /\ \A q \in Seq(Conns) :
        q # <<>> => Head(q) \in Conns /\ Tail(q) \in Seq(Conns)
  OBVIOUS

(* The peer of a service that was read from, or answers, is a caller. *)
LEMMA PeerFacts ==
    ASSUME TypeOK, NEW d \in Daemons, pc[d] \in {"recv", "reply", "power"}
    PROVE  peer[d].by \in Callers
<1>1. peer[d] \in Conns
  BY DEF TypeOK
<1> QED
  BY <1>1 DEF Conns

(* main() of each service stays at one of its places, whatever step is taken. *)
LEMMA ControlTypedStep == ServicesInv /\ [Next]_vars => ControlTyped'
<1> SUFFICES ASSUME ServicesInv, [Next]_vars PROVE ControlTyped'
  OBVIOUS
<1> USE DaemonFacts DEF ServicesInv, ControlTyped, TypeOK, PCs, Starting, Looping, Stopping
<1>1. ASSUME NEW c \in Apps, NEW d \in Daemons, NEW k \in LumadKinds \cup LmsdKinds, Connect(c, d, k) PROVE ControlTyped'
  BY <1>1 DEF Connect, daemonVars, Callers
<1>2. ASSUME NEW c \in Apps, Send(c) PROVE ControlTyped'
  BY <1>2 DEF Send, daemonVars, Callers
<1>3. ASSUME NEW c \in Apps, Leave(c) PROVE ControlTyped'
  BY <1>3 DEF Leave, daemonVars, Callers
<1>4. ASSUME NEW d \in Daemons, Start(d) PROVE ControlTyped'
  <2>1. CASE d = Lumad
    BY <1>4, <2>1 DEF Start, callerVars
  <2>2. CASE d = Lmsd
    BY <1>4, <2>2 DEF Start, callerVars
  <2> QED
    BY <2>1, <2>2 DEF Daemons
<1>5. ASSUME NEW d \in Daemons, Listen(d) PROVE ControlTyped'
  BY <1>5 DEF Listen, OpenSocket, NextTurn, callerVars
<1>6. ASSUME NEW d \in Daemons, Accept(d) PROVE ControlTyped'
  BY <1>6 DEF Accept, callerVars
<1>7. ASSUME NEW d \in Daemons, Receive(d) PROVE ControlTyped'
  BY <1>7 DEF Receive, callerVars
<1>8. ASSUME NEW d \in Daemons, ReceiveNothing(d) PROVE ControlTyped'
  BY <1>8 DEF ReceiveNothing, Done, NextTurn
<1>9. ASSUME NEW d \in Daemons, Reply(d) PROVE ControlTyped'
  BY <1>9 DEF Reply, Deliver, Over, Done, NextTurn
<1>10. ASSUME NEW d \in Daemons, ReplyToNobody(d), d = Lumad PROVE ControlTyped'
  BY <1>10 DEF ReplyToNobody, Done, NextTurn
<1>11. ASSUME NEW d \in Daemons, pc[d] # "down", Die(d) PROVE ControlTyped'
  BY <1>11 DEF Die
<1>12. ASSUME RefusePower PROVE ControlTyped'
  BY <1>12 DEF RefusePower, Done, NextTurn
<1>13. ASSUME AcceptPower PROVE ControlTyped'
  BY <1>13 DEF AcceptPower, Deliver, Over
<1>14. ASSUME RebootFails PROVE ControlTyped'
  BY <1>14 DEF RebootFails, Done, NextTurn
<1>15. ASSUME PowerOff PROVE ControlTyped'
  BY <1>15 DEF PowerOff
<1>16. ASSUME PingConnect PROVE ControlTyped'
  BY <1>16 DEF PingConnect
<1>17. ASSUME PingSend PROVE ControlTyped'
  BY <1>17 DEF PingSend
<1>18. ASSUME PingFails PROVE ControlTyped'
  <2>1. attempts' \in 0 .. Attempts
    <3>1. attempts \in 0 .. Attempts /\ (AtStart => attempts >= 1)
      BY <1>18 DEF PingFails, PingCounted
    <3>2. attempts' = IF AtStart THEN attempts - 1 ELSE attempts
      BY <1>18 DEF PingFails
    <3> QED
      BY <3>1, <3>2
  <2> QED
    BY <1>18, <2>1 DEF PingFails
<1>19. ASSUME PingSucceeds PROVE ControlTyped'
  BY <1>19 DEF PingSucceeds
<1>20. ASSUME NEW d \in Daemons, Terminate(d) PROVE ControlTyped'
  BY <1>20 DEF Terminate, callerVars
<1>21. ASSUME NEW d \in Daemons, UnlinkSocket(d) PROVE ControlTyped'
  BY <1>21 DEF UnlinkSocket
<1>22. ASSUME NEW d \in Daemons, Exit(d) PROVE ControlTyped'
  BY <1>22 DEF Exit
<1>23. ASSUME UNCHANGED vars PROVE ControlTyped'
  BY <1>23 DEF vars, daemonVars, callerVars
<1>24. ASSUME NEW d \in Daemons, AcceptFails(d) PROVE ControlTyped'
  BY <1>24 DEF AcceptFails, callerVars
<1> HIDE DEF ServicesInv, ControlTyped, TypeOK, PCs, Starting, Looping, Stopping
<1> QED
  BY <1>1, <1>2, <1>3, <1>4, <1>5, <1>6, <1>7, <1>8, <1>9, <1>10, <1>11, <1>12, <1>13, <1>14, <1>15, <1>16, <1>17, <1>18, <1>19, <1>20, <1>21, <1>22, <1>23, <1>24
     DEF Next, DaemonStep, Kill, ReplyToNobody, PingBroken

(* The backlogs and the peers hold connections of callers. *)
LEMMA ConnsTypedStep == ServicesInv /\ [Next]_vars => ConnsTyped'
<1> SUFFICES ASSUME ServicesInv, [Next]_vars PROVE ConnsTyped'
  OBVIOUS
<1> USE DaemonFacts DEF ServicesInv, ConnsTyped, TypeOK
<1>1. ASSUME NEW c \in Apps, NEW d \in Daemons, NEW k \in LumadKinds \cup LmsdKinds, Connect(c, d, k) PROVE ConnsTyped'
  <2>1. [by |-> c, kind |-> k] \in Conns
    BY DEF Conns, Callers
  <2>2. Append(queue[d], [by |-> c, kind |-> k]) \in Seq(Conns)
    BY <2>1, QueueFacts
  <2> QED
    BY <1>1, <2>2 DEF Connect, daemonVars
<1>2. ASSUME NEW c \in Apps, Send(c) PROVE ConnsTyped'
  BY <1>2 DEF Send, daemonVars, Callers
<1>3. ASSUME NEW c \in Apps, Leave(c) PROVE ConnsTyped'
  BY <1>3 DEF Leave, daemonVars, Callers
<1>4. ASSUME NEW d \in Daemons, Start(d) PROVE ConnsTyped'
  BY <1>4 DEF Start, callerVars
<1>5. ASSUME NEW d \in Daemons, Listen(d) PROVE ConnsTyped'
  BY <1>5 DEF Listen, OpenSocket, NextTurn, callerVars
<1>6. ASSUME NEW d \in Daemons, Accept(d) PROVE ConnsTyped'
  <2>1. queue[d] \in Seq(Conns) /\ queue[d] # <<>>
    BY <1>6 DEF Accept
  <2>2. Head(queue[d]) \in Conns /\ Tail(queue[d]) \in Seq(Conns)
    BY <2>1, QueueFacts
  <2> QED
    BY <1>6, <2>2 DEF Accept
<1>7. ASSUME NEW d \in Daemons, Receive(d) PROVE ConnsTyped'
  BY <1>7 DEF Receive, callerVars
<1>8. ASSUME NEW d \in Daemons, ReceiveNothing(d) PROVE ConnsTyped'
  BY <1>8 DEF ReceiveNothing, Done, NextTurn
<1>9. ASSUME NEW d \in Daemons, Reply(d) PROVE ConnsTyped'
  BY <1>9 DEF Reply, Deliver, Over, Done, NextTurn
<1>10. ASSUME NEW d \in Daemons, ReplyToNobody(d), d = Lumad PROVE ConnsTyped'
  BY <1>10 DEF ReplyToNobody, Done, NextTurn
<1>11. ASSUME NEW d \in Daemons, pc[d] # "down", Die(d) PROVE ConnsTyped'
  BY <1>11, QueueFacts DEF Die
<1>12. ASSUME RefusePower PROVE ConnsTyped'
  BY <1>12 DEF RefusePower, Done, NextTurn
<1>13. ASSUME AcceptPower PROVE ConnsTyped'
  BY <1>13 DEF AcceptPower, Deliver, Over
<1>14. ASSUME RebootFails PROVE ConnsTyped'
  BY <1>14 DEF RebootFails, Done, NextTurn
<1>15. ASSUME PowerOff PROVE ConnsTyped'
  BY <1>15, QueueFacts DEF PowerOff
<1>16. ASSUME PingConnect PROVE ConnsTyped'
  <2>1. [by |-> Lmsd, kind |-> "query"] \in Conns
    BY DEF Conns, LumadKinds, LmsdKinds
  <2>2. Append(queue[Lumad], [by |-> Lmsd, kind |-> "query"]) \in Seq(Conns)
    BY <2>1, QueueFacts
  <2> QED
    BY <1>16, <2>2 DEF PingConnect
<1>17. ASSUME PingSend PROVE ConnsTyped'
  BY <1>17 DEF PingSend
<1>18. ASSUME PingFails PROVE ConnsTyped'
  BY <1>18 DEF PingFails
<1>19. ASSUME PingSucceeds PROVE ConnsTyped'
  BY <1>19 DEF PingSucceeds
<1>20. ASSUME NEW d \in Daemons, Terminate(d) PROVE ConnsTyped'
  BY <1>20 DEF Terminate, callerVars
<1>21. ASSUME NEW d \in Daemons, UnlinkSocket(d) PROVE ConnsTyped'
  BY <1>21, QueueFacts DEF UnlinkSocket
<1>22. ASSUME NEW d \in Daemons, Exit(d) PROVE ConnsTyped'
  BY <1>22, QueueFacts DEF Exit
<1>23. ASSUME UNCHANGED vars PROVE ConnsTyped'
  BY <1>23 DEF vars, daemonVars, callerVars
<1>24. ASSUME NEW d \in Daemons, AcceptFails(d) PROVE ConnsTyped'
  BY <1>24 DEF AcceptFails, callerVars
<1> HIDE DEF ServicesInv, ConnsTyped, TypeOK
<1> QED
  BY <1>1, <1>2, <1>3, <1>4, <1>5, <1>6, <1>7, <1>8, <1>9, <1>10, <1>11, <1>12, <1>13, <1>14, <1>15, <1>16, <1>17, <1>18, <1>19, <1>20, <1>21, <1>22, <1>23, <1>24
     DEF Next, DaemonStep, Kill, ReplyToNobody, PingBroken

(* The callers' connections stay in one of their phases. *)
LEMMA CallersTypedStep == ServicesInv /\ [Next]_vars => CallersTyped'
<1> SUFFICES ASSUME ServicesInv, [Next]_vars PROVE CallersTyped'
  OBVIOUS
<1> USE DaemonFacts, CloseFacts, HangUpFacts DEF ServicesInv, CallersTyped, TypeOK, Phases
<1>1. ASSUME NEW c \in Apps, NEW d \in Daemons, NEW k \in LumadKinds \cup LmsdKinds, Connect(c, d, k) PROVE CallersTyped'
  BY <1>1 DEF Connect, daemonVars, Callers
<1>2. ASSUME NEW c \in Apps, Send(c) PROVE CallersTyped'
  BY <1>2 DEF Send, daemonVars, Callers
<1>3. ASSUME NEW c \in Apps, Leave(c) PROVE CallersTyped'
  BY <1>3 DEF Leave, daemonVars, Callers
<1>4. ASSUME NEW d \in Daemons, Start(d) PROVE CallersTyped'
  BY <1>4 DEF Start, callerVars
<1>5. ASSUME NEW d \in Daemons, Listen(d) PROVE CallersTyped'
  BY <1>5 DEF Listen, OpenSocket, NextTurn, callerVars
<1>6. ASSUME NEW d \in Daemons, Accept(d) PROVE CallersTyped'
  BY <1>6 DEF Accept, callerVars
<1>7. ASSUME NEW d \in Daemons, Receive(d) PROVE CallersTyped'
  BY <1>7 DEF Receive, callerVars
<1>8. ASSUME NEW d \in Daemons, ReceiveNothing(d) PROVE CallersTyped'
  BY <1>8 DEF ReceiveNothing, Done, NextTurn
<1>9. ASSUME NEW d \in Daemons, Reply(d) PROVE CallersTyped'
  <2>1. peer[d].by \in Callers
    BY <1>9, PeerFacts DEF Reply
  <2>2. Over(peer[d].by, "answered") \in Phases
    BY DEF Over, Phases
  <2>3. phase' \in [Callers -> Phases]
    BY <1>9, <2>1, <2>2 DEF Reply, Deliver
  <2>4. sends' \in [Callers -> Nat]
    BY <1>9, <2>1 DEF Reply, Deliver
  <2> QED
    BY <2>3, <2>4
<1>10. ASSUME NEW d \in Daemons, ReplyToNobody(d), d = Lumad PROVE CallersTyped'
  BY <1>10 DEF ReplyToNobody, Done, NextTurn
<1>11. ASSUME NEW d \in Daemons, pc[d] # "down", Die(d) PROVE CallersTyped'
  BY <1>11 DEF Die
<1>12. ASSUME RefusePower PROVE CallersTyped'
  BY <1>12 DEF RefusePower, Done, NextTurn
<1>13. ASSUME AcceptPower PROVE CallersTyped'
  <2>1. peer[Lumad].by \in Callers
    BY <1>13, PeerFacts DEF AcceptPower
  <2>2. Over(peer[Lumad].by, "answered") \in Phases
    BY DEF Over, Phases
  <2>3. phase' \in [Callers -> Phases]
    BY <1>13, <2>1, <2>2 DEF AcceptPower, Deliver
  <2>4. sends' \in [Callers -> Nat]
    <3>1. CASE phase[peer[Lumad].by] = "sent"
      <4>1. Deliver(peer[Lumad].by)
        BY <1>13, <3>1 DEF AcceptPower
      <4> QED
        BY <2>1, <4>1 DEF Deliver
    <3>2. CASE phase[peer[Lumad].by] # "sent"
      BY <1>13, <3>2 DEF AcceptPower
    <3> QED
      BY <3>1, <3>2
  <2> QED
    BY <2>3, <2>4
<1>14. ASSUME RebootFails PROVE CallersTyped'
  BY <1>14 DEF RebootFails, Done, NextTurn
<1>15. ASSUME PowerOff PROVE CallersTyped'
  BY <1>15 DEF PowerOff
<1>16. ASSUME PingConnect PROVE CallersTyped'
  BY <1>16 DEF PingConnect
<1>17. ASSUME PingSend PROVE CallersTyped'
  BY <1>17 DEF PingSend
<1>18. ASSUME PingFails PROVE CallersTyped'
  BY <1>18 DEF PingFails
<1>19. ASSUME PingSucceeds PROVE CallersTyped'
  BY <1>19 DEF PingSucceeds
<1>20. ASSUME NEW d \in Daemons, Terminate(d) PROVE CallersTyped'
  BY <1>20 DEF Terminate, callerVars
<1>21. ASSUME NEW d \in Daemons, UnlinkSocket(d) PROVE CallersTyped'
  BY <1>21 DEF UnlinkSocket
<1>22. ASSUME NEW d \in Daemons, Exit(d) PROVE CallersTyped'
  BY <1>22 DEF Exit
<1>23. ASSUME UNCHANGED vars PROVE CallersTyped'
  BY <1>23 DEF vars, daemonVars, callerVars
<1>24. ASSUME NEW d \in Daemons, AcceptFails(d) PROVE CallersTyped'
  BY <1>24 DEF AcceptFails, callerVars
<1> HIDE DEF ServicesInv, CallersTyped, TypeOK, Phases
<1> QED
  BY <1>1, <1>2, <1>3, <1>4, <1>5, <1>6, <1>7, <1>8, <1>9, <1>10, <1>11, <1>12, <1>13, <1>14, <1>15, <1>16, <1>17, <1>18, <1>19, <1>20, <1>21, <1>22, <1>23, <1>24
     DEF Next, DaemonStep, Kill, ReplyToNobody, PingBroken

(* No step leaves a peer with an idle service, or a live path without one. *)
LEMMA FilesTrueStep == ServicesInv /\ [Next]_vars => FilesTrue'
<1> SUFFICES ASSUME ServicesInv, [Next]_vars PROVE FilesTrue'
  OBVIOUS
<1> USE DaemonFacts DEF ServicesInv, FilesTrue, ControlTyped, TypeOK, Busy, PCs, Starting, Looping, Stopping
<1>1. ASSUME NEW c \in Apps, NEW d \in Daemons, NEW k \in LumadKinds \cup LmsdKinds, Connect(c, d, k) PROVE FilesTrue'
  BY <1>1 DEF Connect, daemonVars, Callers
<1>2. ASSUME NEW c \in Apps, Send(c) PROVE FilesTrue'
  BY <1>2 DEF Send, daemonVars, Callers
<1>3. ASSUME NEW c \in Apps, Leave(c) PROVE FilesTrue'
  BY <1>3 DEF Leave, daemonVars, Callers
<1>4. ASSUME NEW d \in Daemons, Start(d) PROVE FilesTrue'
  BY <1>4 DEF Start, callerVars
<1>5. ASSUME NEW d \in Daemons, Listen(d) PROVE FilesTrue'
  BY <1>5 DEF Listen, OpenSocket, NextTurn, callerVars
<1>6. ASSUME NEW d \in Daemons, Accept(d) PROVE FilesTrue'
  <2>1. peer'[d] # Nobody
    <3>1. Head(queue[d]) \in Conns
      BY <1>6, QueueFacts DEF Accept
    <3> QED
      BY <1>6, <3>1, NobodyIsNoConn DEF Accept
  <2>2. pc'[d] = "recv" /\ path' = path /\ path[d] = "live"
    BY <1>6 DEF Accept
  <2>3. ASSUME NEW e \in Daemons, e # d
        PROVE  pc'[e] = pc[e] /\ peer'[e] = peer[e]
    BY <1>6, <2>3 DEF Accept
  <2> QED
    BY <2>1, <2>2, <2>3
<1>7. ASSUME NEW d \in Daemons, Receive(d) PROVE FilesTrue'
  BY <1>7 DEF Receive, callerVars
<1>8. ASSUME NEW d \in Daemons, ReceiveNothing(d) PROVE FilesTrue'
  BY <1>8 DEF ReceiveNothing, Done, NextTurn
<1>9. ASSUME NEW d \in Daemons, Reply(d) PROVE FilesTrue'
  BY <1>9 DEF Reply, Deliver, Over, Done, NextTurn
<1>10. ASSUME NEW d \in Daemons, ReplyToNobody(d), d = Lumad PROVE FilesTrue'
  <2>1. peer' = [peer EXCEPT ![d] = Nobody] /\ path' = path /\ path[d] = "live"
    BY <1>10 DEF ReplyToNobody, Done
  <2>2. pc' = [pc EXCEPT ![d] = NextTurn(d)]
    BY <1>10 DEF ReplyToNobody, Done
  <2> QED
    BY <2>1, <2>2 DEF NextTurn
<1>11. ASSUME NEW d \in Daemons, pc[d] # "down", Die(d) PROVE FilesTrue'
  BY <1>11 DEF Die
<1>12. ASSUME RefusePower PROVE FilesTrue'
  BY <1>12 DEF RefusePower, Done, NextTurn
<1>13. ASSUME AcceptPower PROVE FilesTrue'
  BY <1>13 DEF AcceptPower, Deliver, Over
<1>14. ASSUME RebootFails PROVE FilesTrue'
  BY <1>14 DEF RebootFails, Done, NextTurn
<1>15. ASSUME PowerOff PROVE FilesTrue'
  BY <1>15 DEF PowerOff
<1>16. ASSUME PingConnect PROVE FilesTrue'
  BY <1>16 DEF PingConnect
<1>17. ASSUME PingSend PROVE FilesTrue'
  BY <1>17 DEF PingSend
<1>18. ASSUME PingFails PROVE FilesTrue'
  <2>1. pc' = [pc EXCEPT ![Lmsd] = IF ~AtStart THEN "reply"
                                   ELSE IF attempts > 1 THEN "pinging" ELSE "down"]
    BY <1>18 DEF PingFails
  <2>2. pc[Lmsd] \in {"pinging", "pingSend", "pingRecv"} /\ path' = path /\ peer' = peer
    BY <1>18 DEF PingFails
  <2>3. CASE AtStart
    <3>1. pc' \in {[pc EXCEPT ![Lmsd] = "pinging"], [pc EXCEPT ![Lmsd] = "down"]}
      BY <2>1, <2>3
    <3> QED
      BY <2>2, <2>3, <3>1 DEF AtStart
  <2>4. CASE ~AtStart
    <3>1. pc' = [pc EXCEPT ![Lmsd] = "reply"]
      BY <2>1, <2>4
    <3> QED
      BY <2>2, <2>4, <3>1 DEF AtStart
  <2> QED
    BY <2>3, <2>4
<1>19. ASSUME PingSucceeds PROVE FilesTrue'
  <2>1. CASE AtStart
    BY <1>19, <2>1 DEF PingSucceeds, AtStart
  <2>2. CASE ~AtStart
    <3>1. pc' = [pc EXCEPT ![Lmsd] = "reply"] /\ path' = path /\ peer' = peer
      BY <1>19, <2>2 DEF PingSucceeds
    <3>2. pc[Lmsd] = "pingRecv" /\ peer[Lmsd] # Nobody
      BY <1>19, <2>2 DEF PingSucceeds, AtStart
    <3> QED
      BY <3>1, <3>2
  <2> QED
    BY <2>1, <2>2
<1>20. ASSUME NEW d \in Daemons, Terminate(d) PROVE FilesTrue'
  BY <1>20 DEF Terminate, callerVars
<1>21. ASSUME NEW d \in Daemons, UnlinkSocket(d) PROVE FilesTrue'
  BY <1>21 DEF UnlinkSocket
<1>22. ASSUME NEW d \in Daemons, Exit(d) PROVE FilesTrue'
  BY <1>22 DEF Exit
<1>23. ASSUME UNCHANGED vars PROVE FilesTrue'
  BY <1>23 DEF vars, daemonVars, callerVars
<1>24. ASSUME NEW d \in Daemons, AcceptFails(d) PROVE FilesTrue'
  BY <1>24 DEF AcceptFails, callerVars
<1> HIDE DEF ServicesInv, FilesTrue, ControlTyped, TypeOK, Busy, PCs, Starting, Looping, Stopping
<1> QED
  BY <1>1, <1>2, <1>3, <1>4, <1>5, <1>6, <1>7, <1>8, <1>9, <1>10, <1>11, <1>12, <1>13, <1>14, <1>15, <1>16, <1>17, <1>18, <1>19, <1>20, <1>21, <1>22, <1>23, <1>24
     DEF Next, DaemonStep, Kill, ReplyToNobody, PingBroken

(* No ping of lmsd's start is begun without an attempt left. *)
LEMMA PingCountedStep == ServicesInv /\ [Next]_vars => PingCounted'
<1> SUFFICES ASSUME ServicesInv, [Next]_vars PROVE PingCounted'
  OBVIOUS
<1> USE DaemonFacts DEF ServicesInv, TypeOK, PingCounted, AtStart
<1>1. ASSUME NEW c \in Apps, NEW d \in Daemons, NEW k \in LumadKinds \cup LmsdKinds, Connect(c, d, k) PROVE PingCounted'
  BY <1>1 DEF Connect, daemonVars, Callers
<1>2. ASSUME NEW c \in Apps, Send(c) PROVE PingCounted'
  BY <1>2 DEF Send, daemonVars, Callers
<1>3. ASSUME NEW c \in Apps, Leave(c) PROVE PingCounted'
  BY <1>3 DEF Leave, daemonVars, Callers
<1>4. ASSUME NEW d \in Daemons, Start(d) PROVE PingCounted'
  BY <1>4 DEF Start, callerVars
<1>5. ASSUME NEW d \in Daemons, Listen(d) PROVE PingCounted'
  BY <1>5 DEF Listen, OpenSocket, NextTurn, callerVars
<1>6. ASSUME NEW d \in Daemons, Accept(d) PROVE PingCounted'
  BY <1>6 DEF Accept, callerVars
<1>7. ASSUME NEW d \in Daemons, Receive(d) PROVE PingCounted'
  BY <1>7 DEF Receive, callerVars
<1>8. ASSUME NEW d \in Daemons, ReceiveNothing(d) PROVE PingCounted'
  BY <1>8 DEF ReceiveNothing, Done, NextTurn
<1>9. ASSUME NEW d \in Daemons, Reply(d) PROVE PingCounted'
  BY <1>9 DEF Reply, Deliver, Over, Done, NextTurn
<1>10. ASSUME NEW d \in Daemons, ReplyToNobody(d), d = Lumad PROVE PingCounted'
  BY <1>10 DEF ReplyToNobody, Done, NextTurn
<1>11. ASSUME NEW d \in Daemons, pc[d] # "down", Die(d) PROVE PingCounted'
  BY <1>11 DEF Die
<1>12. ASSUME RefusePower PROVE PingCounted'
  BY <1>12 DEF RefusePower, Done, NextTurn
<1>13. ASSUME AcceptPower PROVE PingCounted'
  BY <1>13 DEF AcceptPower, Deliver, Over
<1>14. ASSUME RebootFails PROVE PingCounted'
  BY <1>14 DEF RebootFails, Done, NextTurn
<1>15. ASSUME PowerOff PROVE PingCounted'
  BY <1>15 DEF PowerOff
<1>16. ASSUME PingConnect PROVE PingCounted'
  BY <1>16 DEF PingConnect
<1>17. ASSUME PingSend PROVE PingCounted'
  BY <1>17 DEF PingSend
<1>18. ASSUME PingFails PROVE PingCounted'
  BY <1>18 DEF PingFails
<1>19. ASSUME PingSucceeds PROVE PingCounted'
  BY <1>19 DEF PingSucceeds
<1>20. ASSUME NEW d \in Daemons, Terminate(d) PROVE PingCounted'
  BY <1>20 DEF Terminate, callerVars
<1>21. ASSUME NEW d \in Daemons, UnlinkSocket(d) PROVE PingCounted'
  BY <1>21 DEF UnlinkSocket
<1>22. ASSUME NEW d \in Daemons, Exit(d) PROVE PingCounted'
  BY <1>22 DEF Exit
<1>23. ASSUME UNCHANGED vars PROVE PingCounted'
  BY <1>23 DEF vars, daemonVars, callerVars
<1>24. ASSUME NEW d \in Daemons, AcceptFails(d) PROVE PingCounted'
  BY <1>24 DEF AcceptFails, callerVars
<1> HIDE DEF ServicesInv, TypeOK, PingCounted, AtStart
<1> QED
  BY <1>1, <1>2, <1>3, <1>4, <1>5, <1>6, <1>7, <1>8, <1>9, <1>10, <1>11, <1>12, <1>13, <1>14, <1>15, <1>16, <1>17, <1>18, <1>19, <1>20, <1>21, <1>22, <1>23, <1>24
     DEF Next, DaemonStep, Kill, ReplyToNobody, PingBroken

(* A response is sent only to a caller that still waits, and ends its wait. *)
LEMMA AnsweredOnceStep == ServicesInv /\ [Next]_vars => AnsweredOnce'
<1> SUFFICES ASSUME ServicesInv, [Next]_vars PROVE AnsweredOnce'
  OBVIOUS
<1> USE DaemonFacts, CloseFacts, HangUpFacts DEF ServicesInv, TypeOK, AnsweredOnce
<1>1. ASSUME NEW c \in Apps, NEW d \in Daemons, NEW k \in LumadKinds \cup LmsdKinds, Connect(c, d, k) PROVE AnsweredOnce'
  BY <1>1 DEF Connect, daemonVars, Callers
<1>2. ASSUME NEW c \in Apps, Send(c) PROVE AnsweredOnce'
  BY <1>2 DEF Send, daemonVars, Callers
<1>3. ASSUME NEW c \in Apps, Leave(c) PROVE AnsweredOnce'
  BY <1>3 DEF Leave, daemonVars, Callers
<1>4. ASSUME NEW d \in Daemons, Start(d) PROVE AnsweredOnce'
  BY <1>4 DEF Start, callerVars
<1>5. ASSUME NEW d \in Daemons, Listen(d) PROVE AnsweredOnce'
  BY <1>5 DEF Listen, OpenSocket, NextTurn, callerVars
<1>6. ASSUME NEW d \in Daemons, Accept(d) PROVE AnsweredOnce'
  BY <1>6 DEF Accept, callerVars
<1>7. ASSUME NEW d \in Daemons, Receive(d) PROVE AnsweredOnce'
  BY <1>7 DEF Receive, callerVars
<1>8. ASSUME NEW d \in Daemons, ReceiveNothing(d) PROVE AnsweredOnce'
  BY <1>8 DEF ReceiveNothing, Done, NextTurn
<1>9. ASSUME NEW d \in Daemons, Reply(d) PROVE AnsweredOnce'
  BY <1>9 DEF Reply, Deliver, Over, Done, NextTurn
<1>10. ASSUME NEW d \in Daemons, ReplyToNobody(d), d = Lumad PROVE AnsweredOnce'
  BY <1>10 DEF ReplyToNobody, Done, NextTurn
<1>11. ASSUME NEW d \in Daemons, pc[d] # "down", Die(d) PROVE AnsweredOnce'
  BY <1>11 DEF Die
<1>12. ASSUME RefusePower PROVE AnsweredOnce'
  BY <1>12 DEF RefusePower, Done, NextTurn
<1>13. ASSUME AcceptPower PROVE AnsweredOnce'
  BY <1>13 DEF AcceptPower, Deliver, Over
<1>14. ASSUME RebootFails PROVE AnsweredOnce'
  BY <1>14 DEF RebootFails, Done, NextTurn
<1>15. ASSUME PowerOff PROVE AnsweredOnce'
  BY <1>15 DEF PowerOff
<1>16. ASSUME PingConnect PROVE AnsweredOnce'
  BY <1>16 DEF PingConnect
<1>17. ASSUME PingSend PROVE AnsweredOnce'
  BY <1>17 DEF PingSend
<1>18. ASSUME PingFails PROVE AnsweredOnce'
  BY <1>18 DEF PingFails
<1>19. ASSUME PingSucceeds PROVE AnsweredOnce'
  BY <1>19 DEF PingSucceeds
<1>20. ASSUME NEW d \in Daemons, Terminate(d) PROVE AnsweredOnce'
  BY <1>20 DEF Terminate, callerVars
<1>21. ASSUME NEW d \in Daemons, UnlinkSocket(d) PROVE AnsweredOnce'
  BY <1>21 DEF UnlinkSocket
<1>22. ASSUME NEW d \in Daemons, Exit(d) PROVE AnsweredOnce'
  BY <1>22 DEF Exit
<1>23. ASSUME UNCHANGED vars PROVE AnsweredOnce'
  BY <1>23 DEF vars, daemonVars, callerVars
<1>24. ASSUME NEW d \in Daemons, AcceptFails(d) PROVE AnsweredOnce'
  BY <1>24 DEF AcceptFails, callerVars
<1> HIDE DEF ServicesInv, TypeOK, AnsweredOnce
<1> QED
  BY <1>1, <1>2, <1>3, <1>4, <1>5, <1>6, <1>7, <1>8, <1>9, <1>10, <1>11, <1>12, <1>13, <1>14, <1>15, <1>16, <1>17, <1>18, <1>19, <1>20, <1>21, <1>22, <1>23, <1>24
     DEF Next, DaemonStep, Kill, ReplyToNobody, PingBroken

(* After SIGTERM the first turn of the loop is the last. *)
LEMMA LateOnceStep == ServicesInv /\ [Next]_vars => LateOnce'
<1> SUFFICES ASSUME ServicesInv, [Next]_vars PROVE LateOnce'
  OBVIOUS
<1> USE DaemonFacts DEF ServicesInv, TypeOK, LateOnce, Busy, Starting
<1>1. ASSUME NEW c \in Apps, NEW d \in Daemons, NEW k \in LumadKinds \cup LmsdKinds, Connect(c, d, k) PROVE LateOnce'
  BY <1>1 DEF Connect, daemonVars, Callers
<1>2. ASSUME NEW c \in Apps, Send(c) PROVE LateOnce'
  BY <1>2 DEF Send, daemonVars, Callers
<1>3. ASSUME NEW c \in Apps, Leave(c) PROVE LateOnce'
  BY <1>3 DEF Leave, daemonVars, Callers
<1>4. ASSUME NEW d \in Daemons, Start(d) PROVE LateOnce'
  BY <1>4 DEF Start, callerVars
<1>5. ASSUME NEW d \in Daemons, Listen(d) PROVE LateOnce'
  BY <1>5 DEF Listen, OpenSocket, NextTurn, callerVars
<1>6. ASSUME NEW d \in Daemons, Accept(d) PROVE LateOnce'
  BY <1>6 DEF Accept, callerVars
<1>7. ASSUME NEW d \in Daemons, Receive(d) PROVE LateOnce'
  BY <1>7 DEF Receive, callerVars
<1>8. ASSUME NEW d \in Daemons, ReceiveNothing(d) PROVE LateOnce'
  BY <1>8 DEF ReceiveNothing, Done, NextTurn
<1>9. ASSUME NEW d \in Daemons, Reply(d) PROVE LateOnce'
  BY <1>9 DEF Reply, Deliver, Over, Done, NextTurn
<1>10. ASSUME NEW d \in Daemons, ReplyToNobody(d), d = Lumad PROVE LateOnce'
  <2>1. Done(d)
    BY <1>10 DEF ReplyToNobody
  <2> QED
    BY <2>1 DEF Done, NextTurn
<1>11. ASSUME NEW d \in Daemons, pc[d] # "down", Die(d) PROVE LateOnce'
  BY <1>11 DEF Die
<1>12. ASSUME RefusePower PROVE LateOnce'
  BY <1>12 DEF RefusePower, Done, NextTurn
<1>13. ASSUME AcceptPower PROVE LateOnce'
  BY <1>13 DEF AcceptPower, Deliver, Over
<1>14. ASSUME RebootFails PROVE LateOnce'
  BY <1>14 DEF RebootFails, Done, NextTurn
<1>15. ASSUME PowerOff PROVE LateOnce'
  BY <1>15 DEF PowerOff
<1>16. ASSUME PingConnect PROVE LateOnce'
  BY <1>16 DEF PingConnect
<1>17. ASSUME PingSend PROVE LateOnce'
  BY <1>17 DEF PingSend
<1>18. ASSUME PingFails PROVE LateOnce'
  BY <1>18 DEF PingFails
<1>19. ASSUME PingSucceeds PROVE LateOnce'
  BY <1>19 DEF PingSucceeds
<1>20. ASSUME NEW d \in Daemons, Terminate(d) PROVE LateOnce'
  BY <1>20 DEF Terminate, callerVars
<1>21. ASSUME NEW d \in Daemons, UnlinkSocket(d) PROVE LateOnce'
  BY <1>21 DEF UnlinkSocket
<1>22. ASSUME NEW d \in Daemons, Exit(d) PROVE LateOnce'
  BY <1>22 DEF Exit
<1>23. ASSUME UNCHANGED vars PROVE LateOnce'
  BY <1>23 DEF vars, daemonVars, callerVars
<1>24. ASSUME NEW d \in Daemons, AcceptFails(d) PROVE LateOnce'
  BY <1>24 DEF AcceptFails, callerVars
<1> HIDE DEF ServicesInv, TypeOK, LateOnce, Busy, Starting
<1> QED
  BY <1>1, <1>2, <1>3, <1>4, <1>5, <1>6, <1>7, <1>8, <1>9, <1>10, <1>11, <1>12, <1>13, <1>14, <1>15, <1>16, <1>17, <1>18, <1>19, <1>20, <1>21, <1>22, <1>23, <1>24
     DEF Next, DaemonStep, Kill, ReplyToNobody, PingBroken

(* Initially both services are down and nobody has called. *)
LEMMA ServicesInit == Init => ServicesInv
<1> SUFFICES ASSUME Init PROVE ServicesInv
  OBVIOUS
<1> USE DEF Init
<1>1. TypeOK
  <2>1. queue \in [Daemons -> Seq(Conns)] /\ peer \in [Daemons -> Conns \cup {Nobody}]
    BY QueueFacts
  <2>2. pc \in [Daemons -> PCs] /\ phase \in [Callers -> Phases]
    BY DEF PCs, Phases
  <2>3. attempts \in 0 .. Attempts /\ sends \in [Callers -> Nat] /\ late \in [Daemons -> Nat]
    OBVIOUS
  <2> QED
    BY <2>1, <2>2, <2>3 DEF TypeOK, Busy
<1>2. PingCounted
  BY DaemonFacts DEF PingCounted
<1>3. AnsweredOnce /\ LateOnce
  BY DEF AnsweredOnce, LateOnce
<1> QED
  BY <1>1, <1>2, <1>3 DEF ServicesInv

(* The invariant is kept by every step: the lemmas above together. *)
LEMMA ServicesStep == ServicesInv /\ [Next]_vars => ServicesInv'
<1> SUFFICES ASSUME ServicesInv, [Next]_vars PROVE ServicesInv'
  OBVIOUS
<1>1. ControlTyped' /\ ConnsTyped' /\ CallersTyped' /\ FilesTrue'
  BY ControlTypedStep, ConnsTypedStep, CallersTypedStep, FilesTrueStep
<1>2. TypeOK'
  BY <1>1 DEF TypeOK, ControlTyped, ConnsTyped, CallersTyped, FilesTrue
<1> QED
  BY <1>2, PingCountedStep, AnsweredOnceStep, LateOnceStep DEF ServicesInv

(* The invariant holds throughout. *)
THEOREM ServicesInvHolds == Spec => []ServicesInv
  BY ServicesInit, ServicesStep, PTL DEF Spec

(* Each service has a peer only between accept() and close(), and a socket *)
(* file that takes connections only while it listens.                      *)
THEOREM ServicesTyped == Spec => []TypeOK
<1>1. ServicesInv => TypeOK
  BY DEF ServicesInv
<1> QED
  BY <1>1, ServicesInvHolds, PTL

(* No request is answered twice: not by lmsd, not by lumad, and not by     *)
(* lumad when it goes on after a reboot() that failed.                     *)
THEOREM NeverAnsweredTwice == Spec => []AtMostOneResponse
<1>1. ServicesInv => AtMostOneResponse
  BY DEF ServicesInv, AnsweredOnce, AtMostOneResponse
<1> QED
  BY <1>1, ServicesInvHolds, PTL

(* A service that got SIGTERM serves at most one more caller. *)
THEOREM LeavesAfterOne == Spec => []StopsAfterOne
<1>1. ServicesInv => StopsAfterOne
  BY DEF ServicesInv, LateOnce, StopsAfterOne
<1> QED
  BY <1>1, ServicesInvHolds, PTL

-----------------------------------------------------------------------------
(* Where the connections are: c's is at place i of d, 0 being its peer and *)
(* i > 0 the i-th place of its backlog.                                    *)
At(d, i, c) ==
    \/ i = 0 /\ peer[d] # Nobody /\ peer[d].by = c
    \/ i \in DOMAIN queue[d] /\ queue[d][i].by = c
Open(c) == phase[c] \in {"open", "sent"}

(* An open connection is somewhere, and no caller's is in two places. *)
OpenIsHeld ==
    \A c \in Callers : Open(c) => \E d \in Daemons, i \in Nat : At(d, i, c)
OnePlace ==
    \A c \in Callers : \A d, e \in Daemons, i, j \in Nat :
        At(d, i, c) /\ At(e, j, c) => d = e /\ i = j

(* lmsd never calls itself. *)
NoSelfCall == \A i \in Nat : ~At(Lmsd, i, Lmsd)

(* A backlog has its limit, and is empty once its socket is closed. *)
BacklogTrue ==
    \A d \in Daemons :
        /\ Len(queue[d]) <= Backlog
        /\ path[d] # "live" /\ pc[d] # "unlinked" => queue[d] = <<>>

PlacesInv == OpenIsHeld /\ OnePlace /\ NoSelfCall /\ BacklogTrue

(* A step that adds no connection, and lets go only of closed ones. *)
LettingGo ==
    /\ \A d \in Daemons, i \in Nat, c \in Callers : At(d, i, c)' => At(d, i, c)
    /\ \A d \in Daemons, i \in Nat, c \in Callers :
        Open(c)' /\ At(d, i, c) => At(d, i, c)'
    /\ \A c \in Callers : Open(c)' => Open(c)

(* Such a step keeps every open connection at its one place. *)
LEMMA LettingGoKeeps ==
    ASSUME OpenIsHeld, OnePlace, NoSelfCall, LettingGo
    PROVE  (OpenIsHeld /\ OnePlace /\ NoSelfCall)'
<1>1. OpenIsHeld'
  BY DEF OpenIsHeld, LettingGo
<1>2. OnePlace'
  BY DEF OnePlace, LettingGo
<1>3. NoSelfCall'
  BY DaemonFacts DEF NoSelfCall, LettingGo
<1> QED
  BY <1>1, <1>2, <1>3

(* After the service's close(), or the caller's, a connection is not open. *)
LEMMA CloseEnds ==
    ASSUME phase \in [Callers -> Phases], NEW S, NEW c \in Callers
    PROVE  Close(S)[c] \in {"open", "sent"} => phase[c] \in {"open", "sent"} /\ c \notin S
  BY DEF Close, Over, Phases

(* Likewise for the caller's own close(). *)
LEMMA HangUpEnds ==
    ASSUME NEW p \in Phases PROVE HangUp(p) \notin {"open", "sent"}
  BY DEF HangUp, Phases

(* A step that moves no connection only has to open none. *)
LEMMA NothingMoves ==
    ASSUME queue' = queue, peer' = peer, \A c \in Callers : Open(c)' => Open(c)
    PROVE  LettingGo
  BY DEF LettingGo, At

(* A caller found in no service's hands is at no place. *)
LEMMA NotHeld ==
    ASSUME NEW d \in Daemons, NEW c, c \notin Held(d), NEW i \in Nat
    PROVE  ~At(d, i, c)
  BY DEF Held, Waiting, Served, At

(* The service d lets go of its peer and the connection is closed. *)
LEMMA PeerClosed ==
    ASSUME TypeOK, NEW d \in Daemons,
           queue' = queue, peer' = [peer EXCEPT ![d] = Nobody],
           \A c \in Callers : Open(c)' => Open(c) /\ c \notin Served(d)
    PROVE  LettingGo
<1>1. ASSUME NEW e \in Daemons, NEW i \in Nat, NEW c \in Callers, At(e, i, c)'
      PROVE  At(e, i, c)
  BY <1>1 DEF At, TypeOK
<1>2. ASSUME NEW e \in Daemons, NEW i \in Nat, NEW c \in Callers, Open(c)', At(e, i, c)
      PROVE  At(e, i, c)'
  <2>1. c \notin Served(d)
    BY <1>2
  <2> QED
    BY <1>2, <2>1 DEF At, Served, TypeOK
<1> QED
  BY <1>1, <1>2 DEF LettingGo

(* The service d lets go of its backlog. *)
LEMMA BacklogClosed ==
    ASSUME TypeOK, NEW d \in Daemons,
           queue' = [queue EXCEPT ![d] = <<>>], peer' = peer,
           \A c \in Callers : Open(c)' => Open(c) /\ c \notin Waiting(d)
    PROVE  LettingGo
<1>1. ASSUME NEW e \in Daemons, NEW i \in Nat, NEW c \in Callers, At(e, i, c)'
      PROVE  At(e, i, c)
  <2>1. queue'[e] = IF e = d THEN <<>> ELSE queue[e]
    BY DEF TypeOK
  <2> QED
    BY <1>1, <2>1 DEF At
<1>2. ASSUME NEW e \in Daemons, NEW i \in Nat, NEW c \in Callers, Open(c)', At(e, i, c)
      PROVE  At(e, i, c)'
  <2>1. c \notin Waiting(d)
    BY <1>2
  <2>2. i \in DOMAIN queue[e] /\ queue[e][i].by = c => e # d
    BY <2>1 DEF Waiting
  <2> QED
    BY <1>2, <2>2 DEF At, TypeOK
<1> QED
  BY <1>1, <1>2 DEF LettingGo

(* The new connection of c is at the end of d's backlog. *)
LEMMA Connected ==
    ASSUME ServicesInv, PlacesInv, NEW c \in Callers, NEW d \in Daemons, NEW k,
           \A e \in Daemons : c \notin Held(e),
           c # Lmsd \/ d # Lmsd,
           queue' = [queue EXCEPT ![d] = Append(@, [by |-> c, kind |-> k])],
           peer' = peer, phase' = [phase EXCEPT ![c] = "open"]
    PROVE  (OpenIsHeld /\ OnePlace /\ NoSelfCall)'
<1> DEFINE n == Len(queue[d]) + 1
<1>1. queue[d] \in Seq(Conns) /\ n \in Nat
  BY DEF ServicesInv, TypeOK
<1>2. queue'[d] = Append(queue[d], [by |-> c, kind |-> k])
  BY DEF ServicesInv, TypeOK
<1>3. /\ DOMAIN queue'[d] = 1 .. n
      /\ DOMAIN queue[d] = 1 .. Len(queue[d])
      /\ queue'[d][n].by = c
      /\ \A i \in DOMAIN queue[d] : queue'[d][i] = queue[d][i]
  BY <1>1, <1>2
<1>4. \A e \in Daemons : e # d => queue'[e] = queue[e]
  BY DEF ServicesInv, TypeOK
<1>5. ASSUME NEW e \in Daemons, NEW i \in Nat, NEW b \in Callers
      PROVE  At(e, i, b)' <=> At(e, i, b) \/ (e = d /\ i = n /\ b = c)
  <2>1. CASE e = d
    <3>1. i \in DOMAIN queue'[d] <=> i \in DOMAIN queue[d] \/ i = n
      BY <1>1, <1>3
    <3>2. n # 0 /\ n \notin DOMAIN queue[d]
      BY <1>1, <1>3
    <3> HIDE DEF n
    <3> QED
      BY <1>3, <2>1, <3>1, <3>2 DEF At
  <2>2. CASE e # d
    BY <1>4, <2>2 DEF At
  <2> QED
    BY <2>1, <2>2
<1>6. \A e \in Daemons, i \in Nat : ~At(e, i, c)
  BY NotHeld
<1>7. phase \in [Callers -> Phases]
  BY DEF ServicesInv, TypeOK
<1> HIDE DEF n
<1>8. OpenIsHeld'
  <2>1. ASSUME NEW b \in Callers, Open(b)'
        PROVE  \E e \in Daemons, i \in Nat : At(e, i, b)'
    <3>1. CASE b = c
      BY <1>1, <1>5, <3>1
    <3>2. CASE b # c
      <4>1. Open(b)
        BY <1>7, <2>1, <3>2 DEF Open
      <4>2. PICK e \in Daemons, i \in Nat : At(e, i, b)
        BY <4>1 DEF PlacesInv, OpenIsHeld
      <4> QED
        BY <1>5, <4>2
    <3> QED
      BY <3>1, <3>2
  <2> QED
    BY <2>1 DEF OpenIsHeld
<1>9. OnePlace'
  <2>1. ASSUME NEW b \in Callers, NEW e \in Daemons, NEW f \in Daemons,
               NEW i \in Nat, NEW j \in Nat, At(e, i, b)', At(f, j, b)'
        PROVE  e = f /\ i = j
    <3>1. CASE b = c
      BY <1>5, <1>6, <2>1, <3>1
    <3>2. CASE b # c
      <4>1. At(e, i, b) /\ At(f, j, b)
        BY <1>5, <2>1, <3>2
      <4> QED
        BY <4>1 DEF PlacesInv, OnePlace
    <3> QED
      BY <3>1, <3>2
  <2> QED
    BY <2>1 DEF OnePlace
<1>10. NoSelfCall'
  <2>1. ASSUME NEW i \in Nat, At(Lmsd, i, Lmsd)' PROVE FALSE
    <3>1. At(Lmsd, i, Lmsd)
      BY <1>5, <2>1, DaemonFacts
    <3> QED
      BY <3>1 DEF PlacesInv, NoSelfCall
  <2> QED
    BY <2>1 DEF NoSelfCall
<1> QED
  BY <1>8, <1>9, <1>10

(* accept() moves every connection of d one place ahead. *)
LEMMA Accepted ==
    ASSUME ServicesInv, PlacesInv, NEW d \in Daemons, Accept(d)
    PROVE  (OpenIsHeld /\ OnePlace /\ NoSelfCall)'
<1>1. queue[d] \in Seq(Conns) /\ queue[d] # <<>>
  BY DEF ServicesInv, TypeOK, Accept
<1>2. peer[d] = Nobody
  BY DEF ServicesInv, TypeOK, Accept, Busy
<1>3. /\ Head(queue[d]) = queue[d][1]
      /\ Head(queue[d]) \in Conns
      /\ DOMAIN queue[d] = 1 .. Len(queue[d])
      /\ DOMAIN Tail(queue[d]) = 1 .. (Len(queue[d]) - 1)
      /\ \A i \in DOMAIN Tail(queue[d]) : Tail(queue[d])[i] = queue[d][i + 1]
      /\ Len(queue[d]) \in Nat \ {0}
  BY <1>1
<1>4. queue'[d] = Tail(queue[d]) /\ peer'[d] = queue[d][1]
  BY <1>3 DEF ServicesInv, TypeOK, Accept
<1>5. \A e \in Daemons : e # d => queue'[e] = queue[e] /\ peer'[e] = peer[e]
  BY DEF ServicesInv, TypeOK, Accept
<1> DEFINE from(e, i) == IF e = d THEN i + 1 ELSE i
<1>6. ASSUME NEW e \in Daemons, NEW i \in Nat, NEW b \in Callers
      PROVE  At(e, i, b)' <=> At(e, from(e, i), b)
  <2>1. CASE e = d
    <3>1. peer'[d] # Nobody
      BY <1>3, <1>4, NobodyIsNoConn
    <3>2. CASE i = 0
      <4>1. At(d, 0, b)' <=> queue[d][1].by = b
        BY <1>3, <1>4, <3>1 DEF At
      <4>2. At(d, 1, b) <=> queue[d][1].by = b
        BY <1>3 DEF At
      <4> QED
        BY <2>1, <3>2, <4>1, <4>2
    <3>3. CASE i # 0
      <4>1. i \in DOMAIN Tail(queue[d]) <=> i + 1 \in DOMAIN queue[d]
        BY <1>3, <3>3
      <4>2. At(d, i, b)' <=> i \in DOMAIN Tail(queue[d]) /\ Tail(queue[d])[i].by = b
        BY <1>4, <3>3 DEF At
      <4>3. At(d, i + 1, b) <=> i + 1 \in DOMAIN queue[d] /\ queue[d][i + 1].by = b
        BY <1>2 DEF At
      <4>4. i \in DOMAIN Tail(queue[d]) => Tail(queue[d])[i] = queue[d][i + 1]
        BY <1>3
      <4> QED
        BY <2>1, <4>1, <4>2, <4>3, <4>4
    <3> QED
      BY <3>2, <3>3
  <2>2. CASE e # d
    BY <1>5, <2>2 DEF At
  <2> QED
    BY <2>1, <2>2
<1>7. \A e \in Daemons, i \in Nat : from(e, i) \in Nat
  OBVIOUS
<1>8. \A b : ~At(d, 0, b)
  BY <1>2, <1>3 DEF At
<1>9. OpenIsHeld'
  <2>1. ASSUME NEW b \in Callers, Open(b)'
        PROVE  \E e \in Daemons, i \in Nat : At(e, i, b)'
    <3>1. Open(b)
      BY <2>1 DEF Open, Accept, callerVars
    <3>2. PICK e \in Daemons, j \in Nat : At(e, j, b)
      BY <3>1 DEF PlacesInv, OpenIsHeld
    <3>3. CASE e = d
      <4>1. j # 0 /\ j - 1 \in Nat /\ from(d, j - 1) = j
        BY <1>8, <3>2, <3>3
      <4> HIDE DEF from
      <4> QED
        BY <1>6, <3>2, <3>3, <4>1
    <3>4. CASE e # d
      <4>1. from(e, j) = j
        BY <3>4
      <4> HIDE DEF from
      <4> QED
        BY <1>6, <3>2, <4>1
    <3> QED
      BY <3>3, <3>4
  <2> QED
    BY <2>1 DEF OpenIsHeld
<1>10. OnePlace'
  <2>1. ASSUME NEW b \in Callers, NEW e \in Daemons, NEW f \in Daemons,
               NEW i \in Nat, NEW j \in Nat, At(e, i, b)', At(f, j, b)'
        PROVE  e = f /\ i = j
    <3>1. At(e, from(e, i), b) /\ At(f, from(f, j), b)
      BY <1>6, <2>1
    <3>2. e = f /\ from(e, i) = from(f, j)
      <4> HIDE DEF from
      <4> QED
        BY <1>7, <3>1 DEF PlacesInv, OnePlace
    <3> QED
      BY <3>2
  <2> QED
    BY <2>1 DEF OnePlace
<1>11. NoSelfCall'
  <2>1. ASSUME NEW i \in Nat, At(Lmsd, i, Lmsd)' PROVE FALSE
    <3>1. At(Lmsd, from(Lmsd, i), Lmsd) /\ from(Lmsd, i) \in Nat
      BY <1>6, <1>7, <2>1, DaemonFacts
    <3> HIDE DEF from
    <3> QED
      BY <3>1 DEF PlacesInv, NoSelfCall
  <2> QED
    BY <2>1 DEF NoSelfCall
<1> QED
  BY <1>9, <1>10, <1>11

(* A process that ends lets go of everything it had. *)
LEMMA DieKeepsPlaces ==
    ASSUME ServicesInv, PlacesInv, NEW d \in Daemons, Die(d) PROVE LettingGo
<1>1. phase \in [Callers -> Phases]
  BY DEF ServicesInv, TypeOK
<1>2. ASSUME NEW c \in Callers, Open(c)' PROVE Open(c) /\ c \notin Held(d)
  <2>1. CASE c = d
    <3>1. phase'[c] = HangUp(phase[c])
      BY <2>1 DEF Die
    <3> QED
      BY <1>1, <1>2, <3>1, HangUpEnds DEF Open
  <2>2. CASE c # d
    <3>1. phase'[c] = Close(Held(d))[c]
      BY <2>2 DEF Die
    <3> QED
      BY <1>1, <1>2, <3>1, CloseEnds DEF Open
  <2> QED
    BY <2>1, <2>2
<1>3. ASSUME NEW e \in Daemons
      PROVE  /\ e = d => queue'[e] = <<>> /\ peer'[e] = Nobody
             /\ e # d => queue'[e] = queue[e] /\ peer'[e] = peer[e]
  BY DEF Die, ServicesInv, TypeOK
<1>4. ASSUME NEW e \in Daemons, NEW i \in Nat, NEW c \in Callers, At(e, i, c)'
      PROVE  At(e, i, c)
  BY <1>3, <1>4 DEF At
<1>5. ASSUME NEW e \in Daemons, NEW i \in Nat, NEW c \in Callers, Open(c)', At(e, i, c)
      PROVE  At(e, i, c)'
  <2>1. e # d
    BY <1>2, <1>5, NotHeld
  <2> QED
    BY <1>3, <1>5, <2>1 DEF At
<1> QED
  BY <1>2, <1>4, <1>5 DEF LettingGo

(* A service that has served its peer, with or without a response. *)
LEMMA ServedKeepsPlaces ==
    ASSUME ServicesInv, NEW d \in Daemons, Done(d),
           phase' = Close(Served(d)) \/ (peer[d] # Nobody /\ Deliver(peer[d].by))
    PROVE  LettingGo
<1>1. phase \in [Callers -> Phases] /\ TypeOK
  BY DEF ServicesInv, TypeOK
<1>2. ASSUME NEW c \in Callers, Open(c)' PROVE Open(c) /\ c \notin Served(d)
  <2>1. CASE phase' = Close(Served(d))
    BY <1>1, <1>2, <2>1, CloseEnds DEF Open
  <2>2. CASE peer[d] # Nobody /\ Deliver(peer[d].by)
    <3>1. Served(d) = {peer[d].by}
      BY <2>2 DEF Served
    <3>2. Over(c, "answered") \notin {"open", "sent"}
      BY DEF Over
    <3>3. phase'[c] = IF c = peer[d].by THEN Over(c, "answered") ELSE phase[c]
      BY <1>1, <2>2 DEF Deliver
    <3> QED
      BY <1>2, <3>1, <3>2, <3>3 DEF Open
  <2> QED
    BY <2>1, <2>2
<1> QED
  BY <1>1, <1>2, PeerClosed DEF Done

(* Every open connection stays at its one place, whatever step is taken. *)
LEMMA HeldStep ==
    ServicesInv /\ PlacesInv /\ [Next]_vars => (OpenIsHeld /\ OnePlace /\ NoSelfCall)'
<1> DEFINE Goal == (OpenIsHeld /\ OnePlace /\ NoSelfCall)'
<1> SUFFICES ASSUME ServicesInv, PlacesInv, [Next]_vars PROVE Goal
  OBVIOUS
<1> USE DaemonFacts
<1>a. phase \in [Callers -> Phases] /\ TypeOK
  BY DEF ServicesInv, TypeOK
<1>b. LettingGo => Goal
  BY LettingGoKeeps DEF PlacesInv
<1>c. queue' = queue /\ peer' = peer /\ (\A c \in Callers : Open(c)' => Open(c)) => Goal
  BY <1>b, NothingMoves
<1>d. Lmsd \notin Apps /\ Apps \subseteq Callers
  BY DEF Daemons, Callers
<1>1. ASSUME NEW c \in Apps, NEW d \in Daemons, NEW k \in LumadKinds \cup LmsdKinds, Connect(c, d, k) PROVE Goal
  BY <1>1, <1>d, Connected DEF Connect
<1>2. ASSUME NEW c \in Apps, Send(c) PROVE Goal
  BY <1>2, <1>a, <1>c, <1>d DEF Send, Open
<1>3. ASSUME NEW c \in Apps, Leave(c) PROVE Goal
  BY <1>3, <1>a, <1>c, <1>d, HangUpEnds DEF Leave, Open
<1>4. ASSUME NEW d \in Daemons, Start(d) PROVE Goal
  BY <1>4, <1>c DEF Start, callerVars, Open
<1>5. ASSUME NEW d \in Daemons, Listen(d) PROVE Goal
  BY <1>5, <1>c DEF Listen, callerVars, Open
<1>6. ASSUME NEW d \in Daemons, Accept(d) PROVE Goal
  BY <1>6, Accepted
<1>7. ASSUME NEW d \in Daemons, Receive(d) PROVE Goal
  BY <1>7, <1>c DEF Receive, callerVars, Open
<1>8. ASSUME NEW d \in Daemons, ReceiveNothing(d) PROVE Goal
  BY <1>8, <1>b, ServedKeepsPlaces DEF ReceiveNothing
<1>9. ASSUME NEW d \in Daemons, Reply(d) PROVE Goal
  <2>1. peer[d] # Nobody
    BY <1>9 DEF Reply, ServicesInv, TypeOK
  <2> QED
    BY <1>9, <1>b, <2>1, ServedKeepsPlaces DEF Reply
<1>10. ASSUME NEW d \in Daemons, ReplyToNobody(d), d = Lumad PROVE Goal
  BY <1>10, <1>b, ServedKeepsPlaces DEF ReplyToNobody
<1>11. ASSUME NEW d \in Daemons, pc[d] # "down", Die(d) PROVE Goal
  BY <1>11, <1>b, DieKeepsPlaces
<1>12. ASSUME RefusePower PROVE Goal
  BY <1>12, <1>b, ServedKeepsPlaces DEF RefusePower
<1>13. ASSUME AcceptPower PROVE Goal
  <2>1. ASSUME NEW c \in Callers, Open(c)' PROVE Open(c)
    <3>1. Over(peer[Lumad].by, "answered") \notin {"open", "sent"}
      BY DEF Over
    <3> QED
      BY <1>13, <1>a, <2>1, <3>1 DEF AcceptPower, Deliver, Open
  <2> QED
    BY <1>13, <1>c, <2>1 DEF AcceptPower
<1>14. ASSUME RebootFails PROVE Goal
  BY <1>14, <1>b, ServedKeepsPlaces DEF RebootFails
<1>15. ASSUME PowerOff PROVE Goal
  <2>1. \A c \in Callers : ~Open(c)'
    BY <1>15 DEF PowerOff, Open
  <2>2. \A d \in Daemons, i \in Nat, c \in Callers : ~At(d, i, c)'
    BY <1>15 DEF PowerOff, At
  <2> QED
    BY <1>b, <2>1, <2>2 DEF LettingGo
<1>16. ASSUME PingConnect PROVE Goal
  <2>1. \A e \in Daemons : Lmsd \notin Held(e)
    <3>1. Lmsd \notin Held(Lumad)
      BY <1>16 DEF PingConnect
    <3>2. Lmsd \notin Held(Lmsd)
      <4>1. ~At(Lmsd, 0, Lmsd) /\ \A i \in DOMAIN queue[Lmsd] : ~At(Lmsd, i, Lmsd)
        BY <1>a DEF PlacesInv, NoSelfCall, TypeOK
      <4> QED
        BY <4>1 DEF At, Held, Waiting, Served
    <3> QED
      BY <3>1, <3>2 DEF Daemons
  <2> QED
    BY <1>16, <2>1, Connected DEF PingConnect
<1>17. ASSUME PingSend PROVE Goal
  BY <1>17, <1>a, <1>c DEF PingSend, Open
<1>18. ASSUME PingFails PROVE Goal
  BY <1>18, <1>a, <1>c, HangUpEnds DEF PingFails, Open
<1>19. ASSUME PingSucceeds PROVE Goal
  BY <1>19, <1>a, <1>c DEF PingSucceeds, Open
<1>20. ASSUME NEW d \in Daemons, Terminate(d) PROVE Goal
  BY <1>20, <1>c DEF Terminate, callerVars, Open
<1>21. ASSUME NEW d \in Daemons, UnlinkSocket(d) PROVE Goal
  <2>1. CASE d = Lumad
    BY <1>21, <1>a, <1>b, <2>1, BacklogClosed, CloseEnds DEF UnlinkSocket, Open
  <2>2. CASE d # Lumad
    BY <1>21, <1>c, <2>2 DEF UnlinkSocket, Open
  <2> QED
    BY <2>1, <2>2
<1>22. ASSUME NEW d \in Daemons, Exit(d) PROVE Goal
  BY <1>22, <1>a, <1>b, BacklogClosed, CloseEnds DEF Exit, Open
<1>23. ASSUME UNCHANGED vars PROVE Goal
  BY <1>23, <1>c DEF vars, callerVars, Open
<1>24. ASSUME NEW d \in Daemons, AcceptFails(d) PROVE Goal
  BY <1>24, <1>c DEF AcceptFails, callerVars, Open
<1> HIDE DEF Goal
<1> QED
  BY <1>1, <1>2, <1>3, <1>4, <1>5, <1>6, <1>7, <1>8, <1>9, <1>10, <1>11, <1>12, <1>13, <1>14, <1>15, <1>16, <1>17, <1>18, <1>19, <1>20, <1>21, <1>22, <1>23, <1>24
     DEF Next, DaemonStep, Kill, ReplyToNobody, PingBroken

(* A backlog never outgrows its limit, and is gone with its socket. *)
LEMMA BacklogStep == ServicesInv /\ PlacesInv /\ [Next]_vars => BacklogTrue'
<1> SUFFICES ASSUME ServicesInv, PlacesInv, [Next]_vars PROVE BacklogTrue'
  OBVIOUS
<1> USE DaemonFacts DEF ServicesInv, PlacesInv, BacklogTrue, TypeOK, Busy
<1>a. \A d \in Daemons : Len(queue[d]) \in Nat
  OBVIOUS
<1>b. Len(<<>>) = 0 /\ Backlog \in Nat
  OBVIOUS
<1>1. ASSUME NEW c \in Apps, NEW d \in Daemons, NEW k \in LumadKinds \cup LmsdKinds, Connect(c, d, k) PROVE BacklogTrue'
  <2>1. Len(Append(queue[d], [by |-> c, kind |-> k])) = Len(queue[d]) + 1
    OBVIOUS
  <2>2. Len(queue[d]) + 1 <= Backlog
    BY <1>1, <1>a, <1>b DEF Connect
  <2> QED
    BY <1>1, <2>1, <2>2 DEF Connect, daemonVars
<1>2. ASSUME NEW c \in Apps, Send(c) PROVE BacklogTrue'
  BY <1>2 DEF Send, daemonVars
<1>3. ASSUME NEW c \in Apps, Leave(c) PROVE BacklogTrue'
  BY <1>3 DEF Leave, daemonVars
<1>4. ASSUME NEW d \in Daemons, Start(d) PROVE BacklogTrue'
  BY <1>4 DEF Start, callerVars
<1>5. ASSUME NEW d \in Daemons, Listen(d) PROVE BacklogTrue'
  BY <1>5 DEF Listen, OpenSocket, NextTurn, callerVars
<1>6. ASSUME NEW d \in Daemons, Accept(d) PROVE BacklogTrue'
  <2>1. Len(Tail(queue[d])) <= Backlog
    <3>1. Len(Tail(queue[d])) = Len(queue[d]) - 1
      BY <1>6 DEF Accept
    <3> QED
      BY <1>a, <1>b, <3>1
  <2>2. path[d] = "live"
    BY <1>6 DEF Accept
  <2> QED
    BY <1>6, <2>1, <2>2 DEF Accept, callerVars
<1>7. ASSUME NEW d \in Daemons, Receive(d) PROVE BacklogTrue'
  BY <1>7 DEF Receive, callerVars
<1>8. ASSUME NEW d \in Daemons, ReceiveNothing(d) PROVE BacklogTrue'
  BY <1>8 DEF ReceiveNothing, Done, NextTurn
<1>9. ASSUME NEW d \in Daemons, Reply(d) PROVE BacklogTrue'
  BY <1>9 DEF Reply, Done, NextTurn
<1>10. ASSUME NEW d \in Daemons, ReplyToNobody(d), d = Lumad PROVE BacklogTrue'
  BY <1>10 DEF ReplyToNobody, Done, NextTurn
<1>11. ASSUME NEW d \in Daemons, pc[d] # "down", Die(d) PROVE BacklogTrue'
  BY <1>11, <1>b DEF Die
<1>12. ASSUME RefusePower PROVE BacklogTrue'
  BY <1>12 DEF RefusePower, Done, NextTurn
<1>13. ASSUME AcceptPower PROVE BacklogTrue'
  BY <1>13 DEF AcceptPower
<1>14. ASSUME RebootFails PROVE BacklogTrue'
  BY <1>14 DEF RebootFails, Done, NextTurn
<1>15. ASSUME PowerOff PROVE BacklogTrue'
  BY <1>15, <1>b DEF PowerOff
<1>16. ASSUME PingConnect PROVE BacklogTrue'
  <2>1. Len(Append(queue[Lumad], [by |-> Lmsd, kind |-> "query"])) = Len(queue[Lumad]) + 1
    OBVIOUS
  <2>2. Len(queue[Lumad]) + 1 <= Backlog
    BY <1>16, <1>a, <1>b DEF PingConnect
  <2> QED
    BY <1>16, <2>1, <2>2 DEF PingConnect
<1>17. ASSUME PingSend PROVE BacklogTrue'
  BY <1>17 DEF PingSend
<1>18. ASSUME PingFails PROVE BacklogTrue'
  BY <1>18 DEF PingFails
<1>19. ASSUME PingSucceeds PROVE BacklogTrue'
  BY <1>19 DEF PingSucceeds, AtStart
<1>20. ASSUME NEW d \in Daemons, Terminate(d) PROVE BacklogTrue'
  BY <1>20 DEF Terminate, callerVars
<1>21. ASSUME NEW d \in Daemons, UnlinkSocket(d) PROVE BacklogTrue'
  BY <1>21, <1>b DEF UnlinkSocket
<1>22. ASSUME NEW d \in Daemons, Exit(d) PROVE BacklogTrue'
  BY <1>22, <1>b DEF Exit
<1>23. ASSUME UNCHANGED vars PROVE BacklogTrue'
  BY <1>23 DEF vars, daemonVars
<1>24. ASSUME NEW d \in Daemons, AcceptFails(d) PROVE BacklogTrue'
  BY <1>24 DEF AcceptFails, callerVars
<1> HIDE DEF ServicesInv, PlacesInv, BacklogTrue, TypeOK, Busy
<1> QED
  BY <1>1, <1>2, <1>3, <1>4, <1>5, <1>6, <1>7, <1>8, <1>9, <1>10, <1>11, <1>12, <1>13, <1>14, <1>15, <1>16, <1>17, <1>18, <1>19, <1>20, <1>21, <1>22, <1>23, <1>24
     DEF Next, DaemonStep, Kill, ReplyToNobody, PingBroken

(* Initially nobody has connected. *)
LEMMA PlacesInit == Init => PlacesInv
<1> SUFFICES ASSUME Init PROVE PlacesInv
  OBVIOUS
<1> USE DaemonFacts DEF Init
<1>1. OpenIsHeld
  BY DEF OpenIsHeld, Open
<1>2. \A d \in Daemons, i \in Nat, c \in Callers : ~At(d, i, c)
  BY DEF At
<1>3. BacklogTrue
  BY DEF BacklogTrue
<1> QED
  BY <1>1, <1>2, <1>3 DEF PlacesInv, OnePlace, NoSelfCall

(* What the places say is what NobodyForgotten asks for. *)
LEMMA PlacesSuffice == ServicesInv /\ PlacesInv => NobodyForgotten
<1> SUFFICES ASSUME ServicesInv, PlacesInv, NEW c \in Callers, Open(c)
             PROVE  \E d \in Daemons : pc[d] # "down" /\ \E i \in 0 .. Backlog : Places(c) = {<<d, i>>}
  BY DEF NobodyForgotten, Open
<1> USE DEF ServicesInv, TypeOK
<1>1. \A d \in Daemons : DOMAIN queue[d] = 1 .. Len(queue[d]) /\ Len(queue[d]) \in Nat
  OBVIOUS
<1>2. \A d \in Daemons, i \in Nat : At(d, i, c) => i \in 0 .. Backlog
  BY <1>1 DEF At, PlacesInv, BacklogTrue
<1>3. \A d \in Daemons, i \in 0 .. Backlog : <<d, i>> \in Places(c) <=> At(d, i, c)
  BY DEF Places, Served, At
<1>4. Places(c) \subseteq Daemons \X (0 .. Backlog)
  BY DEF Places
<1>5. PICK d \in Daemons, i \in Nat : At(d, i, c)
  BY DEF PlacesInv, OpenIsHeld
<1>6. i \in 0 .. Backlog /\ <<d, i>> \in Places(c)
  BY <1>2, <1>3, <1>5
<1>7. ASSUME NEW at \in Places(c) PROVE at = <<d, i>>
  <2>1. PICK e \in Daemons, j \in 0 .. Backlog : at = <<e, j>>
    BY <1>4
  <2>2. At(e, j, c) /\ j \in Nat
    BY <1>3, <1>7, <2>1
  <2> QED
    BY <1>5, <2>1, <2>2 DEF PlacesInv, OnePlace
<1>8. pc[d] # "down"
  <2>1. CASE i = 0
    <3>1. i \notin DOMAIN queue[d]
      BY <1>1, <2>1
    <3>2. peer[d] # Nobody
      BY <1>5, <3>1 DEF At
    <3> QED
      BY <3>2 DEF Busy
  <2>2. CASE i # 0
    <3>1. queue[d] # <<>>
      BY <1>5, <2>2 DEF At
    <3> QED
      BY <3>1 DEF PlacesInv, BacklogTrue, Busy
  <2> QED
    BY <2>1, <2>2
<1>9. Places(c) = {<<d, i>>}
  BY <1>6, <1>7
<1> HIDE DEF ServicesInv, TypeOK
<1> QED
  BY <1>6, <1>8, <1>9

(* Whoever has an open connection is in the backlog of one running service *)
(* or being served by it, at one place, whatever crashes and reboots       *)
(* happen.                                                                 *)
THEOREM NobodyIsForgotten == Spec => []NobodyForgotten
<1>1. PlacesInv /\ ServicesInv /\ [Next]_vars => PlacesInv'
  BY HeldStep, BacklogStep DEF PlacesInv
<1>2. Spec => []PlacesInv
  BY <1>1, PlacesInit, ServicesInvHolds, PTL DEF Spec
<1> QED
  BY <1>2, PlacesSuffice, ServicesInvHolds, PTL

-----------------------------------------------------------------------------
(* lumad removes an old ready file before it listens, and never pings.     *)
LumadHonest ==
    /\ pc[Lumad] = "starting" => ~ready[Lumad]
    /\ pc[Lumad] \in {"pinging", "pingSend", "pingRecv"} => peer[Lumad] # Nobody

(* No step makes lumad's ready file lie. *)
LEMMA LumadHonestStep == ServicesInv /\ LumadHonest /\ [Next]_vars => LumadHonest'
<1> SUFFICES ASSUME ServicesInv, LumadHonest, [Next]_vars PROVE LumadHonest'
  OBVIOUS
<1> USE DaemonFacts DEF ServicesInv, LumadHonest, TypeOK, Stopping
<1>1. ASSUME NEW c \in Apps, NEW d \in Daemons, NEW k \in LumadKinds \cup LmsdKinds, Connect(c, d, k) PROVE LumadHonest'
  BY <1>1 DEF Connect, daemonVars
<1>2. ASSUME NEW c \in Apps, Send(c) PROVE LumadHonest'
  BY <1>2 DEF Send, daemonVars
<1>3. ASSUME NEW c \in Apps, Leave(c) PROVE LumadHonest'
  BY <1>3 DEF Leave, daemonVars
<1>4. ASSUME NEW d \in Daemons, Start(d) PROVE LumadHonest'
  BY <1>4 DEF Start, callerVars
<1>5. ASSUME NEW d \in Daemons, Listen(d) PROVE LumadHonest'
  BY <1>5 DEF Listen, OpenSocket, NextTurn, callerVars
<1>6. ASSUME NEW d \in Daemons, Accept(d) PROVE LumadHonest'
  BY <1>6 DEF Accept, callerVars
<1>7. ASSUME NEW d \in Daemons, Receive(d) PROVE LumadHonest'
  BY <1>7 DEF Receive, callerVars
<1>8. ASSUME NEW d \in Daemons, ReceiveNothing(d) PROVE LumadHonest'
  BY <1>8 DEF ReceiveNothing, Done, NextTurn
<1>9. ASSUME NEW d \in Daemons, Reply(d) PROVE LumadHonest'
  BY <1>9 DEF Reply, Done, NextTurn
<1>10. ASSUME NEW d \in Daemons, ReplyToNobody(d), d = Lumad PROVE LumadHonest'
  BY <1>10 DEF ReplyToNobody, Done, NextTurn
<1>11. ASSUME NEW d \in Daemons, pc[d] # "down", Die(d) PROVE LumadHonest'
  BY <1>11 DEF Die
<1>12. ASSUME RefusePower PROVE LumadHonest'
  BY <1>12 DEF RefusePower, Done, NextTurn
<1>13. ASSUME AcceptPower PROVE LumadHonest'
  BY <1>13 DEF AcceptPower
<1>14. ASSUME RebootFails PROVE LumadHonest'
  BY <1>14 DEF RebootFails, Done, NextTurn
<1>15. ASSUME PowerOff PROVE LumadHonest'
  BY <1>15 DEF PowerOff
<1>16. ASSUME PingConnect PROVE LumadHonest'
  BY <1>16 DEF PingConnect
<1>17. ASSUME PingSend PROVE LumadHonest'
  BY <1>17 DEF PingSend
<1>18. ASSUME PingFails PROVE LumadHonest'
  BY <1>18 DEF PingFails
<1>19. ASSUME PingSucceeds PROVE LumadHonest'
  BY <1>19 DEF PingSucceeds
<1>20. ASSUME NEW d \in Daemons, Terminate(d) PROVE LumadHonest'
  BY <1>20 DEF Terminate, callerVars
<1>21. ASSUME NEW d \in Daemons, UnlinkSocket(d) PROVE LumadHonest'
  BY <1>21 DEF UnlinkSocket
<1>22. ASSUME NEW d \in Daemons, Exit(d) PROVE LumadHonest'
  BY <1>22 DEF Exit
<1>23. ASSUME UNCHANGED vars PROVE LumadHonest'
  BY <1>23 DEF vars, daemonVars
<1>24. ASSUME NEW d \in Daemons, AcceptFails(d) PROVE LumadHonest'
  BY <1>24 DEF AcceptFails, callerVars
<1> HIDE DEF ServicesInv, LumadHonest, TypeOK, Stopping
<1> QED
  BY <1>1, <1>2, <1>3, <1>4, <1>5, <1>6, <1>7, <1>8, <1>9, <1>10, <1>11, <1>12, <1>13, <1>14, <1>15, <1>16, <1>17, <1>18, <1>19, <1>20, <1>21, <1>22, <1>23, <1>24
     DEF Next, DaemonStep, Kill, ReplyToNobody, PingBroken

(* Beside a lumad that is before or in its loop, a ready file means that   *)
(* it takes connections, also after a process that was killed.             *)
THEOREM ReadyTellsTheTruth == Spec => []ReadyMeansLive
<1>1. Init => LumadHonest
  BY DaemonFacts DEF Init, LumadHonest, Stopping
<1>2. ServicesInv /\ LumadHonest => ReadyMeansLive
  BY DaemonFacts DEF ServicesInv, TypeOK, PCs, Starting, Looping, Stopping, LumadHonest, ReadyMeansLive
<1> QED
  BY <1>1, <1>2, LumadHonestStep, ServicesInvHolds, PTL DEF Spec

-----------------------------------------------------------------------------
(* Who waits for whom.  A caller in a service's hands has not been let go; *)
(* the one whose request was read has sent it, and only lumad is asked for *)
(* power.                                                                  *)
Pings == {"pinging", "pingSend", "pingRecv"}
Patient == {"open", "sent", "leftOpen", "leftSent"}
Asked == {"sent", "leftSent"}

PeerWaits(d) ==
    peer[d] # Nobody =>
        /\ peer[d].kind \in Kinds(d)
        /\ pc[d] = "recv" => phase[peer[d].by] \in Patient
        /\ pc[d] \in {"reply"} \cup Pings => phase[peer[d].by] \in Asked
QueueWaits(d) ==
    \A i \in DOMAIN queue[d] :
        queue[d][i].kind \in Kinds(d) /\ phase[queue[d][i].by] \in Patient

(* lmsd's own connection is where its main() says, and lumad pings nobody. *)
PingWaits ==
    /\ pc[Lumad] \notin Pings
    /\ pc[Lmsd] = "pingSend" => phase[Lmsd] \in {"open", "lost"}
    /\ pc[Lmsd] = "pingRecv" => phase[Lmsd] \in {"sent", "answered", "lost"}
    /\ pc[Lmsd] \notin {"pingSend", "pingRecv"} =>
           phase[Lmsd] \in {"idle", "leftOpen", "leftSent"}

(* A connection that lmsd has closed and lumad has not.                    *)
LeftIsHeld == phase[Lmsd] \in {"leftOpen", "leftSent"} => Lmsd \in Held(Lumad)

WaitsInv == PingWaits /\ LeftIsHeld /\ \A d \in Daemons : PeerWaits(d) /\ QueueWaits(d)

(* What the service's close() does to lmsd's own connection.               *)
LEMMA CloseLmsd ==
    ASSUME phase \in [Callers -> Phases], NEW S
    PROVE  Close(S)[Lmsd] = CASE Lmsd \notin S -> phase[Lmsd]
                              [] Lmsd \in S /\ phase[Lmsd] \in {"open", "sent"} -> "lost"
                              [] Lmsd \in S /\ phase[Lmsd] \in {"leftOpen", "leftSent"} -> "idle"
                              [] OTHER -> phase[Lmsd]
  BY DaemonFacts DEF Close, Over

(* lmsd's connection and its place in main() change together.              *)
LEMMA PingWaitsStep == ServicesInv /\ WaitsInv /\ [Next]_vars => PingWaits'
<1> SUFFICES ASSUME ServicesInv, WaitsInv, [Next]_vars PROVE PingWaits'
  OBVIOUS
<1>t. /\ pc \in [Daemons -> PCs] /\ phase \in [Callers -> Phases]
      /\ peer \in [Daemons -> Conns \cup {Nobody}] /\ PingWaits
  BY DEF ServicesInv, TypeOK, WaitsInv
<1> USE DaemonFacts, <1>t DEF PingWaits, Pings
<1>a. Lmsd \notin Apps /\ Apps \subseteq Callers
  BY DEF Daemons, Callers
<1>b. pc[Lumad] = "recv" => peer[Lumad].kind # "health"
  <2>1. pc[Lumad] = "recv" => peer[Lumad] # Nobody
    BY DEF ServicesInv, TypeOK
  <2> QED
    BY <2>1 DEF WaitsInv, PeerWaits, Kinds, LumadKinds
<1>c. ASSUME NEW S
      PROVE  \/ Close(S)[Lmsd] = phase[Lmsd]
             \/ phase[Lmsd] \in {"open", "sent"} /\ Close(S)[Lmsd] = "lost"
             \/ phase[Lmsd] \in {"leftOpen", "leftSent"} /\ Close(S)[Lmsd] = "idle"
  BY CloseLmsd
<1>d. ASSUME NEW c, phase[c] = "sent", Deliver(c)
      PROVE  \/ phase'[Lmsd] = phase[Lmsd]
             \/ phase[Lmsd] = "sent" /\ phase'[Lmsd] = "answered"
  BY <1>d DEF Deliver, Over
<1>e. /\ HangUp("idle") = "idle" /\ HangUp("leftOpen") = "leftOpen"
      /\ HangUp("leftSent") = "leftSent" /\ HangUp("open") = "leftOpen"
      /\ HangUp("sent") = "leftSent" /\ HangUp("answered") = "idle" /\ HangUp("lost") = "idle"
  BY DEF HangUp
<1>1. ASSUME NEW c \in Apps, NEW d \in Daemons, NEW k \in LumadKinds \cup LmsdKinds, Connect(c, d, k) PROVE PingWaits'
  BY <1>1, <1>a DEF Connect, daemonVars
<1>2. ASSUME NEW c \in Apps, Send(c) PROVE PingWaits'
  BY <1>2, <1>a DEF Send, daemonVars
<1>3. ASSUME NEW c \in Apps, Leave(c) PROVE PingWaits'
  BY <1>3, <1>a DEF Leave, daemonVars
<1>4. ASSUME NEW d \in Daemons, Start(d) PROVE PingWaits'
  BY <1>4 DEF Start, callerVars
<1>5. ASSUME NEW d \in Daemons, Listen(d) PROVE PingWaits'
  BY <1>5 DEF Listen, NextTurn, callerVars
<1>6. ASSUME NEW d \in Daemons, Accept(d) PROVE PingWaits'
  BY <1>6 DEF Accept, callerVars
<1>7. ASSUME NEW d \in Daemons, Receive(d) PROVE PingWaits'
  BY <1>7, <1>b DEF Receive, callerVars
<1>8. ASSUME NEW d \in Daemons, ReceiveNothing(d) PROVE PingWaits'
  BY <1>8, <1>c DEF ReceiveNothing, Done, NextTurn
<1>9. ASSUME NEW d \in Daemons, Reply(d) PROVE PingWaits'
  BY <1>9, <1>d DEF Reply, Done, NextTurn
<1>10. ASSUME NEW d \in Daemons, ReplyToNobody(d), d = Lumad PROVE PingWaits'
  BY <1>10, <1>c DEF ReplyToNobody, Done, NextTurn
<1>11. ASSUME NEW d \in Daemons, pc[d] # "down", Die(d) PROVE PingWaits'
  BY <1>11, <1>c, <1>e DEF Die
<1>12. ASSUME RefusePower PROVE PingWaits'
  BY <1>12, <1>c DEF RefusePower, Done, NextTurn
<1>13. ASSUME AcceptPower PROVE PingWaits'
  BY <1>13, <1>d DEF AcceptPower
<1>14. ASSUME RebootFails PROVE PingWaits'
  BY <1>14, <1>c DEF RebootFails, Done, NextTurn
<1>15. ASSUME PowerOff PROVE PingWaits'
  BY <1>15 DEF PowerOff
<1>16. ASSUME PingConnect PROVE PingWaits'
  BY <1>16 DEF PingConnect
<1>17. ASSUME PingSend PROVE PingWaits'
  BY <1>17 DEF PingSend
<1>18. ASSUME PingFails PROVE PingWaits'
  BY <1>18, <1>e DEF PingFails
<1>19. ASSUME PingSucceeds PROVE PingWaits'
  BY <1>19 DEF PingSucceeds
<1>20. ASSUME NEW d \in Daemons, Terminate(d) PROVE PingWaits'
  BY <1>20 DEF Terminate, callerVars
<1>21. ASSUME NEW d \in Daemons, UnlinkSocket(d) PROVE PingWaits'
  BY <1>21, <1>c DEF UnlinkSocket
<1>22. ASSUME NEW d \in Daemons, Exit(d) PROVE PingWaits'
  BY <1>22, <1>c DEF Exit
<1>23. ASSUME UNCHANGED vars PROVE PingWaits'
  BY <1>23 DEF vars, daemonVars, callerVars
<1>24. ASSUME NEW d \in Daemons, AcceptFails(d) PROVE PingWaits'
  BY <1>24 DEF AcceptFails, callerVars
<1> HIDE DEF PingWaits, Pings
<1> QED
  BY <1>1, <1>2, <1>3, <1>4, <1>5, <1>6, <1>7, <1>8, <1>9, <1>10, <1>11, <1>12, <1>13, <1>14, <1>15, <1>16, <1>17, <1>18, <1>19, <1>20, <1>21, <1>22, <1>23, <1>24
     DEF Next, DaemonStep, Kill, ReplyToNobody, PingBroken

(* A connection is in one service's hands, and there in one place. *)
LEMMA Alone ==
    ASSUME TypeOK, PlacesInv, NEW c \in Callers, NEW d \in Daemons
    PROVE  /\ ~(c \in Waiting(d) /\ c \in Served(d))
           /\ \A e \in Daemons : c \in Held(d) /\ c \in Held(e) => d = e
<1>1. ASSUME NEW e \in Daemons
      PROVE  /\ c \in Served(e) => At(e, 0, c)
             /\ c \in Waiting(e) => \E i \in Nat \ {0} : At(e, i, c)
  <2>1. queue[e] \in Seq(Conns)
    BY DEF TypeOK
  <2>2. DOMAIN queue[e] \subseteq Nat \ {0}
    BY <2>1
  <2> QED BY <2>2 DEF Served, Waiting, At
<1> QED BY <1>1 DEF Held, PlacesInv, OnePlace

(* What a caller still in line may do: send its request, and leave.        *)
GoesOn(p, q) ==
    \/ q = p
    \/ p = "open" /\ q \in {"sent", "leftOpen"}
    \/ p = "sent" /\ q = "leftSent"

(* What e has to do for its callers is as true as before while it has none *)
(* but the old ones, and those only go on.                                 *)
LEMMA WaitsKept ==
    ASSUME WaitsInv, NEW e \in Daemons,
           peer[e] \in Conns \cup {Nobody}, queue[e] \in Seq(Conns),
           queue'[e] = queue[e] \/ queue'[e] = <<>>,
           \/ peer'[e] = Nobody
           \/ /\ peer'[e] = peer[e]
              /\ \/ pc'[e] \in {pc[e], "power"}
                 \/ pc[e] \in {"reply"} \cup Pings /\ pc'[e] \in {"reply"} \cup Pings
                 \/ phase[peer[e].by] \in Asked,
           \A c \in Callers :
               c \in Waiting(e)' \/ (c \in Served(e)' /\ pc'[e] # "power") =>
                   GoesOn(phase[c], phase'[c])
    PROVE  PeerWaits(e)' /\ QueueWaits(e)'
<1>1. PeerWaits(e) /\ QueueWaits(e)
  BY DEF WaitsInv
<1>2. \A p, q : GoesOn(p, q) => /\ p \in Patient => q \in Patient
                                /\ p \in Asked => q \in Asked
  BY DEF GoesOn, Patient, Asked
<1>3. PeerWaits(e)'
  <2> SUFFICES ASSUME peer'[e] # Nobody PROVE PeerWaits(e)'
    BY DEF PeerWaits
  <2>1. peer'[e] = peer[e] /\ peer[e].by \in Callers /\ peer[e].by \in Served(e)'
    BY DEF Conns, Served
  <2>2. CASE pc'[e] = "power"
    BY <2>1, <2>2, <1>1 DEF PeerWaits, Pings
  <2>3. CASE pc'[e] # "power"
    <3>1. GoesOn(phase[peer[e].by], phase'[peer[e].by])
      BY <2>1, <2>3
    <3>2. Asked \subseteq Patient
      BY DEF Asked, Patient
    <3> HIDE DEF Pings
    <3>3. pc'[e] = "recv" => phase'[peer[e].by] \in Patient
      BY <1>1, <1>2, <2>1, <2>3, <3>1, <3>2 DEF PeerWaits, Pings
    <3>4. pc'[e] \in {"reply"} \cup Pings => phase'[peer[e].by] \in Asked
      BY <1>1, <1>2, <2>1, <2>3, <3>1 DEF PeerWaits
    <3> QED BY <1>1, <2>1, <3>3, <3>4 DEF PeerWaits
  <2> QED BY <2>2, <2>3
<1>4. QueueWaits(e)'
  <2>1. CASE queue'[e] = <<>>
    BY <2>1 DEF QueueWaits
  <2>2. CASE queue'[e] = queue[e]
    <3> SUFFICES ASSUME NEW i \in DOMAIN queue[e]
                 PROVE  queue[e][i].kind \in Kinds(e) /\ phase'[queue[e][i].by] \in Patient
      BY <2>2 DEF QueueWaits
    <3>1. queue[e][i] \in Conns
      OBVIOUS
    <3>2. queue[e][i].by \in Callers
      BY <3>1 DEF Conns
    <3>3. queue[e][i].by \in Waiting(e)'
      BY <2>2 DEF Waiting
    <3>4. GoesOn(phase[queue[e][i].by], phase'[queue[e][i].by])
      BY <3>2, <3>3
    <3> QED BY <1>1, <1>2, <3>4 DEF QueueWaits
  <2> QED BY <2>1, <2>2
<1> QED BY <1>3, <1>4

(* The new connection of c is heard last. *)
LEMMA JoinedWaits ==
    ASSUME ServicesInv, WaitsInv, NEW c \in Callers, NEW d \in Daemons, NEW k \in Kinds(d),
           \A e \in Daemons : c \notin Held(e), peer' = peer,
           queue' = [queue EXCEPT ![d] = Append(@, [by |-> c, kind |-> k])],
           phase' = [phase EXCEPT ![c] = "open"], NEW e \in Daemons,
           pc'[e] = pc[e] \/ (pc[e] \in Pings /\ pc'[e] \in Pings)
    PROVE  PeerWaits(e)' /\ QueueWaits(e)'
<1> DEFINE conn == [by |-> c, kind |-> k]
<1>1. /\ queue[e] \in Seq(Conns) /\ phase \in [Callers -> Phases]
      /\ peer[e] \in Conns \cup {Nobody}
      /\ queue'[e] = IF e = d THEN Append(queue[e], conn) ELSE queue[e]
  BY DEF ServicesInv, TypeOK
<1>2. PeerWaits(e) /\ QueueWaits(e)
  BY DEF WaitsInv
<1>3. PeerWaits(e)'
  <2>1. peer[e] # Nobody => peer[e].by # c /\ peer[e].by \in Callers
    BY <1>1 DEF Held, Served, Conns
  <2>2. peer[e] # Nobody => phase'[peer[e].by] = phase[peer[e].by]
    BY <1>1, <2>1
  <2> QED BY <1>2, <2>2 DEF PeerWaits, Pings
<1>4. ASSUME NEW i \in DOMAIN queue[e]
      PROVE  queue[e][i].kind \in Kinds(e) /\ phase'[queue[e][i].by] \in Patient
  <2>1. queue[e][i] \in Conns
    BY <1>1
  <2>2. queue[e][i].by \in Callers
    BY <2>1 DEF Conns
  <2>3. queue[e][i].by # c
    BY DEF Held, Waiting
  <2>4. phase'[queue[e][i].by] = phase[queue[e][i].by]
    BY <1>1, <2>2, <2>3
  <2> QED BY <1>2, <2>4 DEF QueueWaits
<1>5. e = d => conn.kind \in Kinds(e) /\ phase'[conn.by] \in Patient
  BY <1>1 DEF Patient
<1>6. QueueWaits(e)'
  <2>1. CASE e = d
    <3> SUFFICES ASSUME NEW i \in DOMAIN queue'[e]
                 PROVE  queue'[e][i].kind \in Kinds(e) /\ phase'[queue'[e][i].by] \in Patient
      BY DEF QueueWaits
    <3> HIDE DEF conn
    <3>1. queue'[e][i] = conn \/ (i \in DOMAIN queue[e] /\ queue'[e][i] = queue[e][i])
      BY <1>1, <2>1
    <3> QED BY <1>4, <1>5, <2>1, <3>1
  <2>2. CASE e # d
    BY <1>1, <1>4, <2>2 DEF QueueWaits
  <2> QED BY <2>1, <2>2
<1> QED BY <1>3, <1>6

(* The first in line becomes the one that is served. *)
LEMMA AcceptedWaits ==
    ASSUME ServicesInv, WaitsInv, NEW d \in Daemons, Accept(d), NEW e \in Daemons
    PROVE  PeerWaits(e)' /\ QueueWaits(e)'
<1>1. /\ queue \in [Daemons -> Seq(Conns)] /\ pc \in [Daemons -> PCs]
      /\ peer \in [Daemons -> Conns \cup {Nobody}] /\ phase' = phase
  BY DEF ServicesInv, TypeOK, Accept, callerVars
<1>2. PeerWaits(e) /\ QueueWaits(e)
  BY DEF WaitsInv
<1>3. CASE e # d
  <2>1. peer'[e] = peer[e] /\ queue'[e] = queue[e] /\ pc'[e] = pc[e]
    BY <1>1, <1>3 DEF Accept
  <2> QED BY <1>1, <1>2, <2>1 DEF PeerWaits, QueueWaits
<1>4. CASE e = d
  <2>1. /\ queue[d] \in Seq(Conns) /\ queue[d] # <<>>
        /\ pc'[d] = "recv" /\ peer'[d] = Head(queue[d]) /\ queue'[d] = Tail(queue[d])
    BY <1>1 DEF Accept
  <2>2. /\ 1 \in DOMAIN queue[d] /\ Head(queue[d]) = queue[d][1]
        /\ \A i \in DOMAIN Tail(queue[d]) :
               i + 1 \in DOMAIN queue[d] /\ Tail(queue[d])[i] = queue[d][i + 1]
    BY <2>1
  <2>3. PeerWaits(d)'
    BY <1>1, <1>2, <1>4, <2>1, <2>2 DEF PeerWaits, QueueWaits, Pings
  <2>4. QueueWaits(d)'
    BY <1>1, <1>2, <1>4, <2>1, <2>2 DEF QueueWaits
  <2> QED BY <1>4, <2>3, <2>4
<1> QED BY <1>3, <1>4

(* The service's close() ends nobody's wait but those of S. *)
LEMMA CloseOthers ==
    ASSUME NEW S, NEW c \in Callers, c \notin S PROVE Close(S)[c] = phase[c]
  BY DEF Close

(* Everybody who waits for a service has a claim to it, whatever step is   *)
(* taken.                                                                  *)
LEMMA WaitsStep ==
    ServicesInv /\ PlacesInv /\ WaitsInv /\ [Next]_vars =>
        \A e \in Daemons : PeerWaits(e)' /\ QueueWaits(e)'
<1> SUFFICES ASSUME ServicesInv, PlacesInv, WaitsInv, [Next]_vars, NEW e \in Daemons
             PROVE  PeerWaits(e)' /\ QueueWaits(e)'
  OBVIOUS
<1> DEFINE Goal == PeerWaits(e)' /\ QueueWaits(e)'
<1> USE DaemonFacts
<1>t. /\ TypeOK
      /\ pc \in [Daemons -> PCs] /\ phase \in [Callers -> Phases]
      /\ peer \in [Daemons -> Conns \cup {Nobody}] /\ queue \in [Daemons -> Seq(Conns)]
      /\ peer[e] \in Conns \cup {Nobody} /\ queue[e] \in Seq(Conns)
  BY DEF ServicesInv, TypeOK
<1>n. \A d \in Daemons : pc[d] \in {"down", "starting", "accept", "stopping", "unlinked"} =>
          peer[d] = Nobody
  BY DEF ServicesInv, TypeOK, Busy
<1>p. /\ Apps \subseteq Callers
      /\ \A c : c \in Waiting(e) => phase[c] \in Patient
      /\ \A c : c \in Served(e) /\ pc[e] # "power" /\ peer[e] # Nobody => phase[c] \in Patient
  <2>1. PeerWaits(e) /\ QueueWaits(e)
    BY DEF WaitsInv
  <2>2. peer[e] # Nobody => pc[e] \in {"recv", "reply", "power"} \cup Pings
    BY DEF ServicesInv, TypeOK, Busy, Pings
  <2>3. Asked \subseteq Patient
    BY DEF Asked, Patient
  <2>4. Apps \subseteq Callers
    BY DEF Callers
  <2>5. \A c : c \in Waiting(e) => phase[c] \in Patient
    BY <2>1 DEF QueueWaits, Waiting
  <2> QED BY <2>1, <2>2, <2>3, <2>4, <2>5 DEF PeerWaits, Served
<1>g. /\ \A p : GoesOn(p, p)
      /\ \A p \in Patient : GoesOn(p, HangUp(p))
  BY DEF GoesOn, Patient, HangUp
<1>k. ASSUME queue'[e] = queue[e] \/ queue'[e] = <<>>,
             \/ peer'[e] = Nobody
             \/ peer'[e] = peer[e] /\ pc'[e] \in {pc[e], "power"},
             \A c \in Callers :
                 c \in Waiting(e)' \/ (c \in Served(e)' /\ pc'[e] # "power") =>
                     GoesOn(phase[c], phase'[c])
      PROVE  Goal
  BY <1>k, <1>t, WaitsKept
<1>h. ASSUME queue'[e] = queue[e] \/ queue'[e] = <<>>,
             peer'[e] = Nobody \/ peer'[e] = peer[e]
      PROVE  /\ Waiting(e)' \subseteq Waiting(e) /\ Served(e)' \subseteq Served(e)
             /\ Held(e)' = Waiting(e)' \cup Served(e)'
  BY <1>h DEF Waiting, Served, Held
<1>s. ASSUME UNCHANGED <<queue, peer, phase>>, pc'[e] = pc[e] \/ peer[e] = Nobody
      PROVE  Goal
  BY <1>s, <1>k, <1>g
<1>d. ASSUME NEW d \in Daemons, Done(d),
             phase' = Close(Served(d)) \/ (peer[d] # Nobody /\ Deliver(peer[d].by))
      PROVE  Goal
  <2>1. queue' = queue /\ peer' = [peer EXCEPT ![d] = Nobody] /\ pc' = [pc EXCEPT ![d] = NextTurn(d)]
    BY <1>d DEF Done
  <2>2. /\ queue'[e] = queue[e]
        /\ peer'[e] = IF e = d THEN Nobody ELSE peer[e]
        /\ e # d => pc'[e] = pc[e]
    BY <1>t, <2>1
  <2>3. ASSUME NEW c \in Callers, c \in Waiting(e)' \/ c \in Served(e)'
        PROVE  c \notin Served(d)
    <3>1. c \in Held(e)
      BY <1>h, <2>2, <2>3 DEF Held
    <3>2. CASE e = d
      <4>1. c \in Waiting(d)
        BY <1>h, <2>2, <2>3, <3>2 DEF Served
      <4> QED BY <4>1, <1>t, Alone
    <3>3. CASE e # d
      BY <3>1, <3>3, <1>t, Alone DEF Held
    <3> QED BY <3>2, <3>3
  <2>4. ASSUME NEW c \in Callers, c \notin Served(d) PROVE phase'[c] = phase[c]
    <3>1. CASE phase' = Close(Served(d))
      BY <2>4, <3>1, CloseOthers
    <3>2. CASE peer[d] # Nobody /\ Deliver(peer[d].by)
      <4>1. c # peer[d].by
        BY <2>4, <3>2 DEF Served
      <4> QED BY <4>1, <3>2, <1>t DEF Deliver
    <3> QED BY <1>d, <3>1, <3>2
  <2> QED BY <2>2, <2>3, <2>4, <1>k, <1>g
<1>c. ASSUME NEW d \in Daemons, peer[d] = Nobody, peer' = peer,
             queue' = [queue EXCEPT ![d] = <<>>], phase' = Close(Waiting(d)),
             \A b \in Daemons : b # d => pc'[b] = pc[b]
      PROVE  Goal
  <2>1. /\ queue'[e] = IF e = d THEN <<>> ELSE queue[e]
        /\ peer'[e] = peer[e]
    BY <1>c, <1>t
  <2>2. ASSUME NEW c \in Callers, c \in Waiting(e)' \/ c \in Served(e)'
        PROVE  c \notin Waiting(d)
    <3>1. e # d
      BY <1>c, <2>1, <2>2 DEF Waiting, Served
    <3>2. c \in Held(e)
      BY <1>h, <2>1, <2>2 DEF Held
    <3> QED BY <3>1, <3>2, <1>t, Alone DEF Held
  <2>3. e # d => pc'[e] = pc[e]
    BY <1>c
  <2> QED BY <1>c, <2>1, <2>2, <2>3, <1>k, <1>g, CloseOthers
<1>1. ASSUME NEW c \in Apps, NEW d \in Daemons, NEW k \in LumadKinds \cup LmsdKinds, Connect(c, d, k) PROVE Goal
  <2>1. c \in Callers /\ UNCHANGED <<peer, pc>>
    BY <1>1, <1>p DEF Connect, daemonVars
  <2>2. \A b \in Daemons : c \notin Held(b)
    BY <1>1 DEF Connect
  <2> QED BY <1>1, <2>1, <2>2, JoinedWaits DEF Connect
<1>2. ASSUME NEW c \in Apps, Send(c) PROVE Goal
  BY <1>2, <1>k, <1>t DEF Send, daemonVars, GoesOn
<1>3. ASSUME NEW c \in Apps, Leave(c) PROVE Goal
  <2>1. \A b \in Callers : phase'[b] = phase[b] \/ (phase[b] \in Patient /\ phase'[b] = HangUp(phase[b]))
    BY <1>3, <1>t DEF Leave, Patient
  <2> QED BY <1>3, <2>1, <1>k, <1>g DEF Leave, daemonVars
<1>4. ASSUME NEW d \in Daemons, Start(d) PROVE Goal
  <2>1. e # d => pc'[e] = pc[e]
    BY <1>4, <1>t DEF Start
  <2>2. peer[d] = Nobody
    BY <1>4, <1>n DEF Start
  <2> QED BY <1>4, <2>1, <2>2, <1>s DEF Start, callerVars
<1>5. ASSUME NEW d \in Daemons, Listen(d) PROVE Goal
  <2>1. e # d => pc'[e] = pc[e]
    BY <1>5, <1>t DEF Listen
  <2>2. peer[d] = Nobody
    BY <1>5, <1>n DEF Listen
  <2> QED BY <1>5, <2>1, <2>2, <1>s DEF Listen, callerVars
<1>6. ASSUME NEW d \in Daemons, Accept(d) PROVE Goal
  BY <1>6, AcceptedWaits
<1>7. ASSUME NEW d \in Daemons, Receive(d) PROVE Goal
  <2>1. UNCHANGED <<queue, peer, phase>> /\ (e # d => pc'[e] = pc[e])
    BY <1>7, <1>t DEF Receive, callerVars
  <2>2. e = d => phase[peer[e].by] \in Asked
    BY <1>7 DEF Receive, Asked
  <2> QED BY <2>1, <2>2, <1>g, <1>t, WaitsKept
<1>8. ASSUME NEW d \in Daemons, ReceiveNothing(d) PROVE Goal
  BY <1>8, <1>d DEF ReceiveNothing
<1>9. ASSUME NEW d \in Daemons, Reply(d) PROVE Goal
  <2>1. peer[d] # Nobody
    BY <1>9, <1>t DEF Reply, TypeOK
  <2> QED BY <1>9, <1>d, <2>1 DEF Reply
<1>10. ASSUME NEW d \in Daemons, ReplyToNobody(d), d = Lumad PROVE Goal
  BY <1>10, <1>d DEF ReplyToNobody
<1>11. ASSUME NEW d \in Daemons, pc[d] # "down", Die(d) PROVE Goal
  <2>1. /\ queue'[e] = IF e = d THEN <<>> ELSE queue[e]
        /\ peer'[e] = IF e = d THEN Nobody ELSE peer[e]
        /\ e # d => pc'[e] = pc[e]
    BY <1>11, <1>t DEF Die
  <2>2. ASSUME NEW c \in Callers, c \in Waiting(e)' \/ (c \in Served(e)' /\ pc'[e] # "power")
        PROVE  GoesOn(phase[c], phase'[c])
    <3>1. e # d
      BY <2>1, <2>2 DEF Waiting, Served
    <3>2. c \in Waiting(e) \/ (c \in Served(e) /\ pc[e] # "power" /\ peer[e] # Nobody)
      BY <1>h, <2>1, <2>2, <3>1 DEF Served
    <3>3. phase[c] \in Patient
      BY <1>p, <3>2
    <3>4. c \notin Held(d)
      BY <3>1, <3>2, <1>t, Alone DEF Held
    <3>5. phase'[c] = IF c = d THEN HangUp(phase[c]) ELSE Close(Held(d))[c]
      BY <1>11 DEF Die
    <3> QED BY <1>g, <3>3, <3>4, <3>5, CloseOthers
  <2> QED BY <1>k, <2>1, <2>2
<1>12. ASSUME RefusePower PROVE Goal
  BY <1>12, <1>d DEF RefusePower
<1>13. ASSUME AcceptPower PROVE Goal
  <2>1. queue' = queue /\ peer' = peer /\ pc' = [pc EXCEPT ![Lumad] = "power"]
    BY <1>13 DEF AcceptPower
  <2>2. pc'[e] = IF e = Lumad THEN "power" ELSE pc[e]
    BY <2>1, <1>t
  <2>3. peer[Lumad] # Nobody /\ Served(Lumad) = {peer[Lumad].by}
    BY <1>13, <1>t DEF AcceptPower, TypeOK, Served
  <2>4. \A c \in Callers : c \notin Served(Lumad) => phase'[c] = phase[c]
    BY <1>13, <1>t, <2>3 DEF AcceptPower, Deliver
  <2>5. ASSUME NEW c \in Callers, c \in Waiting(e)' \/ (c \in Served(e)' /\ pc'[e] # "power")
        PROVE  c \notin Served(Lumad)
    <3>1. c \in Waiting(e) \/ (c \in Served(e) /\ e # Lumad)
      BY <2>1, <2>2, <2>5, <1>h
    <3> QED BY <3>1, <1>t, Alone DEF Held
  <2> QED BY <1>k, <1>g, <2>1, <2>2, <2>4, <2>5
<1>14. ASSUME RebootFails PROVE Goal
  BY <1>14, <1>d DEF RebootFails
<1>15. ASSUME PowerOff PROVE Goal
  <2>1. queue'[e] = <<>> /\ peer'[e] = Nobody
    BY <1>15 DEF PowerOff
  <2>2. Waiting(e)' = {} /\ Served(e)' = {}
    BY <2>1 DEF Waiting, Served
  <2> QED BY <1>k, <2>1, <2>2
<1>16. ASSUME PingConnect PROVE Goal
  <2>1. ~(Lmsd \in Held(Lmsd)) /\ Lmsd \notin Held(Lumad)
    <3>1. ~At(Lmsd, 0, Lmsd) /\ \A i \in DOMAIN queue[Lmsd] : ~At(Lmsd, i, Lmsd)
      BY <1>t DEF PlacesInv, NoSelfCall
    <3> QED BY <1>16, <3>1 DEF At, Held, Waiting, Served, PingConnect
  <2>2. \A b \in Daemons : Lmsd \notin Held(b)
    BY <2>1 DEF Daemons
  <2>3. pc'[e] = pc[e] \/ (pc[e] \in Pings /\ pc'[e] \in Pings)
    BY <1>16, <1>t DEF PingConnect, Pings
  <2>4. "query" \in Kinds(Lumad)
    BY DEF Kinds, LumadKinds
  <2> QED BY <1>16, <2>2, <2>3, <2>4, JoinedWaits DEF PingConnect
<1>17. ASSUME PingSend PROVE Goal
  <2>1. UNCHANGED <<queue, peer>> /\ phase[Lmsd] = "open" /\ phase' = [phase EXCEPT ![Lmsd] = "sent"]
    BY <1>17 DEF PingSend
  <2>2. \A c \in Callers : GoesOn(phase[c], phase'[c])
    BY <2>1, <1>t DEF GoesOn
  <2>3. pc'[e] = pc[e] \/ (pc[e] \in Pings /\ pc'[e] \in Pings)
    BY <1>17, <1>t DEF PingSend, Pings
  <2> QED BY <2>1, <2>2, <2>3, <1>t, WaitsKept
<1>18. ASSUME PingFails PROVE Goal
  <2>1. UNCHANGED <<queue, peer>> /\ phase' = [phase EXCEPT ![Lmsd] = HangUp(@)]
    BY <1>18 DEF PingFails
  <2>2. \/ pc'[e] = pc[e]
        \/ peer[e] = Nobody
        \/ pc[e] \in Pings /\ pc'[e] \in {"reply"} \cup Pings
    BY <1>18, <1>t DEF PingFails, Pings, AtStart
  <2>3. ASSUME NEW c \in Callers, c \in Waiting(e)' \/ (c \in Served(e)' /\ pc'[e] # "power")
        PROVE  GoesOn(phase[c], phase'[c])
    <3>1. CASE c # Lmsd
      BY <1>g, <1>t, <2>1, <3>1
    <3>2. CASE c = Lmsd
      <4>1. c \in Waiting(e) \/ (c \in Served(e) /\ pc[e] # "power" /\ peer[e] # Nobody)
        BY <1>h, <2>1, <2>2, <2>3 DEF Served, Pings
      <4>2. phase[c] \in Patient
        BY <1>p, <4>1
      <4> QED BY <1>g, <1>t, <2>1, <3>2, <4>2
    <3> QED BY <3>1, <3>2
  <2> QED BY <2>1, <2>2, <2>3, <1>t, WaitsKept
<1>19. ASSUME PingSucceeds PROVE Goal
  <2>1. UNCHANGED <<queue, peer>> /\ phase' = [phase EXCEPT ![Lmsd] = "idle"]
    BY <1>19 DEF PingSucceeds
  <2>2. \/ pc'[e] = pc[e]
        \/ peer[e] = Nobody
        \/ pc[e] \in Pings /\ pc'[e] \in {"reply"} \cup Pings
    BY <1>19, <1>t DEF PingSucceeds, Pings, AtStart
  <2>3. ASSUME NEW c \in Callers, c \in Waiting(e)' \/ (c \in Served(e)' /\ pc'[e] # "power")
        PROVE  GoesOn(phase[c], phase'[c])
    <3>1. CASE c # Lmsd
      BY <1>g, <1>t, <2>1, <3>1
    <3>2. CASE c = Lmsd
      <4>1. c \in Waiting(e) \/ (c \in Served(e) /\ pc[e] # "power" /\ peer[e] # Nobody)
        BY <1>h, <2>1, <2>2, <2>3 DEF Served, Pings
      <4>2. phase[c] \in Patient
        BY <1>p, <4>1
      <4> QED BY <1>g, <1>t, <2>1, <3>2, <4>2, <1>19 DEF PingSucceeds, Patient
    <3> QED BY <3>1, <3>2
  <2> QED BY <2>1, <2>2, <2>3, <1>t, WaitsKept
<1>20. ASSUME NEW d \in Daemons, Terminate(d) PROVE Goal
  BY <1>20, <1>s DEF Terminate, callerVars
<1>21. ASSUME NEW d \in Daemons, UnlinkSocket(d) PROVE Goal
  <2>1. pc[d] = "stopping" /\ peer[d] = Nobody /\ peer' = peer
    BY <1>21, <1>n DEF UnlinkSocket
  <2>2. \A b \in Daemons : b # d => pc'[b] = pc[b]
    BY <1>21, <1>t DEF UnlinkSocket
  <2>3. CASE d = Lumad
    BY <1>21, <1>c, <2>1, <2>2, <2>3 DEF UnlinkSocket
  <2>4. CASE d # Lumad
    BY <1>21, <1>s, <2>1, <2>2, <2>4 DEF UnlinkSocket
  <2> QED BY <2>3, <2>4
<1>22. ASSUME NEW d \in Daemons, Exit(d) PROVE Goal
  <2>1. pc[d] = "unlinked" /\ peer[d] = Nobody /\ peer' = peer
    BY <1>22, <1>n DEF Exit
  <2>2. \A b \in Daemons : b # d => pc'[b] = pc[b]
    BY <1>22, <1>t DEF Exit
  <2> QED BY <1>22, <1>c, <2>1, <2>2 DEF Exit
<1>23. ASSUME UNCHANGED vars PROVE Goal
  BY <1>23, <1>s DEF vars, daemonVars, callerVars
<1>24. ASSUME NEW d \in Daemons, AcceptFails(d) PROVE Goal
  <2>1. e # d => pc'[e] = pc[e]
    BY <1>24, <1>t DEF AcceptFails
  <2>2. peer[d] = Nobody
    BY <1>24, <1>n DEF AcceptFails
  <2> QED BY <1>24, <2>1, <2>2, <1>s DEF AcceptFails, callerVars
<1> HIDE DEF Goal
<1>q. Goal
  BY <1>1, <1>2, <1>3, <1>4, <1>5, <1>6, <1>7, <1>8, <1>9, <1>10, <1>11, <1>12, <1>13, <1>14, <1>15, <1>16, <1>17, <1>18, <1>19, <1>20, <1>21, <1>22, <1>23, <1>24
     DEF Next, DaemonStep, Kill, ReplyToNobody, PingBroken
<1> QED BY <1>q DEF Goal

(* lmsd's own connection, closed by lmsd, is in lumad's hands until lumad   *)
(* closes it, too.                                                         *)
LEMMA LeftIsHeldStep ==
    ServicesInv /\ PlacesInv /\ WaitsInv /\ [Next]_vars => LeftIsHeld'
<1> SUFFICES ASSUME ServicesInv, PlacesInv, WaitsInv, [Next]_vars,
                    phase'[Lmsd] \in {"leftOpen", "leftSent"}
             PROVE  Lmsd \in Held(Lumad)'
  BY DEF LeftIsHeld
<1> DEFINE Goal == Lmsd \in Held(Lumad)'
<1> USE DaemonFacts
<1>t. /\ TypeOK /\ phase \in [Callers -> Phases]
      /\ peer \in [Daemons -> Conns \cup {Nobody}] /\ queue \in [Daemons -> Seq(Conns)]
  BY DEF ServicesInv, TypeOK
<1>a. Lmsd \notin Apps /\ Apps \subseteq Callers /\ Lumad # Lmsd
  BY DEF Daemons, Callers
<1>l. phase[Lmsd] \in {"leftOpen", "leftSent"} => Lmsd \in Held(Lumad)
  BY DEF WaitsInv, LeftIsHeld
<1>o. phase[Lmsd] \in {"open", "sent"} => Lmsd \in Held(Lumad)
  <2> SUFFICES ASSUME phase[Lmsd] \in {"open", "sent"} PROVE Lmsd \in Held(Lumad)
    OBVIOUS
  <2>1. PICK d \in Daemons, i \in Nat : At(d, i, Lmsd)
    BY DEF PlacesInv, OpenIsHeld, Open
  <2>2. d = Lumad
    BY <2>1 DEF PlacesInv, NoSelfCall, Daemons
  <2> QED BY <2>1, <2>2 DEF At, Held, Waiting, Served
<1>p. ASSUME NEW p \in Phases, HangUp(p) \in {"leftOpen", "leftSent"}
      PROVE  p \in {"open", "sent", "leftOpen", "leftSent"}
  BY <1>p DEF HangUp, Phases
<1>k. ASSUME queue'[Lumad] = queue[Lumad], peer'[Lumad] = peer[Lumad],
             phase[Lmsd] \in {"open", "sent", "leftOpen", "leftSent"}
      PROVE  Goal
  BY <1>k, <1>l, <1>o DEF Held, Waiting, Served
<1>c. ASSUME NEW S, phase'[Lmsd] = Close(S)[Lmsd]
      PROVE  Lmsd \notin S /\ phase[Lmsd] \in {"leftOpen", "leftSent"}
  BY <1>c, <1>t, CloseLmsd
<1>d. ASSUME NEW d \in Daemons, phase' = Close(Served(d)), Done(d) PROVE Goal
  <2>1. Lmsd \notin Served(d) /\ phase[Lmsd] \in {"leftOpen", "leftSent"}
    BY <1>c, <1>d
  <2>2. queue'[Lumad] = queue[Lumad] /\ (d # Lumad => peer'[Lumad] = peer[Lumad])
    BY <1>d, <1>t DEF Done
  <2>3. CASE d = Lumad
    <3>1. Lmsd \in Waiting(Lumad)
      BY <1>l, <2>1, <2>3 DEF Held
    <3> QED BY <2>2, <3>1 DEF Held, Waiting
  <2> QED BY <1>k, <2>1, <2>2, <2>3
<1>w. ASSUME NEW d \in Daemons, peer' = peer, queue' = [queue EXCEPT ![d] = <<>>],
             phase' = Close(Waiting(d))
      PROVE  Goal
  <2>1. Lmsd \notin Waiting(d) /\ phase[Lmsd] \in {"leftOpen", "leftSent"}
    BY <1>c, <1>w
  <2>2. d # Lumad => queue'[Lumad] = queue[Lumad]
    BY <1>w, <1>t
  <2>3. CASE d = Lumad
    <3>1. Lmsd \in Served(Lumad)
      BY <1>l, <2>1, <2>3 DEF Held
    <3> QED BY <1>w, <3>1 DEF Held, Served
  <2> QED BY <1>k, <1>w, <2>1, <2>2, <2>3
<1>s. ASSUME UNCHANGED <<queue, peer>>, phase'[Lmsd] = phase[Lmsd] PROVE Goal
  BY <1>s, <1>k
<1>v. ASSUME NEW c, phase[c] = "sent", Deliver(c) PROVE phase'[Lmsd] = phase[Lmsd]
  BY <1>v, <1>t DEF Deliver, Over
<1>1. ASSUME NEW c \in Apps, NEW d \in Daemons, NEW k \in LumadKinds \cup LmsdKinds, Connect(c, d, k) PROVE Goal
  <2>1. phase'[Lmsd] = phase[Lmsd] /\ peer' = peer
    BY <1>1, <1>a, <1>t DEF Connect
  <2>2. queue'[Lumad] = queue[Lumad] \/ queue'[Lumad] = Append(queue[Lumad], [by |-> c, kind |-> k])
    BY <1>1, <1>t DEF Connect
  <2>3. queue[Lumad] \in Seq(Conns)
    BY <1>t
  <2>4. Waiting(Lumad) \subseteq Waiting(Lumad)'
    BY <2>2, <2>3 DEF Waiting
  <2> QED BY <1>l, <2>1, <2>4 DEF Held, Served
<1>2. ASSUME NEW c \in Apps, Send(c) PROVE Goal
  BY <1>2, <1>a, <1>t, <1>s DEF Send
<1>3. ASSUME NEW c \in Apps, Leave(c) PROVE Goal
  BY <1>3, <1>a, <1>t, <1>s DEF Leave
<1>4. ASSUME NEW d \in Daemons, Start(d) PROVE Goal
  BY <1>4, <1>s DEF Start, callerVars
<1>5. ASSUME NEW d \in Daemons, Listen(d) PROVE Goal
  BY <1>5, <1>s DEF Listen, callerVars
<1>6. ASSUME NEW d \in Daemons, Accept(d) PROVE Goal
  <2>1. phase' = phase /\ queue[d] \in Seq(Conns) /\ queue[d] # <<>>
    BY <1>6, <1>t DEF Accept, callerVars
  <2>2. CASE d # Lumad
    BY <1>6, <1>k, <1>t, <2>1, <2>2 DEF Accept
  <2>3. CASE d = Lumad
    <3>1. peer[Lumad] = Nobody
      BY <1>6, <1>t, <2>3 DEF TypeOK, Busy, Accept
    <3>2. PICK i \in DOMAIN queue[Lumad] : queue[Lumad][i].by = Lmsd
      BY <1>l, <2>1, <3>1 DEF Held, Waiting, Served
    <3>3. peer'[Lumad] = queue[Lumad][1] /\ queue'[Lumad] = Tail(queue[Lumad])
      BY <1>6, <1>t, <2>1, <2>3 DEF Accept
    <3>4. queue[Lumad][1] \in Conns /\ (i # 1 => i - 1 \in DOMAIN Tail(queue[Lumad])
                                               /\ Tail(queue[Lumad])[i - 1] = queue[Lumad][i])
      BY <2>1, <2>3, <3>2
    <3>5. CASE i = 1
      BY <3>2, <3>3, <3>4, <3>5, NobodyIsNoConn DEF Held, Served
    <3>6. CASE i # 1
      BY <3>2, <3>3, <3>4, <3>6 DEF Held, Waiting
    <3> QED BY <3>5, <3>6
  <2> QED BY <2>2, <2>3
<1>7. ASSUME NEW d \in Daemons, Receive(d) PROVE Goal
  BY <1>7, <1>s DEF Receive, callerVars
<1>8. ASSUME NEW d \in Daemons, ReceiveNothing(d) PROVE Goal
  BY <1>8, <1>d DEF ReceiveNothing
<1>9. ASSUME NEW d \in Daemons, Reply(d) PROVE Goal
  <2>1. phase'[Lmsd] = phase[Lmsd]
    BY <1>9, <1>v DEF Reply
  <2>2. queue' = queue /\ peer' = [peer EXCEPT ![d] = Nobody] /\ peer[d] # Nobody
    BY <1>9, <1>t DEF Reply, Done, TypeOK
  <2>3. peer[d].by # Lmsd
    BY <1>9, <2>1 DEF Reply
  <2>4. CASE d = Lumad
    BY <1>l, <2>1, <2>2, <2>3, <2>4 DEF Held, Waiting, Served
  <2>5. CASE d # Lumad
    BY <1>k, <1>t, <2>1, <2>2, <2>5
  <2> QED BY <2>4, <2>5
<1>10. ASSUME NEW d \in Daemons, ReplyToNobody(d), d = Lumad PROVE Goal
  BY <1>10, <1>d DEF ReplyToNobody
<1>11. ASSUME NEW d \in Daemons, pc[d] # "down", Die(d) PROVE Goal
  <2>1. CASE d = Lmsd
    <3>1. phase'[Lmsd] = HangUp(phase[Lmsd]) /\ queue'[Lumad] = queue[Lumad] /\ peer'[Lumad] = peer[Lumad]
      BY <1>11, <1>a, <1>t, <2>1 DEF Die
    <3>2. phase[Lmsd] \in {"open", "sent", "leftOpen", "leftSent"}
      BY <1>p, <1>t, <3>1
    <3> QED BY <1>k, <3>1, <3>2
  <2>2. CASE d = Lumad
    <3>1. phase'[Lmsd] = Close(Held(Lumad))[Lmsd]
      BY <1>11, <1>a, <2>2 DEF Die
    <3> QED BY <1>c, <1>l, <3>1
  <2> QED BY <2>1, <2>2 DEF Daemons
<1>12. ASSUME RefusePower PROVE Goal
  BY <1>12, <1>d DEF RefusePower
<1>13. ASSUME AcceptPower PROVE Goal
  BY <1>13, <1>s, <1>v DEF AcceptPower
<1>14. ASSUME RebootFails PROVE Goal
  BY <1>14, <1>d DEF RebootFails
<1>15. ASSUME PowerOff PROVE Goal
  BY <1>15 DEF PowerOff
<1>16. ASSUME PingConnect PROVE Goal
  BY <1>16, <1>t DEF PingConnect
<1>17. ASSUME PingSend PROVE Goal
  BY <1>17, <1>t DEF PingSend
<1>18. ASSUME PingFails PROVE Goal
  <2>1. phase'[Lmsd] = HangUp(phase[Lmsd]) /\ UNCHANGED <<queue, peer>>
    BY <1>18, <1>t DEF PingFails
  <2>2. phase[Lmsd] \in {"open", "sent", "leftOpen", "leftSent"}
    BY <1>p, <1>t, <2>1
  <2> QED BY <1>k, <2>1, <2>2
<1>19. ASSUME PingSucceeds PROVE Goal
  BY <1>19, <1>t DEF PingSucceeds
<1>20. ASSUME NEW d \in Daemons, Terminate(d) PROVE Goal
  BY <1>20, <1>s DEF Terminate, callerVars
<1>21. ASSUME NEW d \in Daemons, UnlinkSocket(d) PROVE Goal
  <2>1. CASE d = Lumad
    BY <1>21, <1>w, <2>1 DEF UnlinkSocket
  <2>2. CASE d # Lumad
    BY <1>21, <1>s, <2>2 DEF UnlinkSocket
  <2> QED BY <2>1, <2>2
<1>22. ASSUME NEW d \in Daemons, Exit(d) PROVE Goal
  BY <1>22, <1>w DEF Exit
<1>23. ASSUME UNCHANGED vars PROVE Goal
  BY <1>23, <1>s DEF vars, callerVars
<1>24. ASSUME NEW d \in Daemons, AcceptFails(d) PROVE Goal
  BY <1>24, <1>s DEF AcceptFails, callerVars
<1> HIDE DEF Goal
<1>q. Goal
  BY <1>1, <1>2, <1>3, <1>4, <1>5, <1>6, <1>7, <1>8, <1>9, <1>10, <1>11, <1>12, <1>13, <1>14, <1>15, <1>16, <1>17, <1>18, <1>19, <1>20, <1>21, <1>22, <1>23, <1>24
     DEF Next, DaemonStep, Kill, ReplyToNobody, PingBroken
<1> QED BY <1>q DEF Goal

(* Why lumad goes on while lmsd's connection is in its hands: it is heard, *)
(* or one before it is, and none of those waits for lmsd.                  *)
LEMMA LumadGoesOn ==
    ASSUME ServicesInv, PlacesInv, WaitsInv, pc[Lumad] # "down",
           queue[Lumad] # <<>> \/ peer[Lumad] # Nobody
    PROVE  \/ CanGoOn(Lumad) \/ AwaitsApp(Lumad)
           \/ peer[Lumad] # Nobody /\ peer[Lumad].by = Lmsd /\ phase[Lmsd] = "open"
<1> USE DaemonFacts
<1>1. /\ pc[Lumad] \in PCs /\ pc[Lumad] \notin Pings
      /\ peer[Lumad] \in Conns \cup {Nobody}
      /\ PeerWaits(Lumad)
      /\ pc[Lumad] \in {"recv", "reply", "power"} => peer[Lumad] # Nobody
  BY DEF ServicesInv, TypeOK, WaitsInv, PingWaits
<1>2. pc[Lumad] \in {"starting", "accept", "recv", "reply", "power", "stopping", "unlinked"}
  BY <1>1 DEF PCs, Starting, Looping, Stopping, Pings
<1>3. CASE pc[Lumad] \in {"starting", "power", "stopping", "unlinked"}
  BY <1>3 DEF CanGoOn
<1>4. CASE pc[Lumad] = "accept"
  <2>1. peer[Lumad] = Nobody
    BY <1>4 DEF ServicesInv, TypeOK, Busy
  <2> QED BY <1>4, <2>1 DEF CanGoOn
<1>5. CASE pc[Lumad] = "recv"
  <2>1. peer[Lumad].by \in Apps \cup {Lmsd} /\ phase[peer[Lumad].by] \in Patient
    BY <1>1, <1>5 DEF PeerWaits, Conns, Callers
  <2>2. CASE phase[peer[Lumad].by] = "open"
    BY <1>1, <1>5, <2>1, <2>2 DEF AwaitsApp
  <2>3. CASE phase[peer[Lumad].by] # "open"
    BY <1>5, <2>1, <2>3 DEF CanGoOn, Patient
  <2> QED BY <2>2, <2>3
<1>6. CASE pc[Lumad] = "reply"
  <2>1. peer[Lumad].kind \in LumadKinds /\ phase[peer[Lumad].by] \in Asked
    BY <1>1, <1>6 DEF PeerWaits, Kinds
  <2> QED BY <1>6, <2>1 DEF CanGoOn, LumadKinds, Asked
<1> QED BY <1>2, <1>3, <1>4, <1>5, <1>6

(* The three invariants leave each service a way on.                       *)
LEMMA WaitsSuffice == ServicesInv /\ PlacesInv /\ WaitsInv => NoDeadlock
<1> SUFFICES ASSUME ServicesInv, PlacesInv, WaitsInv PROVE NoDeadlock
  OBVIOUS
<1> USE DaemonFacts
<1>1. PingWaits /\ phase \in [Callers -> Phases] /\ pc[Lmsd] \in PCs
  BY DEF WaitsInv, ServicesInv, TypeOK
<1>2. phase[Lmsd] = "open" => CanGoOn(Lmsd)
  BY <1>1 DEF PingWaits, CanGoOn
<1>3. ASSUME pc[Lumad] # "down"
      PROVE  \/ CanGoOn(Lumad) \/ Idle(Lumad) \/ AwaitsApp(Lumad)
             \/ peer[Lumad] # Nobody /\ peer[Lumad].by = Lmsd /\ CanGoOn(Lmsd)
  <2>1. CASE queue[Lumad] # <<>> \/ peer[Lumad] # Nobody
    BY <1>2, <1>3, <2>1, LumadGoesOn
  <2>2. CASE queue[Lumad] = <<>> /\ peer[Lumad] = Nobody
    <3>1. pc[Lumad] \in {"starting", "accept", "stopping", "unlinked"}
      BY <1>1, <1>3, <2>2 DEF PingWaits, Pings, ServicesInv, TypeOK, PCs, Starting, Looping, Stopping
    <3> QED BY <2>2, <3>1 DEF CanGoOn, Idle
  <2> QED BY <2>1, <2>2
<1>4. ASSUME Lmsd \in Held(Lumad), phase[Lmsd] # "open"
      PROVE  CanGoOn(Lumad) \/ AwaitsApp(Lumad)
  <2>1. queue[Lumad] # <<>> \/ peer[Lumad] # Nobody
    BY <1>4 DEF Held, Waiting, Served
  <2>2. pc[Lumad] # "down"
    <3>1. pc[Lumad] = "down" => path[Lumad] # "live" /\ peer[Lumad] = Nobody
      BY DEF ServicesInv, TypeOK, Busy
    <3> QED BY <2>1, <3>1 DEF PlacesInv, BacklogTrue
  <2> QED BY <1>4, <2>1, <2>2, LumadGoesOn
<1>5. ASSUME pc[Lmsd] = "pinging"
      PROVE  CanGoOn(Lmsd) \/ CanGoOn(Lumad) \/ AwaitsApp(Lumad)
  <2>1. phase[Lmsd] \in {"idle", "leftOpen", "leftSent"}
    BY <1>1, <1>5 DEF PingWaits
  <2>2. CASE path[Lumad] # "live"
    BY <1>5, <2>2 DEF CanGoOn
  <2>3. CASE Lmsd \in Held(Lumad)
    BY <1>4, <2>1, <2>3
  <2>4. CASE path[Lumad] = "live" /\ Lmsd \notin Held(Lumad) /\ phase[Lmsd] = "idle"
    <3>1. CASE Len(queue[Lumad]) < Backlog
      BY <1>5, <2>4, <3>1 DEF CanGoOn
    <3>2. CASE ~(Len(queue[Lumad]) < Backlog)
      <4>1. queue[Lumad] # <<>>
        <5>1. Len(<<>>) = 0 /\ Backlog > 0
          OBVIOUS
        <5> QED BY <3>2, <5>1
      <4>2. pc[Lumad] # "down"
        BY <2>4 DEF ServicesInv, TypeOK, Busy
      <4> QED BY <2>1, <4>1, <4>2, LumadGoesOn
    <3> QED BY <3>1, <3>2
  <2>5. phase[Lmsd] \in {"leftOpen", "leftSent"} => Lmsd \in Held(Lumad)
    BY DEF WaitsInv, LeftIsHeld
  <2> QED BY <2>1, <2>2, <2>3, <2>4, <2>5
<1>6. ASSUME pc[Lmsd] \in {"pingSend", "pingRecv"}
      PROVE  CanGoOn(Lmsd) \/ CanGoOn(Lumad) \/ AwaitsApp(Lumad)
  <2>1. CASE pc[Lmsd] = "pingSend"
    BY <1>1, <2>1 DEF PingWaits, CanGoOn
  <2>2. CASE pc[Lmsd] = "pingRecv" /\ phase[Lmsd] # "sent"
    BY <1>1, <2>2 DEF PingWaits, CanGoOn
  <2>3. CASE phase[Lmsd] = "sent"
    <3>1. PICK d \in Daemons, i \in Nat : At(d, i, Lmsd)
      BY <2>3 DEF PlacesInv, OpenIsHeld, Open
    <3>2. d = Lumad
      BY <3>1 DEF PlacesInv, NoSelfCall, Daemons
    <3>3. Lmsd \in Held(Lumad)
      BY <3>1, <3>2 DEF At, Held, Waiting, Served
    <3> QED BY <1>4, <2>3, <3>3
  <2> QED BY <1>6, <2>1, <2>2, <2>3
<1>7. ASSUME pc[Lmsd] \in Looping
      PROVE  CanGoOn(Lmsd) \/ Idle(Lmsd) \/ AwaitsApp(Lmsd)
  <2>1. /\ PeerWaits(Lmsd) /\ peer[Lmsd] \in Conns \cup {Nobody}
        /\ pc[Lmsd] \in {"recv", "reply", "power"} => peer[Lmsd] # Nobody
    BY DEF WaitsInv, ServicesInv, TypeOK
  <2>2. CASE pc[Lmsd] \in {"accept", "power"}
    BY <2>2 DEF CanGoOn, Idle
  <2>3. CASE pc[Lmsd] = "recv"
    <3>1. peer[Lmsd].by \in Apps \cup {Lmsd} /\ phase[peer[Lmsd].by] \in Patient
      BY <2>1, <2>3 DEF PeerWaits, Conns, Callers
    <3>2. peer[Lmsd].by # Lmsd
      BY <2>1, <2>3 DEF PlacesInv, NoSelfCall, At
    <3>3. CASE phase[peer[Lmsd].by] = "open"
      BY <2>3, <3>1, <3>2, <3>3 DEF AwaitsApp
    <3>4. CASE phase[peer[Lmsd].by] # "open"
      BY <2>3, <3>1, <3>4 DEF CanGoOn, Patient
    <3> QED BY <3>3, <3>4
  <2>4. CASE pc[Lmsd] = "reply"
    <3>1. peer[Lmsd].kind \in LmsdKinds /\ phase[peer[Lmsd].by] \in Asked
      BY <2>1, <2>4 DEF PeerWaits, Kinds
    <3> QED BY <2>4, <3>1 DEF CanGoOn, LmsdKinds, Asked
  <2> QED BY <1>7, <2>2, <2>3, <2>4 DEF Looping
<1>8. ASSUME pc[Lmsd] \in {"starting"} \cup Stopping PROVE CanGoOn(Lmsd)
  BY <1>8 DEF CanGoOn, Stopping
<1>9. pc[Lmsd] \in {"down", "pinging", "pingSend", "pingRecv"} \cup Looping \cup {"starting"} \cup Stopping
  BY <1>1 DEF PCs, Starting
<1> QED BY <1>3, <1>5, <1>6, <1>7, <1>8, <1>9 DEF NoDeadlock

(* The three invariants hold together.                                     *)
LEMMA WaitsInvHolds == Spec => [](ServicesInv /\ PlacesInv /\ WaitsInv)
<1>1. Init => WaitsInv
  BY DaemonFacts DEF Init, WaitsInv, PingWaits, LeftIsHeld, PeerWaits, QueueWaits, Pings
<1>2. ServicesInv /\ PlacesInv /\ WaitsInv /\ [Next]_vars => WaitsInv'
  BY PingWaitsStep, LeftIsHeldStep, WaitsStep DEF WaitsInv
<1>3. PlacesInv /\ ServicesInv /\ [Next]_vars => PlacesInv'
  BY HeldStep, BacklogStep DEF PlacesInv
<1> QED
  BY <1>1, <1>2, <1>3, PlacesInit, ServicesInvHolds, PTL DEF Spec

(* The two services never hold each other up, for any backlog, any number  *)
(* of attempts and any programs, whatever crashes, signals and reboots     *)
(* happen: lumad's wait is never for an lmsd that waits.                   *)
THEOREM ServicesNeverDeadlock == Spec => []NoDeadlock
  BY WaitsInvHolds, WaitsSuffice, PTL

-----------------------------------------------------------------------------
(* The services implement the safety of RequestReply: every step is a      *)
(* request, its one answer, callers that are gone, a reboot, or a stutter. *)
Waiters == {c \in Callers : phase[c] = "sent"}
PromiseSafety == Abstract!Init /\ [][Abstract!Next]_(Abstract!vars)

(* A step that sends nothing and makes nobody wait. *)
LEMMA NobodyAsks ==
    ASSUME sends' = sends, Waiters' \subseteq Waiters
    PROVE  [Abstract!Next]_(Abstract!vars)
<1> DEFINE S == Waiters \ Waiters'
<1>1. S \in SUBSET Callers
  BY DEF Waiters
<1>2. Waiters' = Waiters \ S
  OBVIOUS
<1>3. \E T \in SUBSET Callers : Abstract!GiveUp(T)
  <2>1. \E T \in SUBSET Callers : Waiters' = Waiters \ T /\ sends' = sends
    <3> HIDE DEF S
    <3> QED
      BY <1>1, <1>2
  <2> QED
    BY <2>1 DEF Abstract!GiveUp, Waiters
<1> QED
  BY <1>3 DEF Abstract!Next

(* Which step of RequestReply each step of the services is. *)
LEMMA PromiseStep == ServicesInv /\ [Next]_vars => [Abstract!Next]_(Abstract!vars)
<1> SUFFICES ASSUME ServicesInv, [Next]_vars PROVE [Abstract!Next]_(Abstract!vars)
  OBVIOUS
<1> USE DaemonFacts DEF ServicesInv
<1>1. ASSUME NEW c \in Callers, phase[c] # "sent",
             phase' = [phase EXCEPT ![c] = "sent"],
             sends' = [sends EXCEPT ![c] = 0]
      PROVE  [Abstract!Next]_(Abstract!vars)
  <2>1. Abstract!Request(c)
    BY <1>1 DEF Abstract!Request, TypeOK
  <2> QED
    BY <2>1 DEF Abstract!Next
<1>2. ASSUME NEW c \in Callers, phase[c] = "sent", Deliver(c)
      PROVE  [Abstract!Next]_(Abstract!vars)
  <2>1. sends[c] = 0
    BY <1>2 DEF AnsweredOnce
  <2>2. Over(c, "answered") # "sent"
    BY DEF Over
  <2>3. sends' = [sends EXCEPT ![c] = 1]
    BY <1>2, <2>1 DEF Deliver, TypeOK
  <2>4. Waiters' = Waiters \ {c}
    BY <1>2, <2>2 DEF Waiters, Deliver, TypeOK
  <2>5. Abstract!Answer(c)
    BY <2>1, <2>3, <2>4 DEF Abstract!Answer, Waiters
  <2> QED
    BY <2>5 DEF Abstract!Next
<1>3. ASSUME NEW c \in Apps, NEW d \in Daemons, NEW k \in LumadKinds \cup LmsdKinds, Connect(c, d, k) PROVE [Abstract!Next]_(Abstract!vars)
  <2>1. sends' = sends /\ Waiters' \subseteq Waiters
    BY <1>3 DEF Connect, daemonVars, Callers, Waiters, TypeOK
  <2> QED
    BY <2>1, NobodyAsks
<1>4. ASSUME NEW c \in Apps, Send(c) PROVE [Abstract!Next]_(Abstract!vars)
  BY <1>4, <1>1 DEF Send, Callers
<1>5. ASSUME NEW c \in Apps, Leave(c) PROVE [Abstract!Next]_(Abstract!vars)
  <2>1. sends' = sends /\ Waiters' \subseteq Waiters
    BY <1>5, CloseFacts, HangUpFacts DEF Leave, daemonVars, Callers, Waiters, TypeOK
  <2> QED
    BY <2>1, NobodyAsks
<1>6. ASSUME NEW d \in Daemons, Start(d) PROVE [Abstract!Next]_(Abstract!vars)
  <2>1. sends' = sends /\ Waiters' \subseteq Waiters
    BY <1>6 DEF Start, callerVars, Waiters, TypeOK
  <2> QED
    BY <2>1, NobodyAsks
<1>7. ASSUME NEW d \in Daemons, Listen(d) PROVE [Abstract!Next]_(Abstract!vars)
  <2>1. sends' = sends /\ Waiters' \subseteq Waiters
    BY <1>7 DEF Listen, OpenSocket, NextTurn, callerVars, Waiters, TypeOK
  <2> QED
    BY <2>1, NobodyAsks
<1>8. ASSUME NEW d \in Daemons, Accept(d) PROVE [Abstract!Next]_(Abstract!vars)
  <2>1. sends' = sends /\ Waiters' \subseteq Waiters
    BY <1>8 DEF Accept, callerVars, Waiters, TypeOK
  <2> QED
    BY <2>1, NobodyAsks
<1>9. ASSUME NEW d \in Daemons, Receive(d) PROVE [Abstract!Next]_(Abstract!vars)
  <2>1. sends' = sends /\ Waiters' \subseteq Waiters
    BY <1>9 DEF Receive, callerVars, Waiters, TypeOK
  <2> QED
    BY <2>1, NobodyAsks
<1>10. ASSUME NEW d \in Daemons, ReceiveNothing(d) PROVE [Abstract!Next]_(Abstract!vars)
  <2>1. sends' = sends /\ Waiters' \subseteq Waiters
    BY <1>10, CloseFacts, HangUpFacts DEF ReceiveNothing, Done, NextTurn, Waiters, TypeOK
  <2> QED
    BY <2>1, NobodyAsks
<1>11. ASSUME NEW d \in Daemons, Reply(d) PROVE [Abstract!Next]_(Abstract!vars)
  <2>1. peer[d].by \in Callers
    BY <1>11, PeerFacts DEF Reply
  <2> QED
    BY <1>11, <1>2, <2>1 DEF Reply
<1>12. ASSUME NEW d \in Daemons, ReplyToNobody(d), d = Lumad PROVE [Abstract!Next]_(Abstract!vars)
  <2>1. sends' = sends /\ Waiters' \subseteq Waiters
    BY <1>12, CloseFacts, HangUpFacts DEF ReplyToNobody, Done, NextTurn, Waiters, TypeOK
  <2> QED
    BY <2>1, NobodyAsks
<1>13. ASSUME NEW d \in Daemons, pc[d] # "down", Die(d) PROVE [Abstract!Next]_(Abstract!vars)
  <2>1. sends' = sends /\ Waiters' \subseteq Waiters
    BY <1>13, CloseFacts, HangUpFacts DEF Die, Waiters, TypeOK
  <2> QED
    BY <2>1, NobodyAsks
<1>14. ASSUME RefusePower PROVE [Abstract!Next]_(Abstract!vars)
  <2>1. sends' = sends /\ Waiters' \subseteq Waiters
    BY <1>14, CloseFacts, HangUpFacts DEF RefusePower, Done, NextTurn, Waiters, TypeOK
  <2> QED
    BY <2>1, NobodyAsks
<1>15. ASSUME AcceptPower PROVE [Abstract!Next]_(Abstract!vars)
  <2>1. peer[Lumad].by \in Callers
    BY <1>15, PeerFacts DEF AcceptPower
  <2>2. CASE phase[peer[Lumad].by] = "sent"
    BY <1>15, <1>2, <2>1, <2>2 DEF AcceptPower
  <2>3. CASE phase[peer[Lumad].by] # "sent"
    BY <1>15, <2>3, NobodyAsks DEF AcceptPower, Waiters
  <2> QED
    BY <2>2, <2>3
<1>16. ASSUME RebootFails PROVE [Abstract!Next]_(Abstract!vars)
  <2>1. sends' = sends /\ Waiters' \subseteq Waiters
    BY <1>16, CloseFacts, HangUpFacts DEF RebootFails, Done, NextTurn, Waiters, TypeOK
  <2> QED
    BY <2>1, NobodyAsks
<1>17. ASSUME PowerOff PROVE [Abstract!Next]_(Abstract!vars)
  <2>1. Abstract!Restart
    BY <1>17 DEF PowerOff, Abstract!Restart
  <2> QED
    BY <2>1 DEF Abstract!Next
<1>18. ASSUME PingConnect PROVE [Abstract!Next]_(Abstract!vars)
  <2>1. sends' = sends /\ Waiters' \subseteq Waiters
    BY <1>18 DEF PingConnect, Waiters, TypeOK
  <2> QED
    BY <2>1, NobodyAsks
<1>19. ASSUME PingSend PROVE [Abstract!Next]_(Abstract!vars)
  BY <1>19, <1>1 DEF PingSend
<1>20. ASSUME PingFails PROVE [Abstract!Next]_(Abstract!vars)
  <2>1. sends' = sends /\ Waiters' \subseteq Waiters
    BY <1>20, CloseFacts, HangUpFacts DEF PingFails, Waiters, TypeOK
  <2> QED
    BY <2>1, NobodyAsks
<1>21. ASSUME PingSucceeds PROVE [Abstract!Next]_(Abstract!vars)
  <2>1. sends' = sends /\ Waiters' \subseteq Waiters
    BY <1>21, CloseFacts, HangUpFacts DEF PingSucceeds, Waiters, TypeOK
  <2> QED
    BY <2>1, NobodyAsks
<1>22. ASSUME NEW d \in Daemons, Terminate(d) PROVE [Abstract!Next]_(Abstract!vars)
  <2>1. sends' = sends /\ Waiters' \subseteq Waiters
    BY <1>22 DEF Terminate, callerVars, Waiters, TypeOK
  <2> QED
    BY <2>1, NobodyAsks
<1>23. ASSUME NEW d \in Daemons, UnlinkSocket(d) PROVE [Abstract!Next]_(Abstract!vars)
  <2>1. sends' = sends /\ Waiters' \subseteq Waiters
    BY <1>23, CloseFacts, HangUpFacts DEF UnlinkSocket, Waiters, TypeOK
  <2> QED
    BY <2>1, NobodyAsks
<1>24. ASSUME NEW d \in Daemons, Exit(d) PROVE [Abstract!Next]_(Abstract!vars)
  <2>1. sends' = sends /\ Waiters' \subseteq Waiters
    BY <1>24, CloseFacts, HangUpFacts DEF Exit, Waiters, TypeOK
  <2> QED
    BY <2>1, NobodyAsks
<1>25. ASSUME UNCHANGED vars PROVE [Abstract!Next]_(Abstract!vars)
  <2>1. sends' = sends /\ Waiters' \subseteq Waiters
    BY <1>25 DEF vars, daemonVars, callerVars, Waiters, TypeOK
  <2> QED
    BY <2>1, NobodyAsks
<1>26. ASSUME NEW d \in Daemons, AcceptFails(d) PROVE [Abstract!Next]_(Abstract!vars)
  <2>1. sends' = sends /\ Waiters' \subseteq Waiters
    BY <1>26 DEF AcceptFails, callerVars, Waiters, TypeOK
  <2> QED
    BY <2>1, NobodyAsks
<1> HIDE DEF ServicesInv
<1> QED
  BY <1>3, <1>4, <1>5, <1>6, <1>7, <1>8, <1>9, <1>10, <1>11, <1>12, <1>13, <1>14, <1>15, <1>16, <1>17, <1>18, <1>19, <1>20, <1>21, <1>22, <1>23, <1>24, <1>25, <1>26
     DEF Next, DaemonStep, Kill, ReplyToNobody, PingBroken

(* No caller of lumad or lmsd ever sees more than RequestReply allows. *)
THEOREM ServicesKeepPromise == Spec => PromiseSafety
<1>1. Init => Abstract!Init
  BY DEF Init, Abstract!Init
<1> QED
  BY <1>1, ServicesInvHolds, PromiseStep, PTL DEF Spec, PromiseSafety

-----------------------------------------------------------------------------
(* The SDK.  A call of it is a caller of the services.                     *)
THEOREM SdkKeepsServices == SdkSpec => Spec
<1>1. [SdkNext]_sdkVars => [Next]_vars
  BY DEF SdkNext, ConnectFails, Step, sdkVars
<1> QED
  BY <1>1, PTL DEF SdkSpec, SdkInit, Spec

(* While a service has a request it has read, its decision stands.         *)
Deciding == {"reply"} \cup Pings
Decided ==
    /\ outcome \in [Apps -> DOMAIN ErrorCode \cup {"none"}]
    /\ \A d \in Daemons, c \in Apps :
           c \in Served(d) /\ pc[d] \in Deciding => outcome[c] \in Decisions(d, peer[d].kind)

(* A request that a service has read was read in this step, or stays as it *)
(* was, and its caller has nothing more to send.                           *)
LEMMA ReadOnce ==
    ASSUME ServicesInv, WaitsInv, Next, NEW e \in Daemons,
           peer'[e] # Nobody, pc'[e] \in Deciding
    PROVE  /\ peer'[e] = peer[e]
           /\ pc[e] \in Deciding \/ (pc[e] = "recv" /\ pc'[e] \in {"reply", "pinging"})
<1> DEFINE Goal ==
        /\ peer'[e] = peer[e]
        /\ pc[e] \in Deciding \/ (pc[e] = "recv" /\ pc'[e] \in {"reply", "pinging"})
<1> USE DaemonFacts
<1>t. /\ pc \in [Daemons -> PCs] /\ peer \in [Daemons -> Conns \cup {Nobody}]
  BY DEF ServicesInv, TypeOK
<1>n. peer[e] # Nobody => pc[e] \in {"recv", "power"} \cup Deciding
  BY DEF ServicesInv, TypeOK, Busy, Deciding, Pings
<1>s. ASSUME peer'[e] = peer[e], pc'[e] = pc[e] PROVE Goal
  BY <1>s DEF Deciding, Pings
<1>a. ASSUME NEW d \in Daemons, peer' = [peer EXCEPT ![d] = Nobody],
             e # d => pc'[e] = pc[e]
      PROVE  Goal
  BY <1>a, <1>s, <1>t
<1>f. ASSUME peer' = peer, pc[e] \in {"down", "starting", "accept", "stopping", "unlinked"}
      PROVE  Goal
  BY <1>f, <1>n DEF Deciding, Pings
<1>1. ASSUME NEW c \in Apps, NEW d \in Daemons, NEW k \in LumadKinds \cup LmsdKinds, Connect(c, d, k) PROVE Goal
  BY <1>1, <1>s DEF Connect, daemonVars
<1>2. ASSUME NEW c \in Apps, Send(c) PROVE Goal
  BY <1>2, <1>s DEF Send, daemonVars
<1>3. ASSUME NEW c \in Apps, Leave(c) PROVE Goal
  BY <1>3, <1>s DEF Leave, daemonVars
<1>4. ASSUME NEW d \in Daemons, Start(d) PROVE Goal
  BY <1>4, <1>f, <1>s, <1>t DEF Start
<1>5. ASSUME NEW d \in Daemons, Listen(d) PROVE Goal
  BY <1>5, <1>f, <1>s, <1>t DEF Listen
<1>6. ASSUME NEW d \in Daemons, Accept(d) PROVE Goal
  BY <1>6, <1>s, <1>t DEF Accept, Deciding, Pings
<1>7. ASSUME NEW d \in Daemons, Receive(d) PROVE Goal
  BY <1>7, <1>s, <1>t DEF Receive, Deciding
<1>8. ASSUME NEW d \in Daemons, ReceiveNothing(d) PROVE Goal
  BY <1>8, <1>a, <1>t DEF ReceiveNothing, Done
<1>9. ASSUME NEW d \in Daemons, Reply(d) PROVE Goal
  BY <1>9, <1>a, <1>t DEF Reply, Done
<1>10. ASSUME NEW d \in Daemons, ReplyToNobody(d), d = Lumad PROVE Goal
  BY <1>10, <1>a, <1>t DEF ReplyToNobody, Done
<1>11. ASSUME NEW d \in Daemons, pc[d] # "down", Die(d) PROVE Goal
  BY <1>11, <1>a, <1>t DEF Die
<1>12. ASSUME RefusePower PROVE Goal
  BY <1>12, <1>a, <1>t DEF RefusePower, Done
<1>13. ASSUME AcceptPower PROVE Goal
  BY <1>13, <1>s, <1>t DEF AcceptPower, Deciding, Pings
<1>14. ASSUME RebootFails PROVE Goal
  BY <1>14, <1>a, <1>t DEF RebootFails, Done
<1>15. ASSUME PowerOff PROVE Goal
  BY <1>15 DEF PowerOff
<1>16. ASSUME PingConnect PROVE Goal
  BY <1>16, <1>s, <1>t DEF PingConnect, Deciding, Pings
<1>17. ASSUME PingSend PROVE Goal
  BY <1>17, <1>s, <1>t DEF PingSend, Deciding, Pings
<1>18. ASSUME PingFails PROVE Goal
  BY <1>18, <1>s, <1>t DEF PingFails, Deciding, Pings
<1>19. ASSUME PingSucceeds PROVE Goal
  BY <1>19, <1>s, <1>t DEF PingSucceeds, Deciding, Pings
<1>20. ASSUME NEW d \in Daemons, Terminate(d) PROVE Goal
  BY <1>20, <1>s DEF Terminate
<1>21. ASSUME NEW d \in Daemons, UnlinkSocket(d) PROVE Goal
  BY <1>21, <1>f, <1>s, <1>t DEF UnlinkSocket
<1>22. ASSUME NEW d \in Daemons, Exit(d) PROVE Goal
  BY <1>22, <1>f, <1>s, <1>t DEF Exit
<1>23. ASSUME NEW d \in Daemons, AcceptFails(d) PROVE Goal
  BY <1>23, <1>f, <1>s, <1>t DEF AcceptFails
<1> HIDE DEF Goal
<1>q. Goal
  BY <1>1, <1>2, <1>3, <1>4, <1>5, <1>6, <1>7, <1>8, <1>9, <1>10, <1>11, <1>12, <1>13, <1>14, <1>15, <1>16, <1>17, <1>18, <1>19, <1>20, <1>21, <1>22, <1>23
     DEF Next, DaemonStep, Kill, ReplyToNobody, PingBroken
<1> QED BY <1>q DEF Goal

(* A response goes only to the caller whose request was decided.           *)
LEMMA AnswersDecided ==
    ASSUME ServicesInv, Next, NEW b \in Apps, sends'[b] > sends[b]
    PROVE  \E d \in Daemons : b \in Served(d) /\ pc[d] = "reply"
<1> DEFINE Goal == \E d \in Daemons : b \in Served(d) /\ pc[d] = "reply"
<1> USE DaemonFacts
<1>t. /\ sends \in [Callers -> Nat] /\ b \in Callers /\ b # Lmsd
      /\ TypeOK
  BY DEF ServicesInv, TypeOK, Callers, Daemons
<1>z. sends'[b] # sends[b] /\ sends'[b] # 0
  BY <1>t
<1>v. ASSUME NEW d \in Daemons, pc[d] = "reply", Deliver(peer[d].by) PROVE Goal
  <2>1. b = peer[d].by
    BY <1>t, <1>v, <1>z DEF Deliver
  <2>2. peer[d] # Nobody
    BY <1>t, <1>v DEF TypeOK
  <2> QED BY <1>v, <2>1, <2>2 DEF Served
<1>s. sends' # sends
  BY <1>z
<1>1. ASSUME NEW c \in Apps, NEW d \in Daemons, NEW k \in LumadKinds \cup LmsdKinds, Connect(c, d, k) PROVE Goal
  BY <1>1, <1>s DEF Connect
<1>2. ASSUME NEW c \in Apps, Send(c) PROVE Goal
  <2>1. sends'[b] = 0 \/ sends'[b] = sends[b]
    BY <1>2, <1>t DEF Send
  <2> QED BY <2>1, <1>z
<1>3. ASSUME NEW c \in Apps, Leave(c) PROVE Goal
  BY <1>3, <1>s DEF Leave
<1>4. ASSUME NEW d \in Daemons, Start(d) PROVE Goal
  BY <1>4, <1>s DEF Start, callerVars
<1>5. ASSUME NEW d \in Daemons, Listen(d) PROVE Goal
  BY <1>5, <1>s DEF Listen, callerVars
<1>6. ASSUME NEW d \in Daemons, Accept(d) PROVE Goal
  BY <1>6, <1>s DEF Accept, callerVars
<1>7. ASSUME NEW d \in Daemons, Receive(d) PROVE Goal
  BY <1>7, <1>s DEF Receive, callerVars
<1>8. ASSUME NEW d \in Daemons, ReceiveNothing(d) PROVE Goal
  BY <1>8, <1>s DEF ReceiveNothing
<1>9. ASSUME NEW d \in Daemons, Reply(d) PROVE Goal
  BY <1>9, <1>v DEF Reply
<1>10. ASSUME NEW d \in Daemons, ReplyToNobody(d), d = Lumad PROVE Goal
  BY <1>10, <1>s DEF ReplyToNobody
<1>11. ASSUME NEW d \in Daemons, pc[d] # "down", Die(d) PROVE Goal
  BY <1>11, <1>s DEF Die
<1>12. ASSUME RefusePower PROVE Goal
  BY <1>12, <1>s DEF RefusePower
<1>13. ASSUME AcceptPower PROVE Goal
  BY <1>13, <1>s, <1>v DEF AcceptPower
<1>14. ASSUME RebootFails PROVE Goal
  BY <1>14, <1>s DEF RebootFails
<1>15. ASSUME PowerOff PROVE Goal
  BY <1>15, <1>t, <1>z DEF PowerOff
<1>16. ASSUME PingConnect PROVE Goal
  BY <1>16, <1>s DEF PingConnect
<1>17. ASSUME PingSend PROVE Goal
  BY <1>17, <1>t, <1>z DEF PingSend
<1>18. ASSUME PingFails PROVE Goal
  BY <1>18, <1>s DEF PingFails
<1>19. ASSUME PingSucceeds PROVE Goal
  BY <1>19, <1>s DEF PingSucceeds
<1>20. ASSUME NEW d \in Daemons, Terminate(d) PROVE Goal
  BY <1>20, <1>s DEF Terminate, callerVars
<1>21. ASSUME NEW d \in Daemons, UnlinkSocket(d) PROVE Goal
  BY <1>21, <1>s DEF UnlinkSocket
<1>22. ASSUME NEW d \in Daemons, Exit(d) PROVE Goal
  BY <1>22, <1>s DEF Exit
<1>23. ASSUME NEW d \in Daemons, AcceptFails(d) PROVE Goal
  BY <1>23, <1>s DEF AcceptFails, callerVars
<1> HIDE DEF Goal
<1>q. Goal
  BY <1>1, <1>2, <1>3, <1>4, <1>5, <1>6, <1>7, <1>8, <1>9, <1>10, <1>11, <1>12, <1>13, <1>14, <1>15, <1>16, <1>17, <1>18, <1>19, <1>20, <1>21, <1>22, <1>23
     DEF Next, DaemonStep, Kill, ReplyToNobody, PingBroken
<1> QED BY <1>q DEF Goal

(* Every decision has a name both tables know.                             *)
LEMMA DecisionsNamed ==
    ASSUME NEW d \in Daemons, NEW k PROVE Decisions(d, k) \subseteq DOMAIN ErrorCode
  BY DEF Decisions, LumadDecisions, LmsdDecisions, ErrorCode

(* One service at a time reads a request.                                  *)
LEMMA OneReads ==
    ASSUME ServicesInv, Next, NEW a \in Daemons, NEW b \in Daemons,
           pc[a] = "recv", pc'[a] \in {"reply", "pinging"},
           pc[b] = "recv", pc'[b] \in {"reply", "pinging"}
    PROVE  a = b
<1> SUFFICES ASSUME a # b PROVE FALSE
  OBVIOUS
<1> USE DaemonFacts
<1>t. pc \in [Daemons -> PCs]
  BY DEF ServicesInv, TypeOK
<1>o. ASSUME NEW at, NEW v, pc' = [pc EXCEPT ![at] = v] PROVE FALSE
  BY <1>o, <1>t
<1>s. pc' # pc
  OBVIOUS
<1>1. ASSUME NEW c \in Apps, NEW d \in Daemons, NEW k \in LumadKinds \cup LmsdKinds, Connect(c, d, k) PROVE FALSE
  BY <1>1, <1>s DEF Connect, daemonVars
<1>2. ASSUME NEW c \in Apps, Send(c) PROVE FALSE
  BY <1>2, <1>s DEF Send, daemonVars
<1>3. ASSUME NEW c \in Apps, Leave(c) PROVE FALSE
  BY <1>3, <1>s DEF Leave, daemonVars
<1>4. ASSUME NEW d \in Daemons, Start(d) PROVE FALSE
  BY <1>4, <1>o DEF Start
<1>5. ASSUME NEW d \in Daemons, Listen(d) PROVE FALSE
  BY <1>5, <1>o DEF Listen
<1>6. ASSUME NEW d \in Daemons, Accept(d) PROVE FALSE
  BY <1>6, <1>o DEF Accept
<1>7. ASSUME NEW d \in Daemons, Receive(d) PROVE FALSE
  BY <1>7, <1>o DEF Receive
<1>8. ASSUME NEW d \in Daemons, ReceiveNothing(d) PROVE FALSE
  BY <1>8, <1>o DEF ReceiveNothing, Done
<1>9. ASSUME NEW d \in Daemons, Reply(d) PROVE FALSE
  BY <1>9, <1>o DEF Reply, Done
<1>10. ASSUME NEW d \in Daemons, ReplyToNobody(d), d = Lumad PROVE FALSE
  BY <1>10, <1>o DEF ReplyToNobody, Done
<1>11. ASSUME NEW d \in Daemons, pc[d] # "down", Die(d) PROVE FALSE
  BY <1>11, <1>o DEF Die
<1>12. ASSUME RefusePower PROVE FALSE
  BY <1>12, <1>o DEF RefusePower, Done
<1>13. ASSUME AcceptPower PROVE FALSE
  BY <1>13, <1>o DEF AcceptPower
<1>14. ASSUME RebootFails PROVE FALSE
  BY <1>14, <1>o DEF RebootFails, Done
<1>15. ASSUME PowerOff PROVE FALSE
  BY <1>15 DEF PowerOff
<1>16. ASSUME PingConnect PROVE FALSE
  BY <1>16, <1>o DEF PingConnect
<1>17. ASSUME PingSend PROVE FALSE
  BY <1>17, <1>o DEF PingSend
<1>18. ASSUME PingFails PROVE FALSE
  BY <1>18, <1>o DEF PingFails
<1>19. ASSUME PingSucceeds PROVE FALSE
  BY <1>19, <1>o DEF PingSucceeds
<1>20. ASSUME NEW d \in Daemons, Terminate(d) PROVE FALSE
  BY <1>20, <1>s DEF Terminate
<1>21. ASSUME NEW d \in Daemons, UnlinkSocket(d) PROVE FALSE
  BY <1>21, <1>o DEF UnlinkSocket
<1>22. ASSUME NEW d \in Daemons, Exit(d) PROVE FALSE
  BY <1>22, <1>o DEF Exit
<1>23. ASSUME NEW d \in Daemons, AcceptFails(d) PROVE FALSE
  BY <1>23, <1>s DEF AcceptFails
<1> QED
  BY <1>1, <1>2, <1>3, <1>4, <1>5, <1>6, <1>7, <1>8, <1>9, <1>10, <1>11, <1>12, <1>13, <1>14, <1>15, <1>16, <1>17, <1>18, <1>19, <1>20, <1>21, <1>22, <1>23
     DEF Next, DaemonStep, Kill, ReplyToNobody, PingBroken

(* The decision on a request is made when it is read, and kept.            *)
LEMMA DecidedStep ==
    ServicesInv /\ PlacesInv /\ WaitsInv /\ Decided /\ [SdkNext]_sdkVars => Decided'
<1> SUFFICES ASSUME ServicesInv, PlacesInv, WaitsInv, Decided, [SdkNext]_sdkVars PROVE Decided'
  OBVIOUS
<1>1. CASE UNCHANGED <<vars, outcome>>
  <2>1. UNCHANGED <<pc, peer, outcome>>
    BY <1>1 DEF vars, daemonVars
  <2>2. \A d \in Daemons : Served(d)' = Served(d)
    BY <2>1 DEF Served
  <2> QED BY <2>1, <2>2 DEF Decided
<1>2. CASE Step
  <2>1. PICK name \in DOMAIN ErrorCode \cup {"none"} :
          /\ IF \E c \in Apps, d \in Daemons : Handled(c, d)
             THEN \E c \in Apps, d \in Daemons :
                      Handled(c, d) /\ name \in Decisions(d, peer[d].kind)
             ELSE name = "none"
          /\ outcome' = [c \in Apps |->
                  IF \E d \in Daemons : Handled(c, d) THEN name
                  ELSE IF Begins(c) THEN "none" ELSE outcome[c]]
    BY <1>2 DEF Step
  <2>2. Next
    BY <1>2 DEF Step
  <2>3. outcome' \in [Apps -> DOMAIN ErrorCode \cup {"none"}]
    BY <2>1 DEF Decided
  <2>4. ASSUME NEW d \in Daemons, NEW c \in Apps, (c \in Served(d))', pc'[d] \in Deciding
        PROVE  outcome'[c] \in Decisions(d, peer'[d].kind)
    <3>1. peer'[d] # Nobody
      BY <2>4 DEF Served
    <3>2. /\ peer'[d] = peer[d]
          /\ pc[d] \in Deciding \/ (pc[d] = "recv" /\ pc'[d] \in {"reply", "pinging"})
      BY <2>2, <2>4, <3>1, ReadOnce
    <3>3. c \in Served(d) /\ peer[d] # Nobody /\ c = peer[d].by
      BY <2>4, <3>1, <3>2 DEF Served
    <3>4. CASE pc[d] = "recv" /\ pc'[d] \in {"reply", "pinging"}
      <4>1. Handled(c, d)
        BY <3>3, <3>4 DEF Handled
      <4>2. PICK b \in Apps, e \in Daemons : Handled(b, e) /\ name \in Decisions(e, peer[e].kind)
        BY <2>1, <4>1
      <4>3. e = d
        BY <2>2, <4>1, <4>2, OneReads DEF Handled
      <4>4. outcome'[c] = name
        BY <2>1, <4>1
      <4> QED BY <3>2, <4>2, <4>3, <4>4
    <3>5. CASE pc[d] \in Deciding
      <4>1. outcome[c] \in Decisions(d, peer[d].kind)
        BY <3>3, <3>5 DEF Decided
      <4>2. phase[c] \in Asked
        BY <3>3, <3>5 DEF WaitsInv, PeerWaits, Deciding
      <4>3. ~Begins(c)
        BY <4>2 DEF Begins, Asked
      <4>4. \A e \in Daemons : ~Handled(c, e)
        <5>1. ASSUME NEW e \in Daemons, Handled(c, e) PROVE FALSE
          <6>1. c \in Callers /\ c \in Held(d) /\ c \in Held(e)
            BY <3>3, <5>1 DEF Handled, Held, Callers
          <6>2. d = e
            BY <6>1, Alone DEF ServicesInv
          <6> QED BY <3>5, <5>1, <6>2 DEF Handled, Deciding, Pings
        <5> QED BY <5>1
      <4>5. outcome'[c] = outcome[c]
        BY <2>1, <4>3, <4>4
      <4> QED BY <3>2, <4>1, <4>5
    <3> QED BY <3>2, <3>4, <3>5
  <2> QED BY <2>3, <2>4 DEF Decided
<1> QED BY <1>1, <1>2 DEF SdkNext, ConnectFails, sdkVars

(* mapStatus() is right about the numbers of LMS ...                       *)
LEMMA MapsLms ==
    ASSUME NEW name \in DOMAIN ErrorCode
    PROVE  MapStatus(LmsStatus[name]) = ErrorCode[name]
<1>1. \A m, n \in DOMAIN LmsStatus : LmsStatus[m] = LmsStatus[n] => m = n
  BY DEF LmsStatus
<1>2. DOMAIN LmsStatus = DOMAIN ErrorCode
  BY DEF LmsStatus, ErrorCode
<1>3. {n \in DOMAIN LmsStatus : LmsStatus[n] = LmsStatus[name]} = {name}
  BY <1>1, <1>2
<1>4. (CHOOSE n \in {name} : TRUE) = name
  OBVIOUS
<1> QED BY <1>3, <1>4 DEF MapStatus

(* ... and of lumad's it takes the one of success, and no other, for it.   *)
LEMMA MapsLumad ==
    ASSUME NEW name \in {"ok", "internal", "permission"}
    PROVE  MapStatus(LumaStatus[name]) = "None" <=> name = "ok"
<1>1. /\ LumaStatus["ok"] = LmsStatus["ok"]
      /\ LumaStatus["internal"] = LmsStatus["permission"]
      /\ LumaStatus["permission"] = LmsStatus["unknown"]
  BY DEF LumaStatus, LmsStatus
<1>2. {"ok", "permission", "unknown"} \subseteq DOMAIN ErrorCode
  BY DEF ErrorCode
<1>3. /\ ErrorCode["ok"] = "None"
      /\ ErrorCode["permission"] # "None" /\ ErrorCode["unknown"] # "None"
  BY DEF ErrorCode
<1> HIDE DEF ErrorCode
<1>4. /\ MapStatus(LmsStatus["ok"]) = ErrorCode["ok"]
      /\ MapStatus(LmsStatus["permission"]) = ErrorCode["permission"]
      /\ MapStatus(LmsStatus["unknown"]) = ErrorCode["unknown"]
  BY <1>2, MapsLms
<1> QED BY <1>1, <1>3, <1>4

(* No program is told of a success, or an error of LMS, that the service   *)
(* did not decide on this very request: neither a reboot, a restart nor an *)
(* answer to an earlier call can stand in for it.                          *)
THEOREM SdkTellsTheDecision == SdkSpec => ToldAsDecided
<1>1. SdkInit => Decided
  BY DEF SdkInit, Init, Decided, Served, ErrorCode
<1>2. ASSUME ServicesInv, PlacesInv, WaitsInv, Decided, SdkNext, NEW c \in Apps, NEW d \in Daemons,
             Returns(c), c \in Served(d), sends'[c] > sends[c]
      PROVE  /\ outcome[c] \in Decisions(d, peer[d].kind)
             /\ error'[c] = "None" <=> outcome[c] = "ok"
             /\ d = Lmsd => error'[c] = ErrorCode[outcome[c]]
  <2>1. Step
    <3>1. CASE \E b \in Apps, e \in Daemons : ConnectFails(b, e)
      <4>1. sends' = sends
        BY <3>1 DEF ConnectFails, vars, callerVars
      <4>2. sends[c] \in Nat
        <5>1. sends \in [Callers -> Nat]
          BY <1>2 DEF ServicesInv, TypeOK
        <5> QED BY <5>1 DEF Callers
      <4> QED BY <1>2, <4>1, <4>2
    <3> QED BY <1>2, <3>1 DEF SdkNext
  <2>2. PICK e \in Daemons : c \in Served(e) /\ pc[e] = "reply"
    BY <1>2, <2>1, AnswersDecided DEF Step
  <2>3. \A e1 \in Daemons : c \in Served(e1) => e1 = d
    BY <1>2, Alone DEF Held, Callers, ServicesInv
  <2>4. outcome[c] \in Decisions(d, peer[d].kind) /\ pc[d] = "reply"
    BY <1>2, <2>2, <2>3 DEF Decided, Deciding
  <2>5. (CHOOSE e1 \in Daemons : c \in Served(e1)) = d
    BY <1>2, <2>3
  <2>6. error'[c] = MapStatus(Status(d, outcome[c]))
    BY <1>2, <2>1, <2>5 DEF Step, Returned
  <2>7. outcome[c] \in DOMAIN ErrorCode
    BY <2>4, DecisionsNamed
  <2>8. \A name \in DOMAIN ErrorCode : ErrorCode[name] = "None" <=> name = "ok"
    BY DEF ErrorCode
  <2>9. CASE d = Lmsd
    <3>1. error'[c] = ErrorCode[outcome[c]]
      BY <2>6, <2>7, <2>9, MapsLms DEF Status
    <3> QED BY <2>4, <2>7, <2>8, <3>1
  <2>10. CASE d = Lumad
    <3>1. outcome[c] \in {"ok", "internal", "permission"}
      BY <2>4, <2>10 DEF Decisions, LumadDecisions
    <3>2. MapStatus(LumaStatus[outcome[c]]) = "None" <=> outcome[c] = "ok"
      BY <3>1, MapsLumad
    <3> QED BY <2>4, <2>6, <2>10, <3>2, ServicesAssumption DEF Status
  <2> QED BY <2>9, <2>10 DEF Daemons
<1>3. ServicesInv /\ PlacesInv /\ WaitsInv /\ Decided /\ [SdkNext]_sdkVars =>
        [ \A c \in Apps, d \in Daemons :
            Returns(c) /\ c \in Served(d) /\ sends'[c] > sends[c] =>
                /\ outcome[c] \in Decisions(d, peer[d].kind)
                /\ error'[c] = "None" <=> outcome[c] = "ok"
                /\ d = Lmsd => error'[c] = ErrorCode[outcome[c]] ]_sdkVars
  BY <1>2
<1> QED
  BY <1>1, <1>3, DecidedStep, SdkKeepsServices, WaitsInvHolds, PTL DEF SdkSpec, ToldAsDecided
=============================================================================
