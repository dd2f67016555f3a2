----------------------------- MODULE LumaVMProofs -----------------------------
(***************************************************************************)
(* The invariants of LumaVM for any number of machines.                    *)
(*                                                                         *)
(* The argument: the pid file names the only machine that runs, and a      *)
(* machine that boots has no pid file against it.  So start_vm() either    *)
(* finds the running machine in the pid file, or may conclude from its     *)
(* absence that only self.qemu can be alive; and a call that waits has     *)
(* sent its signal to the only machine there was.                          *)
(***************************************************************************)
EXTENDS LumaVM, TLAPS

Unsignalled == {m \in Machines : proc[m] \in {"booting", "running"}}

(* A machine that boots under this frontend is alone with no pid file.     *)
BootsAlone ==
    qemu # NoMachine /\ proc[qemu] = "booting" => pidFile = NoMachine

(* While self.qemu is set there is no machine but it. *)
HeldIsOnly == qemu # NoMachine => qemu \in own /\ Unsignalled \subseteq {qemu}

(* A call waits only once every machine has its signal. *)
WaitsForSignalled == pc \in {"clean"} \cup Stopping => Unsignalled = {}

(* A restart that waits has room for its timer. *)
RestartHasRoom == pc = "restart" => restarts < MaxRestarts

VMInv ==
    /\ TypeOK
    /\ StartedIsHeld
    /\ RunningIsFindable
    /\ BootsAlone
    /\ HeldIsOnly
    /\ WaitsForSignalled
    /\ RestartHasRoom

States == {"unused", "booting", "running", "term", "killed", "dead"}

-----------------------------------------------------------------------------
(* Signals keep the table of processes well formed, signal the process     *)
(* they are for and leave the others alone.                                *)
LEMMA SignalProperties ==
    ASSUME NEW p \in [Machines -> States], NEW m \in Machines
    PROVE  /\ Term(p, m) \in [Machines -> States]
           /\ Kill(p, m) \in [Machines -> States]
           /\ Term(p, m)[m] \notin {"booting", "running"}
           /\ Kill(p, m)[m] \notin {"booting", "running"}
           /\ \A n \in Machines \ {m} : Term(p, m)[n] = p[n] /\ Kill(p, m)[n] = p[n]
<1>1. p[m] \in States
  OBVIOUS
<1>2. /\ Term(p, m) \in [Machines -> States]
      /\ Term(p, m)[m] \notin {"booting", "running"}
      /\ \A n \in Machines \ {m} : Term(p, m)[n] = p[n]
  <2>1. CASE p[m] = "booting"
    BY <2>1 DEF Term, States
  <2>2. CASE p[m] = "running"
    BY <2>2 DEF Term, States
  <2>3. CASE p[m] \notin {"booting", "running"}
    BY <1>1, <2>3 DEF Term, States
  <2> QED BY <2>1, <2>2, <2>3
<1>3. /\ Kill(p, m) \in [Machines -> States]
      /\ Kill(p, m)[m] \notin {"booting", "running"}
      /\ \A n \in Machines \ {m} : Kill(p, m)[n] = p[n]
  BY <1>1 DEF Kill, Alive, States
<1> QED BY <1>2, <1>3

(* start_vm() may start a machine when there is no pid file any more and   *)
(* no machine but self.qemu can still boot.                                *)
LEMMA LaunchKeepsInv ==
    ASSUME VMInv, NEW p \in [Machines -> States], Launch(p), pidFile' = NoMachine,
           \A m \in Machines : p[m] # "running" /\ (p[m] = "booting" => m = qemu),
           autostart' \in BOOLEAN, restarts' \in 0 .. MaxRestarts,
           UNCHANGED <<sensitive, display>>
    PROVE  VMInv'
<1>1. pc' = "loop" /\ old' = NoMachine
  BY DEF Launch
<1>2. CASE proc' = p /\ UNCHANGED <<qemu, own, vncReady, connects>>
  <2>1. TypeOK'
    BY <1>1, <1>2 DEF VMInv, TypeOK, States, Stopping
  <2>2. Unsignalled' \subseteq {qemu}
    BY <1>2 DEF Unsignalled
  <2>3. StartedIsHeld' /\ BootsAlone'
    BY <1>2 DEF VMInv, TypeOK, StartedIsHeld, BootsAlone
  <2>4. RunningIsFindable'
    BY <1>2 DEF RunningIsFindable
  <2>5. HeldIsOnly'
    BY <1>2, <2>2 DEF VMInv, HeldIsOnly
  <2>6. WaitsForSignalled' /\ RestartHasRoom'
    BY <1>1 DEF WaitsForSignalled, RestartHasRoom, Stopping
  <2> QED BY <2>1, <2>3, <2>4, <2>5, <2>6 DEF VMInv
<1>3. ASSUME ~Running(p), NEW m \in Machines, p[m] = "unused",
             proc' = [p EXCEPT ![m] = "booting"], qemu' = m, own' = own \cup {m},
             vncReady' = FALSE, connects' = connects + 1
      PROVE  VMInv'
  <2>1. \A n \in Machines : p[n] \notin {"booting", "running"}
    BY <1>3, MachineAssumption DEF Running, Alive
  <2>2. /\ proc' \in [Machines -> States]
        /\ \A n \in Machines : proc'[n] \in {"booting", "running"} => n = m
        /\ \A n \in Machines : proc'[n] # "running"
    BY <1>3, <2>1 DEF States
  <2>3. TypeOK'
    <3>1. connects' \in Nat
      BY <1>3 DEF VMInv, TypeOK
    <3> QED BY <1>1, <1>3, <2>2, <3>1, MachineAssumption DEF VMInv, TypeOK, States, Stopping
  <2>4. Unsignalled' \subseteq {m}
    BY <2>2 DEF Unsignalled
  <2>5. StartedIsHeld' /\ RunningIsFindable'
    BY <1>3, <2>2, <2>3 DEF StartedIsHeld, RunningIsFindable, TypeOK
  <2>6. BootsAlone'
    BY <1>3 DEF BootsAlone
  <2>7. HeldIsOnly'
    BY <1>3, <2>4 DEF HeldIsOnly
  <2>8. WaitsForSignalled' /\ RestartHasRoom'
    BY <1>1 DEF WaitsForSignalled, RestartHasRoom, Stopping
  <2> QED BY <2>3, <2>5, <2>6, <2>7, <2>8 DEF VMInv
<1> QED BY <1>2, <1>3 DEF Launch

(* start_vm() from a timer. *)
LEMMA StartVmKeepsInv ==
    ASSUME VMInv, pc = "loop", BootSettled, StartVm,
           autostart' \in BOOLEAN, restarts' \in 0 .. MaxRestarts,
           UNCHANGED <<sensitive, display>>
    PROVE  VMInv'
<1>1. /\ proc \in [Machines -> States]
      /\ \A m \in Machines : proc[m] = "booting" => m = qemu
      /\ \A m \in Machines : proc[m] = "running" => pidFile = m
      /\ pidFile \in Machines \cup {NoMachine}
  BY DEF VMInv, TypeOK, StartedIsHeld, RunningIsFindable, BootSettled, States
<1>2. CASE pidFile = NoMachine /\ Launch(proc) /\ UNCHANGED pidFile
  <2>1. \A m \in Machines : proc[m] # "running"
    BY <1>1, <1>2, MachineAssumption
  <2> QED BY <1>1, <1>2, <2>1, LaunchKeepsInv
<1>3. CASE /\ pidFile # NoMachine /\ ~Alive(proc, pidFile)
           /\ Launch(proc) /\ pidFile' = NoMachine
  <2>1. \A m \in Machines : proc[m] # "running"
    BY <1>1, <1>3 DEF Alive
  <2> QED BY <1>1, <1>3, <2>1, LaunchKeepsInv
<1>4. CASE /\ pidFile # NoMachine
           /\ proc' = Term(proc, pidFile) /\ old' = pidFile /\ pc' = "clean"
           /\ UNCHANGED <<qemu, own, vncReady, connects, pidFile>>
  <2>1. pidFile \in Machines
    BY <1>1, <1>4
  <2>2. /\ proc' \in [Machines -> States]
        /\ proc'[pidFile] \notin {"booting", "running"}
        /\ \A n \in Machines \ {pidFile} : proc'[n] = proc[n]
    BY <1>1, <1>4, <2>1, SignalProperties
  <2>3. \A m \in Machines : proc[m] # "booting"
    <3> SUFFICES ASSUME NEW m \in Machines, proc[m] = "booting" PROVE FALSE
      OBVIOUS
    <3>1. m = qemu /\ m # NoMachine
      BY <1>1, MachineAssumption
    <3> QED BY <1>4, <3>1 DEF VMInv, BootsAlone
  <2>4. \A m \in Machines : proc'[m] \notin {"booting", "running"}
    BY <1>1, <2>2, <2>3
  <2>5. TypeOK'
    BY <1>1, <1>4, <2>1, <2>2, MachineAssumption DEF VMInv, TypeOK, States, Stopping
  <2>6. Unsignalled' = {}
    BY <2>4 DEF Unsignalled
  <2>7. StartedIsHeld' /\ RunningIsFindable'
    BY <1>4, <2>4 DEF StartedIsHeld, RunningIsFindable, VMInv, TypeOK
  <2>8. BootsAlone'
    BY <1>4, <2>4 DEF VMInv, TypeOK, BootsAlone
  <2>9. HeldIsOnly'
    BY <1>4, <2>6 DEF VMInv, HeldIsOnly
  <2>10. WaitsForSignalled' /\ RestartHasRoom'
    BY <1>4, <2>6 DEF WaitsForSignalled, RestartHasRoom
  <2> QED BY <2>5, <2>7, <2>8, <2>9, <2>10 DEF VMInv
<1> QED BY <1>2, <1>3, <1>4 DEF StartVm

(* A frontend that is gone; the machines stay as they are. *)
LEMMA GoneKeepsInv ==
    ASSUME VMInv, Gone, NEW p \in [Machines -> States], proc' = p,
           pidFile' \in Machines \cup {NoMachine},
           \A m \in Machines : p[m] = "running" => pidFile' = m
    PROVE  VMInv'
<1>1. 0 \in 0 .. MaxRestarts /\ 0 \in Nat
  BY BoundAssumption
<1>2. TypeOK'
  BY <1>1 DEF Gone, TypeOK, States, Stopping
<1>3. StartedIsHeld' /\ RunningIsFindable'
  BY DEF Gone, StartedIsHeld, RunningIsFindable
<1>4. BootsAlone' /\ HeldIsOnly'
  BY DEF Gone, BootsAlone, HeldIsOnly
<1>5. WaitsForSignalled' /\ RestartHasRoom'
  BY DEF Gone, WaitsForSignalled, RestartHasRoom, Stopping
<1> QED BY <1>2, <1>3, <1>4, <1>5 DEF VMInv

(* The end of stop_vm(), when no machine of this frontend is unsignalled.  *)
LEMMA FinishKeepsInv ==
    ASSUME VMInv, NEW caller \in Stopping, Finish(caller), old = NoMachine,
           caller = "restart" => restarts < MaxRestarts,
           proc' \in [Machines -> States],
           \A m \in own : proc'[m] \notin {"booting", "running"},
           pidFile' \in Machines \cup {NoMachine},
           \A m \in Machines : proc'[m] = "running" => pidFile' = m
    PROVE  VMInv'
<1>1. CASE caller = "close"
  BY <1>1, GoneKeepsInv DEF Finish
<1>2. CASE caller \in {"stop", "restart"}
  <2>1. /\ pc' = "loop" /\ qemu' = NoMachine /\ display' = "closed" /\ vncReady' = FALSE
        /\ restarts' = restarts + (IF caller = "restart" THEN 1 ELSE 0)
        /\ UNCHANGED <<old, autostart, connects, sensitive, own>>
    BY <1>2 DEF Finish
  <2>2. restarts' \in 0 .. MaxRestarts
    BY <1>2, <2>1, BoundAssumption DEF VMInv, TypeOK
  <2>3. TypeOK'
    BY <2>1, <2>2 DEF VMInv, TypeOK, States, Stopping
  <2>4. StartedIsHeld' /\ RunningIsFindable'
    BY <2>1 DEF StartedIsHeld, RunningIsFindable
  <2>5. BootsAlone' /\ HeldIsOnly'
    BY <2>1 DEF BootsAlone, HeldIsOnly
  <2>6. WaitsForSignalled' /\ RestartHasRoom'
    BY <2>1 DEF WaitsForSignalled, RestartHasRoom, Stopping
  <2> QED BY <2>3, <2>4, <2>5, <2>6 DEF VMInv
<1> QED BY <1>1, <1>2 DEF Stopping

(* stop_vm() from a click or from closing the window.                      *)
LEMMA StopVmKeepsInv ==
    ASSUME VMInv, pc = "loop", NEW caller \in Stopping, StopVm(caller),
           caller = "restart" => restarts < MaxRestarts
    PROVE  VMInv'
<1>1. /\ proc \in [Machines -> States]
      /\ pidFile \in Machines \cup {NoMachine}
      /\ old = NoMachine
  BY DEF VMInv, TypeOK, States
<1>2. CASE ~Running(proc) /\ Finish(caller) /\ UNCHANGED <<proc, pidFile>>
  <2>1. \A m \in own : proc'[m] \notin {"booting", "running"}
    BY <1>2, MachineAssumption DEF VMInv, TypeOK, StartedIsHeld, Running, Alive
  <2>2. \A m \in Machines : proc'[m] = "running" => pidFile' = m
    BY <1>2 DEF VMInv, RunningIsFindable
  <2> QED BY <1>1, <1>2, <2>1, <2>2, FinishKeepsInv
<1>3. CASE /\ Running(proc) /\ proc' = Term(proc, qemu) /\ pc' = caller
           /\ display' = "closed" /\ vncReady' = FALSE
           /\ UNCHANGED <<qemu, old, timers, sensitive, pidFile, own>>
  <2>1. qemu \in Machines /\ qemu # NoMachine
    BY <1>3 DEF VMInv, TypeOK, Running
  <2>2. /\ proc' \in [Machines -> States]
        /\ proc'[qemu] \notin {"booting", "running"}
        /\ \A n \in Machines \ {qemu} : proc'[n] = proc[n]
    BY <1>1, <1>3, <2>1, SignalProperties
  <2>3. \A m \in Machines : proc'[m] \notin {"booting", "running"}
    BY <2>1, <2>2 DEF VMInv, HeldIsOnly, Unsignalled
  <2>4. TypeOK'
    BY <1>1, <1>3, <2>1, <2>2 DEF VMInv, TypeOK, States, Stopping, timers
  <2>5. StartedIsHeld' /\ RunningIsFindable'
    BY <1>3, <2>3 DEF VMInv, TypeOK, StartedIsHeld, RunningIsFindable
  <2>6. BootsAlone' /\ HeldIsOnly'
    BY <1>3, <2>1, <2>3 DEF VMInv, BootsAlone, HeldIsOnly, Unsignalled
  <2>7. WaitsForSignalled' /\ RestartHasRoom'
    BY <1>3, <2>3 DEF WaitsForSignalled, RestartHasRoom, Unsignalled, timers
  <2> QED BY <2>4, <2>5, <2>6, <2>7 DEF VMInv
<1> QED BY <1>2, <1>3 DEF StopVm

(* A step of QEMU that only moves one process and perhaps the pid file.    *)
LEMMA QemuKeepsInv ==
    ASSUME VMInv, NEW m \in Machines, NEW state \in {"running", "dead"},
           NEW file \in Machines \cup {NoMachine}, QemuStep(m, state, file),
           state = "running" => proc[m] = "booting" /\ file = m,
           \A n \in Machines : proc'[n] = "running" => file = n,
           \A n \in Machines \ {m} : n = qemu /\ proc[n] = "booting" => file = NoMachine
    PROVE  VMInv'
<1>1. /\ UNCHANGED <<pc, qemu, old, autostart, restarts, connects>>
      /\ UNCHANGED <<sensitive, display, vncReady, own>>
      /\ pidFile' = file
      /\ proc' = [proc EXCEPT ![m] = state]
  BY DEF QemuStep, timers, view
<1>2. /\ proc' \in [Machines -> States]
      /\ proc'[m] = state
      /\ \A n \in Machines \ {m} : proc'[n] = proc[n]
  BY <1>1 DEF VMInv, TypeOK, States
<1>3. TypeOK'
  BY <1>1, <1>2 DEF VMInv, TypeOK, States, Stopping
<1>4. \A n \in Machines : proc'[n] \in {"booting", "running"}
                              => proc[n] \in {"booting", "running"}
  BY <1>2
<1>5. StartedIsHeld'
  BY <1>1, <1>4 DEF VMInv, TypeOK, StartedIsHeld
<1>6. RunningIsFindable'
  BY <1>1 DEF RunningIsFindable
<1>7. RestartHasRoom'
  BY <1>1 DEF VMInv, RestartHasRoom
<1>8. BootsAlone'
  BY <1>1, <1>2 DEF VMInv, TypeOK, BootsAlone
<1>9. Unsignalled' \subseteq Unsignalled
  BY <1>4 DEF Unsignalled
<1>10. HeldIsOnly'
  BY <1>1, <1>9 DEF VMInv, HeldIsOnly
<1>11. WaitsForSignalled'
  BY <1>1, <1>9 DEF VMInv, WaitsForSignalled
<1> QED BY <1>3, <1>5, <1>6, <1>7, <1>8, <1>10, <1>11 DEF VMInv

(* Before anything runs. *)
LEMMA InitVMInv == Init => VMInv
<1> SUFFICES ASSUME Init PROVE VMInv
  OBVIOUS
<1>1. 0 \in 0 .. MaxRestarts /\ 0 \in Nat
  BY BoundAssumption
<1>2. TypeOK
  BY <1>1 DEF Init, TypeOK, Stopping
<1>3. StartedIsHeld /\ RunningIsFindable
  BY DEF Init, StartedIsHeld, RunningIsFindable
<1>4. BootsAlone /\ HeldIsOnly /\ WaitsForSignalled /\ RestartHasRoom
  BY DEF Init, BootsAlone, HeldIsOnly, WaitsForSignalled, RestartHasRoom, Stopping
<1> QED BY <1>2, <1>3, <1>4 DEF VMInv

(* Every step of the frontend, of GTK and of QEMU keeps the invariant.     *)
LEMMA NextVMInv == VMInv /\ [Next]_vars => VMInv'
<1> SUFFICES ASSUME VMInv, [Next]_vars PROVE VMInv'
  OBVIOUS
<1> DEFINE Table == [Machines -> States]
<1>0. /\ proc \in Table
      /\ pidFile \in Machines \cup {NoMachine}
      /\ \A m \in Machines : proc[m] = "running" => pidFile = m
      /\ restarts \in 0 .. MaxRestarts
  BY DEF VMInv, TypeOK, States, RunningIsFindable
<1>1. CASE Open
  <2>1. TypeOK'
    BY <1>1 DEF Open, VMInv, TypeOK, Stopping
  <2>2. /\ UNCHANGED <<qemu, vncReady, proc, pidFile, own, restarts>>
        /\ pc' = "loop"
    BY <1>1 DEF Open
  <2>3. StartedIsHeld' /\ RunningIsFindable'
    BY <2>2 DEF VMInv, StartedIsHeld, RunningIsFindable
  <2>4. BootsAlone' /\ HeldIsOnly'
    BY <2>2 DEF VMInv, BootsAlone, HeldIsOnly, Unsignalled
  <2>5. WaitsForSignalled' /\ RestartHasRoom'
    BY <2>2 DEF WaitsForSignalled, RestartHasRoom, Stopping
  <2> QED BY <2>1, <2>3, <2>4, <2>5 DEF VMInv
<1>2. CASE Crash
  BY <1>0, <1>2, GoneKeepsInv DEF Crash
<1>3. CASE CleanEnds
  <2>1. PICK p \in {Kill(proc, old), [proc EXCEPT ![old] = "dead"]} : Launch(p)
    BY <1>3 DEF CleanEnds
  <2>2. /\ pc = "clean" /\ pidFile' = NoMachine
        /\ UNCHANGED <<autostart, restarts, sensitive, display>>
    BY <1>3 DEF CleanEnds
  <2>3. old \in Machines
    BY <2>2, MachineAssumption DEF VMInv, TypeOK
  <2>4. /\ p \in [Machines -> States]
        /\ p[old] \notin {"booting", "running"}
        /\ \A n \in Machines \ {old} : p[n] = proc[n]
    <3>1. CASE p = Kill(proc, old)
      BY <1>0, <2>3, <3>1, SignalProperties
    <3>2. CASE p = [proc EXCEPT ![old] = "dead"]
      BY <1>0, <2>3, <3>2 DEF States
    <3> QED BY <2>1, <3>1, <3>2
  <2>5. \A m \in Machines : proc[m] \notin {"booting", "running"}
    BY <2>2 DEF VMInv, WaitsForSignalled, Unsignalled
  <2>6. \A m \in Machines : p[m] # "running" /\ (p[m] = "booting" => m = qemu)
    BY <2>3, <2>4, <2>5
  <2>7. autostart' \in BOOLEAN /\ restarts' \in 0 .. MaxRestarts
    BY <2>2 DEF VMInv, TypeOK
  <2> QED BY <2>1, <2>2, <2>4, <2>6, <2>7, LaunchKeepsInv
<1>4. CASE Autostart
  <2>1. restarts' \in 0 .. MaxRestarts /\ autostart' \in BOOLEAN
    BY <1>0, <1>4 DEF Autostart
  <2> QED BY <1>4, <2>1, StartVmKeepsInv DEF Autostart
<1>5. CASE RestartAfterStop
  <2>1. restarts' \in 0 .. MaxRestarts
    BY <1>0, <1>5, BoundAssumption DEF RestartAfterStop
  <2>2. autostart' \in BOOLEAN
    BY <1>5 DEF RestartAfterStop, VMInv, TypeOK
  <2> QED BY <1>5, <2>1, <2>2, StartVmKeepsInv DEF RestartAfterStop
<1>6. CASE StopEnds
  <2>1. pc \in Stopping /\ Finish(pc) /\ pidFile' = NoMachine
    BY <1>6 DEF StopEnds
  <2>2. old = NoMachine /\ qemu \in Machines
    BY <2>1 DEF VMInv, TypeOK, Stopping
  <2>3. proc' \in [Machines -> States]
    BY <1>0, <1>6, <2>2, SignalProperties DEF StopEnds
  <2>4. \A m \in Machines : proc'[m] \notin {"booting", "running"}
    <3>1. \A m \in Machines : proc[m] \notin {"booting", "running"}
      BY <2>1 DEF VMInv, WaitsForSignalled, Unsignalled
    <3>2. CASE proc' = proc
      BY <3>1, <3>2
    <3>3. CASE proc' = Kill(proc, qemu)
      BY <1>0, <2>2, <3>1, <3>3, SignalProperties
    <3> QED BY <1>6, <3>2, <3>3 DEF StopEnds
  <2>5. own \subseteq Machines /\ (pc = "restart" => restarts < MaxRestarts)
    BY DEF VMInv, TypeOK, RestartHasRoom
  <2> QED BY <2>1, <2>2, <2>3, <2>4, <2>5, FinishKeepsInv
<1>7. CASE ClickRestart
  BY <1>7, StopVmKeepsInv DEF ClickRestart, Stopping
<1>8. CASE ClickStop
  BY <1>8, StopVmKeepsInv DEF ClickStop, Stopping
<1>9. CASE Close
  BY <1>9, StopVmKeepsInv DEF Close, Stopping
<1>10. CASE UpdateState \/ UpdateStateEnds
  <2>1. /\ UNCHANGED <<old, autostart, restarts, connects, display, proc, pidFile, own>>
        /\ pc \in {"loop", "polled"} /\ pc' \in {"loop", "polled"}
    BY <1>10 DEF UpdateState, UpdateStateEnds, timers
  <2>2. qemu' = qemu \/ (~Running(proc) /\ qemu' = NoMachine)
    BY <1>10 DEF UpdateState, UpdateStateEnds
  <2>3. pc' = "polled" => qemu' # NoMachine
    BY <1>10 DEF UpdateState, UpdateStateEnds, Running
  <2>4. sensitive' \in BOOLEAN /\ vncReady' \in BOOLEAN
    <3>1. CASE UpdateState
      BY <3>1, Zenon DEF UpdateState, VMInv, TypeOK, Running
    <3>2. CASE UpdateStateEnds
      BY <3>2, Zenon DEF UpdateStateEnds, VMInv, TypeOK
    <3> QED BY <1>10, <3>1, <3>2
  <2>5. TypeOK'
    BY <2>1, <2>2, <2>3, <2>4 DEF VMInv, TypeOK, Stopping
  <2>6. StartedIsHeld'
    BY <2>1, <2>2 DEF VMInv, StartedIsHeld, Running, TypeOK, Alive
  <2>7. RunningIsFindable'
    BY <2>1 DEF VMInv, RunningIsFindable
  <2>8. BootsAlone' /\ HeldIsOnly'
    BY <2>1, <2>2 DEF VMInv, BootsAlone, HeldIsOnly, Unsignalled
  <2>9. WaitsForSignalled' /\ RestartHasRoom'
    BY <2>1 DEF VMInv, WaitsForSignalled, RestartHasRoom, Stopping
  <2> QED BY <2>5, <2>6, <2>7, <2>8, <2>9 DEF VMInv
<1>11. CASE \/ ConnectVnc
            \/ DisplayChanges
            \/ UNCHANGED vars
  <2>1. /\ UNCHANGED <<pc, qemu, old, autostart, restarts, sensitive, vncReady>>
        /\ UNCHANGED <<proc, pidFile, own>>
    BY <1>11 DEF ConnectVnc, DisplayChanges, vars, timers, view
  <2>2. connects' \in Nat
    BY <1>11 DEF ConnectVnc, DisplayChanges, vars, timers, VMInv, TypeOK
  <2>3. display' \in {"closed", "open", "sized"}
    BY <1>11 DEF ConnectVnc, DisplayChanges, vars, view, VMInv, TypeOK
  <2>4. TypeOK'
    BY <2>1, <2>2, <2>3 DEF VMInv, TypeOK
  <2>5. StartedIsHeld' /\ RunningIsFindable'
    BY <2>1 DEF VMInv, StartedIsHeld, RunningIsFindable
  <2>6. BootsAlone' /\ HeldIsOnly'
    BY <2>1 DEF VMInv, BootsAlone, HeldIsOnly, Unsignalled
  <2>7. WaitsForSignalled' /\ RestartHasRoom'
    BY <2>1 DEF VMInv, WaitsForSignalled, RestartHasRoom, Unsignalled
  <2> QED BY <2>4, <2>5, <2>6, <2>7 DEF VMInv
<1>12. ASSUME NEW m \in Machines, Boot(m) PROVE VMInv'
  <2>1. \A n \in Machines : proc[n] # "running"
    BY <1>0, <1>12, MachineAssumption DEF Boot, PidLocked, Alive
  <2>2. \A n \in Machines \ {m} : n = qemu => proc[n] # "booting"
    BY <1>12, MachineAssumption DEF Boot, VMInv, HeldIsOnly, Unsignalled
  <2>3. \A n \in Machines : proc'[n] = "running" => m = n
    BY <1>0, <1>12, <2>1 DEF Boot, QemuStep
  <2> QED BY <1>12, <2>2, <2>3, QemuKeepsInv DEF Boot
<1>13. ASSUME NEW m \in Machines, BootFails(m) PROVE VMInv'
  <2>1. PICK file \in {pidFile, NoMachine} :
            QemuStep(m, "dead", file) /\ (file # pidFile => ~PidLocked)
    BY <1>13 DEF BootFails
  <2>2. file \in Machines \cup {NoMachine}
    BY <1>0, <2>1
  <2>3. \A n \in Machines : proc'[n] = "running" => proc[n] = "running"
    BY <1>0, <2>1 DEF QemuStep
  <2>4. \A n \in Machines : proc'[n] = "running" => file = n
    BY <1>0, <2>1, <2>3, MachineAssumption DEF PidLocked, Alive
  <2>5. \A n \in Machines \ {m} : n = qemu /\ proc[n] = "booting" => file = NoMachine
    BY <2>1, MachineAssumption DEF VMInv, BootsAlone
  <2> QED BY <2>1, <2>2, <2>4, <2>5, QemuKeepsInv
<1>14. ASSUME NEW m \in Machines, Exit(m) \/ Die(m) PROVE VMInv'
  <2>1. PICK file \in {pidFile, NoMachine} :
            QemuStep(m, "dead", file) /\ (file # pidFile => pidFile = m)
    BY <1>14 DEF Exit, Die
  <2>2. file \in Machines \cup {NoMachine}
    BY <1>0, <2>1
  <2>3. \A n \in Machines : proc'[n] = "running" => proc[n] = "running" /\ n # m
    BY <1>0, <2>1 DEF QemuStep
  <2>4. \A n \in Machines : proc'[n] = "running" => file = n
    BY <1>0, <2>1, <2>3
  <2>5. \A n \in Machines \ {m} : n = qemu /\ proc[n] = "booting" => file = NoMachine
    BY <2>1, MachineAssumption DEF VMInv, BootsAlone
  <2> QED BY <2>1, <2>2, <2>4, <2>5, QemuKeepsInv
<1> QED BY <1>1, <1>2, <1>3, <1>4, <1>5, <1>6, <1>7, <1>8, <1>9, <1>10, <1>11,
           <1>12, <1>13, <1>14 DEF Next

-----------------------------------------------------------------------------
(* The invariant holds however many machines there are, and however many   *)
(* restarts are pending.                                                   *)
THEOREM VMInvHolds == Spec => []VMInv
BY InitVMInv, NextVMInv, PTL DEF Spec

(* The variables of the frontend keep their types, and a call waits only   *)
(* for a process it knows.                                                 *)
THEOREM FrontendTyped == Spec => []TypeOK
<1>1. VMInv => TypeOK
  BY DEF VMInv
<1> QED BY <1>1, VMInvHolds, PTL

(* A machine this frontend started and has not signalled is self.qemu.     *)
THEOREM NothingLetGo == Spec => []StartedIsHeld
<1>1. VMInv => StartedIsHeld
  BY DEF VMInv
<1> QED BY <1>1, VMInvHolds, PTL

(* The pid file names every machine that runs, so the clean-up of the next *)
(* frontend finds it.                                                      *)
THEOREM NoLostMachine == Spec => []RunningIsFindable
<1>1. VMInv => RunningIsFindable
  BY DEF VMInv
<1> QED BY <1>1, VMInvHolds, PTL

(* Closing the window leaves no machine of this frontend unsignalled.      *)
THEOREM CloseStopsAll == Spec => CloseLeavesNothing
<1> DEFINE NoneLeft == \A m \in own : proc'[m] \notin {"booting", "running"}
<1>1. ASSUME VMInv, pc' = "off", Close PROVE NoneLeft
  <2>1. CASE ~Running(proc) /\ UNCHANGED proc
    BY <1>1, <2>1, MachineAssumption DEF VMInv, TypeOK, StartedIsHeld, Running, Alive
  <2>2. CASE pc' = "close"
    BY <1>1, <2>2
  <2> QED BY <1>1, <2>1, <2>2 DEF Close, StopVm
<1>2. ASSUME VMInv, pc = "close", StopEnds PROVE NoneLeft
  <2>1. /\ proc \in [Machines -> States] /\ qemu \in Machines
        /\ own \subseteq Machines
        /\ \A m \in Machines : proc[m] \notin {"booting", "running"}
    BY <1>2 DEF VMInv, TypeOK, States, Stopping, WaitsForSignalled, Unsignalled
  <2>2. CASE proc' = proc
    BY <2>1, <2>2
  <2>3. CASE proc' = Kill(proc, qemu)
    BY <2>1, <2>3, SignalProperties
  <2> QED BY <1>2, <2>2, <2>3 DEF StopEnds
<1>3. VMInv /\ [Next]_vars
        => [pc' = "off" /\ (Close \/ (pc = "close" /\ StopEnds)) => NoneLeft]_vars
  BY <1>1, <1>2
<1> QED BY <1>3, VMInvHolds, PTL DEF Spec, CloseLeavesNothing
=============================================================================
