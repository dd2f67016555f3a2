-------------------------------- MODULE LumaVM --------------------------------
(***************************************************************************)
(* The development frontend (tools/lumavm/lumavm.py): one window that      *)
(* starts, restarts and stops a QEMU process, finds a process an earlier   *)
(* frontend left behind by its pid file, and shows its screen over VNC.    *)
(*                                                                         *)
(* GTK runs one callback at a time, but stop_vm() and start_vm() wait for  *)
(* a process inside their callback, and update_state() polls twice: pc     *)
(* says where, so that processes move, and the frontend is killed, in      *)
(* between.                                                                *)
(* QEMU, GtkVnc and the pid file QEMU keeps are external; they are         *)
(* modelled as the frontend meets them.                                    *)
(***************************************************************************)
EXTENDS Naturals, FiniteSets

CONSTANTS
    Machines,     \* the QEMU processes that may be started, each once
    NoMachine,    \* None, and no pid file
    MaxRestarts   \* bound: the most restart timers pending at once

ASSUME MachineAssumption == NoMachine \notin Machines
ASSUME BoundAssumption == MaxRestarts \in Nat

VARIABLES
    pc,         \* "off", "loop", the call that waits in the frontend, or
                \* "polled": update_state() between its two polls
    qemu,       \* self.qemu
    old,        \* old_pid while start_vm() waits for it
    autostart,  \* the 350 ms timer of the constructor is pending
    restarts,   \* how many 450 ms timers of restart_vm() are pending
    connects,   \* how many timers of connect_vnc() are pending
    sensitive,  \* the Restart and Stop buttons can be clicked
    display,    \* GtkVnc: "closed", "open", or "sized"
    vncReady,   \* self.vnc_ready
    proc,       \* the processes
    pidFile,    \* whose pid lumavm-qemu.pid holds
    own         \* history: the processes this frontend started

timers == <<autostart, restarts, connects>>
view == <<sensitive, display, vncReady>>
vars == <<pc, qemu, old, timers, view, proc, pidFile, own>>

(* stop_vm() waits on behalf of one of three callers; "clean" is the wait  *)
(* of start_vm() for a stale process.                                      *)
Stopping == {"stop", "restart", "close"}

(* "booting": QEMU has not written its pid file yet.  "term" and "killed": *)
(* SIGTERM or SIGKILL was sent, the process is still there.                *)
Alive(p, m) == p[m] \in {"booting", "running", "term", "killed"}

(* os.kill() and os.killpg() of a process that may have died meanwhile.    *)
Term(p, m) ==
    [p EXCEPT ![m] = CASE @ = "booting" -> "killed"
                       [] @ = "running" -> "term"
                       [] OTHER -> @]
Kill(p, m) == [p EXCEPT ![m] = IF Alive(p, m) THEN "killed" ELSE @]

(* self.qemu is not None and self.qemu.poll() is None. *)
Running(p) == qemu # NoMachine /\ Alive(p, qemu)

-----------------------------------------------------------------------------
Init ==
    /\ pc = "off"
    /\ qemu = NoMachine
    /\ old = NoMachine
    /\ autostart = FALSE
    /\ restarts = 0
    /\ connects = 0
    /\ sensitive = FALSE
    /\ display = "closed"
    /\ vncReady = FALSE
    /\ proc = [m \in Machines |-> "unused"]
    /\ pidFile = NoMachine
    /\ own = {}

(* The window opens; GTK buttons start out sensitive.  A second activation *)
(* only presents the window that is there.                                 *)
Open ==
    /\ pc = "off"
    /\ pc' = "loop"
    /\ autostart' = TRUE
    /\ sensitive' = TRUE
    /\ UNCHANGED <<qemu, old, restarts, connects, display, vncReady, proc, pidFile, own>>

(* Everything the process of the frontend held is gone. *)
Gone ==
    /\ pc' = "off"
    /\ qemu' = NoMachine
    /\ old' = NoMachine
    /\ autostart' = FALSE
    /\ restarts' = 0
    /\ connects' = 0
    /\ sensitive' = FALSE
    /\ display' = "closed"
    /\ vncReady' = FALSE
    /\ own' = {}

(* Ctrl+C or a crash, also while a call waits: QEMU has its own session.   *)
Crash ==
    /\ pc # "off"
    /\ Gone
    /\ UNCHANGED <<proc, pidFile>>

-----------------------------------------------------------------------------
(* Fault: a machine that is still running is not looked for. *)
Launch_Always(p) ==
    /\ pc' = "loop"
    /\ old' = NoMachine
    /\ \E m \in Machines :
           /\ p[m] = "unused"
           /\ proc' = [p EXCEPT ![m] = "booting"]
           /\ qemu' = m
           /\ own' = own \cup {m}
           /\ vncReady' = FALSE
           /\ connects' = connects + 1

(* start_vm() from line 813 on, the processes being p: nothing when a      *)
(* machine runs, when an image is missing or when Popen fails.             *)
Launch(p) ==
    /\ pc' = "loop"
    /\ old' = NoMachine
    /\ \/ /\ proc' = p
          /\ UNCHANGED <<qemu, own, vncReady, connects>>
       \/ /\ ~Running(p)
          /\ \E m \in Machines :
                 /\ p[m] = "unused"
                 /\ proc' = [p EXCEPT ![m] = "booting"]
                 /\ qemu' = m
                 /\ own' = own \cup {m}
          /\ vncReady' = FALSE
          /\ connects' = connects + 1

(* start_vm(): a pid file that names no process is removed; one that does  *)
(* makes it wait for that process.  A dead child of this frontend answers  *)
(* to os.kill() until it is polled.                                        *)
StartVm ==
    \/ /\ pidFile = NoMachine
       /\ Launch(proc)
       /\ UNCHANGED pidFile
    \/ /\ pidFile # NoMachine
       /\ ~Alive(proc, pidFile)
       /\ Launch(proc)
       /\ pidFile' = NoMachine
    \/ /\ pidFile # NoMachine
       /\ Alive(proc, pidFile) \/ pidFile \in own
       /\ proc' = Term(proc, pidFile)
       /\ old' = pidFile
       /\ pc' = "clean"
       /\ UNCHANGED <<qemu, own, vncReady, connects, pidFile>>

(* The stale process has gone, or 1.5 s have passed; SIGKILL either way,   *)
(* and nothing waits for it to take effect.                                *)
CleanEnds ==
    /\ pc = "clean"
    /\ \E p \in {Kill(proc, old), [proc EXCEPT ![old] = "dead"]} : Launch(p)
    /\ pidFile' = NoMachine
    /\ UNCHANGED <<autostart, restarts, sensitive, display>>

(* Timing assumption: QEMU writes its pid file sooner than a new frontend, *)
(* started after the old one is gone, gets to its first start_vm().  So no *)
(* start_vm() reads a pid file between its creation and its content, which *)
(* would make it remove the file of a living process.                      *)
BootSettled == \A m \in Machines \ own : proc[m] # "booting"

Autostart ==
    /\ pc = "loop"
    /\ autostart
    /\ BootSettled
    /\ autostart' = FALSE
    /\ StartVm
    /\ UNCHANGED <<restarts, sensitive, display>>

RestartAfterStop ==
    /\ pc = "loop"
    /\ restarts > 0
    /\ BootSettled
    /\ restarts' = restarts - 1
    /\ StartVm
    /\ UNCHANGED <<autostart, sensitive, display>>

-----------------------------------------------------------------------------
(* What follows stop_vm(): restart_vm() sets its timer, and a window that  *)
(* is closed ends the application.                                         *)
Finish(caller) ==
    \/ /\ caller \in {"stop", "restart"}
       /\ pc' = "loop"
       /\ qemu' = NoMachine
       /\ restarts' = restarts + (IF caller = "restart" THEN 1 ELSE 0)
       /\ display' = "closed"
       /\ vncReady' = FALSE
       /\ UNCHANGED <<old, autostart, connects, sensitive, own>>
    \/ caller = "close" /\ Gone

(* Faults: the pid file is removed before the early return; only a machine *)
(* whose screen is shown is stopped.                                       *)
StopVm_UnlinksFirst(caller) ==
    \/ /\ ~Running(proc)
       /\ Finish(caller)
       /\ pidFile' = NoMachine
       /\ UNCHANGED proc
    \/ /\ Running(proc)
       /\ proc' = Term(proc, qemu)
       /\ pc' = caller
       /\ display' = "closed"
       /\ vncReady' = FALSE
       /\ UNCHANGED <<qemu, old, timers, sensitive, pidFile, own>>
StopVm_OnlyShown(caller) ==
    \/ /\ ~vncReady
       /\ Finish(caller)
       /\ UNCHANGED <<proc, pidFile>>
    \/ /\ vncReady
       /\ Running(proc)
       /\ proc' = Term(proc, qemu)
       /\ pc' = caller
       /\ display' = "closed"
       /\ vncReady' = FALSE
       /\ UNCHANGED <<qemu, old, timers, sensitive, pidFile, own>>

(* stop_vm(): without a running machine it returns at once.                *)
StopVm(caller) ==
    \/ /\ ~Running(proc)
       /\ Finish(caller)
       /\ UNCHANGED <<proc, pidFile>>
    \/ /\ Running(proc)
       /\ proc' = Term(proc, qemu)
       /\ pc' = caller
       /\ display' = "closed"
       /\ vncReady' = FALSE
       /\ UNCHANGED <<qemu, old, timers, sensitive, pidFile, own>>

(* wait(timeout=2) returns, or SIGKILL follows; whatever pid file lies     *)
(* there is removed.                                                       *)
StopEnds ==
    /\ pc \in Stopping
    /\ \/ ~Alive(proc, qemu) /\ UNCHANGED proc
       \/ Alive(proc, qemu) /\ proc' = Kill(proc, qemu)
    /\ pidFile' = NoMachine
    /\ Finish(pc)

ClickRestart ==
    /\ pc = "loop"
    /\ sensitive
    /\ restarts < MaxRestarts
    /\ StopVm("restart")

ClickStop ==
    /\ pc = "loop"
    /\ sensitive
    /\ StopVm("stop")

(* on_close() *)
Close ==
    /\ pc = "loop"
    /\ StopVm("close")

-----------------------------------------------------------------------------
(* update_state(), every 500 ms: the first poll sets the buttons, and      *)
(* finds a machine that is gone.                                           *)
UpdateState ==
    /\ pc = "loop"
    /\ sensitive' = Running(proc)
    /\ \/ /\ Running(proc)
          /\ pc' = "polled"
          /\ UNCHANGED <<qemu, vncReady>>
       \/ /\ ~Running(proc)
          /\ qemu' = NoMachine
          /\ vncReady' = (vncReady /\ qemu = NoMachine)
          /\ UNCHANGED pc
    /\ UNCHANGED <<old, timers, display, proc, pidFile, own>>

(* The second poll lets go of a machine that died since; the screen is     *)
(* then judged by the result of the first, so that vnc_ready may be set    *)
(* without a machine, and stays set until the next start or stop.          *)
UpdateStateEnds ==
    /\ pc = "polled"
    /\ pc' = "loop"
    /\ qemu' = IF Running(proc) THEN qemu ELSE NoMachine
    /\ vncReady' = (display = "sized" \/ (vncReady /\ Running(proc)))
    /\ UNCHANGED <<old, timers, sensitive, display, proc, pidFile, own>>

(* connect_vnc(): the attempt is made once; it is repeated only when       *)
(* open_host() raises.                                                     *)
ConnectVnc ==
    /\ pc = "loop"
    /\ connects > 0
    /\ \/ connects' = connects - 1 /\ UNCHANGED display
       \/ /\ Running(proc)
          /\ display = "closed"
          /\ \/ connects' = connects - 1 /\ display' = "open"
             \/ UNCHANGED <<connects, display>>
    /\ UNCHANGED <<pc, qemu, old, autostart, restarts, sensitive, vncReady,
                   proc, pidFile, own>>

(* GtkVnc learns the size of the screen, or loses the connection.          *)
DisplayChanges ==
    /\ pc = "loop"
    /\ \/ display = "open" /\ display' = "sized" /\ (\E m \in Machines : proc[m] = "running")
       \/ display # "closed" /\ display' = "closed"
    /\ UNCHANGED <<pc, qemu, old, timers, sensitive, vncReady, proc, pidFile, own>>

-----------------------------------------------------------------------------
(* A living process holds the lock of the pid file it wrote. *)
PidLocked == pidFile # NoMachine /\ Alive(proc, pidFile)
DiskFree(m) == \A n \in Machines \ {m} : proc[n] \notin {"running", "term", "killed"}

QemuStep(m, state, file) ==
    /\ proc' = [proc EXCEPT ![m] = state]
    /\ pidFile' = file
    /\ UNCHANGED <<pc, qemu, old, timers, view, own>>

(* QEMU writes its pid file and takes the disk; when another process holds *)
(* either it ends, and removes the pid file if it had written it.          *)
Boot(m) ==
    /\ proc[m] = "booting"
    /\ ~PidLocked
    /\ DiskFree(m)
    /\ QemuStep(m, "running", m)
BootFails(m) ==
    /\ proc[m] = "booting"
    /\ \/ QemuStep(m, "dead", pidFile)
       \/ ~PidLocked /\ QemuStep(m, "dead", NoMachine)

(* SIGTERM is obeyed, or the guest powers off: the pid file goes as well.  *)
Exit(m) ==
    /\ proc[m] \in {"running", "term"}
    /\ QemuStep(m, "dead", IF pidFile = m THEN NoMachine ELSE pidFile)

(* SIGKILL took effect, or the process died by itself. *)
Die(m) ==
    /\ proc[m] \in {"running", "term", "killed"}
    /\ QemuStep(m, "dead", pidFile)

Next ==
    \/ Open
    \/ Crash
    \/ CleanEnds
    \/ Autostart
    \/ RestartAfterStop
    \/ StopEnds
    \/ ClickRestart
    \/ ClickStop
    \/ Close
    \/ UpdateState
    \/ UpdateStateEnds
    \/ ConnectVnc
    \/ DisplayChanges
    \/ \E m \in Machines : Boot(m)
    \/ \E m \in Machines : BootFails(m)
    \/ \E m \in Machines : Exit(m)
    \/ \E m \in Machines : Die(m)

Spec == Init /\ [][Next]_vars

-----------------------------------------------------------------------------
(* Type invariant: a call waits only for a process it knows, and a frontend *)
(* that is gone leaves no timer and no machine of its own.                 *)
TypeOK ==
    /\ pc \in {"off", "loop", "polled", "clean"} \cup Stopping
    /\ qemu \in Machines \cup {NoMachine}
    /\ old \in Machines \cup {NoMachine}
    /\ pc = "clean" <=> old # NoMachine
    /\ pc \in Stopping \cup {"polled"} => qemu # NoMachine
    /\ autostart \in BOOLEAN
    /\ restarts \in 0 .. MaxRestarts
    /\ connects \in Nat
    /\ sensitive \in BOOLEAN
    /\ display \in {"closed", "open", "sized"}
    /\ vncReady \in BOOLEAN
    /\ proc \in [Machines -> {"unused", "booting", "running", "term", "killed", "dead"}]
    /\ pidFile \in Machines \cup {NoMachine}
    /\ own \subseteq Machines
    /\ pc = "off" => own = {} /\ qemu = NoMachine /\ restarts = 0 /\ ~autostart

(* The frontend never lets go of a machine it started: until it has sent   *)
(* it a signal, self.qemu is that machine, however many restart timers     *)
(* fire and however long processes take to die.  So there is at most one.  *)
StartedIsHeld ==
    \A m \in own : proc[m] \in {"booting", "running"} => m = qemu

(* A machine that runs can be found again: the pid file names it, through  *)
(* restarts, failed starts and crashes, so that the stale-backend cleanup  *)
(* of the next frontend stops it (lumavm.py:715).                          *)
RunningIsFindable ==
    \A m \in Machines : proc[m] = "running" => pidFile = m

(* Closing the window leaves no machine of this frontend unsignalled, also *)
(* while it boots or a restart is pending.                                 *)
CloseLeavesNothing ==
    [][ pc' = "off" /\ (Close \/ (pc = "close" /\ StopEnds)) =>
            \A m \in own : proc'[m] \notin {"booting", "running"} ]_vars
=============================================================================
