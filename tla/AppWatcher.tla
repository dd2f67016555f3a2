------------------------------ MODULE AppWatcher ------------------------------
(***************************************************************************)
(* How changes of the manifests on disk reach AppRegistry::reload().       *)
(*                                                                         *)
(* m_watcher watches the top manifest directories and the manifests the    *)
(* last reload() accepted; a signal of it starts a timer of 100 ms of its  *)
(* own, and each timer calls reload().  reload() scans the directories     *)
(* with their subdirectories, and then replaces all watches, with which    *)
(* Qt forgets the events it has not delivered.  Everything runs on the     *)
(* shell's thread, which installLpk() holds for up to two minutes.         *)
(*                                                                         *)
(* The manifests change at any time.  A scan reads them one by one; as     *)
(* changes of different manifests commute, it is one step that reads all   *)
(* of them, with changes before and after it.                              *)
(***************************************************************************)
EXTENDS AppRegistry

CONSTANTS
    Nested,    \* ids whose manifests lie in a subdirectory of their own
    MaxTimers  \* bound of the checked instances: timers pending at once

ASSUME WatcherAssumption == Nested \subseteq Apps /\ MaxTimers \in Nat \ {0}

VARIABLES
    disk,     \* disk[a]: a's manifest is "absent", "broken" (it, or the entry
              \* it names, is missing or unreadable) or "good"
    watched,  \* m_watcher.files(), as ids
    events,   \* m_watcher has events to deliver
    timers,   \* the 100 ms timers that will call reload()
    phase,    \* what holds the thread: "idle" (nothing), "starting" and
              \* "reloading" (reload() has scanned), "installing"
    scanned,  \* the ids that scan accepted
    missed    \* history: ids with a change since the last scan that no event
              \* could have told of

watcherVars == <<disk, watched, events, timers, phase, scanned, missed>>
wvars == <<vars, watcherVars>>

Good == {a \in Apps : disk[a] = "good"}
Scanning == phase \in {"starting", "reloading"}

-----------------------------------------------------------------------------
WatcherInit ==
    /\ Init
    /\ disk \in [Apps -> {"absent", "broken", "good"}]
    /\ watched = {}
    /\ events = FALSE
    /\ timers = 0
    /\ phase = "idle"
    /\ scanned = {}
    /\ missed = {}

(* Fault: directoryChanged is not connected. *)
Noticed_FilesOnly(a, s, how) == how # "entry" /\ a \in watched

(* Whether a change of a's manifest to s raises an event: one of the file  *)
(* itself when it is watched, or one of its top directory when a name      *)
(* comes or goes there.  Nothing watches the entry a manifest names.       *)
Noticed(a, s, how) ==
    /\ how # "entry"
    /\ \/ a \in watched
       \/ "absent" \in {disk[a], s}
       \/ how = "renamed" /\ a \notin Nested

(* The changes no event can tell of: those between the scan and the new    *)
(* watches, those of an entry, and the completion of a manifest that was   *)
(* already there when the last scan passed it over, unless the finished    *)
(* file takes the place of the other by a rename in a top directory.       *)
Unseen(a, s, how) ==
    \/ Scanning
    \/ how = "entry"
    \/ /\ disk[a] = "broken" /\ s = "good"
       /\ a \notin Items(apps)
       /\ how = "inPlace" \/ a \in Nested

(* The file system: a manifest is written, completed, damaged or removed,  *)
(* in place or by a rename, or its entry comes or goes.                    *)
Change(a, s, how) ==
    /\ s # disk[a]
    /\ how = "entry" => "absent" \notin {disk[a], s}
    /\ disk' = [disk EXCEPT ![a] = s]
    /\ events' = (events \/ (running /\ Noticed(a, s, how)))
    /\ missed' = IF (running \/ Scanning) /\ Unseen(a, s, how)
                 THEN missed \cup {a} ELSE missed
    /\ UNCHANGED <<vars, watched, timers, phase, scanned>>

-----------------------------------------------------------------------------
(* The scan of the constructor's reload(), and of a timer's. *)
BeginStart ==
    /\ ~running /\ phase = "idle"
    /\ phase' = "starting"
    /\ scanned' = Good
    /\ missed' = {}
    /\ UNCHANGED <<vars, disk, watched, events, timers>>

BeginReload ==
    /\ running /\ phase = "idle"
    /\ timers > 0
    /\ timers' = timers - 1
    /\ phase' = "reloading"
    /\ scanned' = Good
    /\ missed' = {}
    /\ UNCHANGED <<vars, disk, watched, events>>

(* Fault: the files are not watched again. *)
Rewatch_NoFiles ==
    /\ phase' = "idle"
    /\ scanned' = {}
    /\ watched' = {}
    /\ events' = FALSE
    /\ UNCHANGED <<disk, timers, missed>>

(* The tail of reload(): the watches of all files and directories are      *)
(* removed and set again.  A path that is gone cannot be watched; that of  *)
(* a damaged manifest may be.                                              *)
Rewatch ==
    /\ phase' = "idle"
    /\ scanned' = {}
    /\ \E kept \in SUBSET {a \in scanned : disk[a] = "broken"} :
           watched' = kept \cup (scanned \cap Good)
    /\ events' = FALSE
    /\ UNCHANGED <<disk, timers, missed>>

FinishStart(can) ==
    /\ phase = "starting"
    /\ Start(scanned, can)
    /\ Rewatch

FinishReload ==
    /\ phase = "reloading"
    /\ Reload(scanned)
    /\ Rewatch

(* m_watcher delivers a signal: a timer of its own for each. *)
Notify ==
    /\ running /\ phase = "idle"
    /\ events
    /\ timers < MaxTimers
    /\ events' = FALSE
    /\ timers' = timers + 1
    /\ UNCHANGED <<vars, disk, watched, phase, scanned, missed>>

(* installLpk() from the store: the thread waits for lpk, for 120 s at     *)
(* most; what lpk does to the manifests is Change.                         *)
BeginInstall ==
    /\ running /\ phase = "idle"
    /\ phase' = "installing"
    /\ UNCHANGED <<vars, disk, watched, events, timers, scanned, missed>>

FinishInstall ==
    /\ phase = "installing"
    /\ phase' = "idle"
    /\ UNCHANGED <<vars, disk, watched, events, timers, scanned, missed>>

(* The shell ends, at any time: watches and timers go with it. *)
Exit ==
    /\ IF running THEN Stop ELSE UNCHANGED vars
    /\ running \/ phase = "starting"
    /\ watched' = {}
    /\ events' = FALSE
    /\ timers' = 0
    /\ phase' = "idle"
    /\ scanned' = {}
    /\ missed' = {}
    /\ UNCHANGED disk

(* What the user does on Home, between two events of the thread. *)
Arrange ==
    /\ phase = "idle"
    /\ \/ \E ids \in Requests : SetHomeOrder(ids) \/ SetDockOrder(ids)
       \/ \E id \in Apps, index \in Indices :
              \/ ReorderDock(id, index)
              \/ DockApp(id, index)
              \/ SwapIntoDock(id, index)
              \/ MoveAppToHome(id, index)
       \/ ResetLayout
    /\ UNCHANGED watcherVars

WatcherNext ==
    \/ \E a \in Apps, s \in {"absent", "broken", "good"},
          how \in {"inPlace", "renamed", "entry"} : Change(a, s, how)
    \/ BeginStart
    \/ \E can \in BOOLEAN : FinishStart(can)
    \/ BeginReload
    \/ FinishReload
    \/ Notify
    \/ BeginInstall
    \/ FinishInstall
    \/ Exit
    \/ Arrange

(* Qt's event loop serves sockets and timers between any two clicks: what  *)
(* is due again and again is delivered.  A scan ends, and an installation  *)
(* is killed after its 120 s.                                              *)
WatcherSpec ==
    /\ WatcherInit /\ [][WatcherNext]_wvars
    /\ SF_wvars(Notify) /\ SF_wvars(BeginReload)
    /\ WF_wvars(FinishReload) /\ WF_wvars(FinishInstall)

-----------------------------------------------------------------------------
(* Whether Home is right about a: it shows a exactly when a is installed.  *)
Shown(a) == a \in Items(apps) <=> disk[a] = "good"

(* Home is wrong about no application but those with an unseen change,     *)
(* once nothing is left to deliver: no event is lost by the watches that   *)
(* every reload replaces, the timers of their own, or a thread that an     *)
(* installation holds.                                                     *)
NothingElseMissed ==
    running /\ phase = "idle" /\ ~events /\ timers = 0 =>
        \A a \in Apps \ missed : Shown(a)

(* Every noticed change reaches Home: it comes to be right about each      *)
(* manifest again and again, without a restart of the shell, and even when *)
(* the manifests never stop changing.                                      *)
ChangesAreShown ==
    \A a \in Apps : []<>(~running \/ a \in missed \/ Shown(a))
===============================================================================
