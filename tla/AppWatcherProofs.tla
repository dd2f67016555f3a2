--------------------------- MODULE AppWatcherProofs ---------------------------
(***************************************************************************)
(* NothingElseMissed holds for any manifests, nested or not, and any       *)
(* number of timers.  WatcherInv says in addition what keeps it true       *)
(* between two scans: the last scan, its result in apps and the watches    *)
(* speak of the same manifests but for the unseen changes, so that a       *)
(* change of a manifest Home is right about is either noticed or unseen.   *)
(* AppWatcher is a way of driving AppRegistry: every step of it is one of  *)
(* the registry or leaves it alone.                                        *)
(***************************************************************************)
EXTENDS AppWatcher, AppRegistryProofs

(* No event, no timer: the last scan has been the last word. *)
Quiet == ~events /\ timers = 0

WatcherInv ==
    /\ disk \in [Apps -> {"absent", "broken", "good"}]
    /\ timers \in Nat
    /\ phase \in {"idle", "starting", "reloading", "installing"}
    /\ running => phase # "starting"
    /\ phase \in {"reloading", "installing"} => running
    /\ scanned \subseteq Apps
    /\ Scanning => \A a \in Apps \ missed : a \in scanned <=> disk[a] = "good"
    /\ running /\ ~Scanning => Items(apps) \ missed \subseteq watched
    /\ running /\ ~Scanning /\ Quiet => \A a \in Apps \ missed : Shown(a)

-----------------------------------------------------------------------------
(* A scan shows the applications it accepted. *)
LEMMA ScanItems ==
    ASSUME NEW F \in SUBSET Apps
    PROVE  Items(Scan(F)) = F
<1>1. Items(Scan(F)) = Items(ManifestOrder) \cap F
  BY ManifestAssumption, OnlyProperties DEF Scan
<1> QED BY <1>1 DEF Apps

(* After the tail of reload() Home is right about every manifest without a *)
(* change since the scan, and watches those it shows.                      *)
LEMMA RewatchKeepsInv ==
    ASSUME WatcherInv, Scanning, Rewatch, running', apps' = Scan(scanned)
    PROVE  WatcherInv'
<1>1. Items(apps') = scanned /\ scanned \subseteq Apps
  BY ScanItems DEF WatcherInv
<1>2. /\ phase' = "idle" /\ scanned' = {} /\ disk' = disk /\ missed' = missed
      /\ timers' = timers
  BY DEF Rewatch
<1>3. scanned \cap Good \subseteq watched'
  BY DEF Rewatch
<1>4. \A a \in Apps \ missed : a \in scanned <=> disk[a] = "good"
  BY DEF WatcherInv
<1>5. scanned \ missed \subseteq Good
  BY <1>1, <1>4 DEF Good
<1>6. Items(apps') \ missed' \subseteq watched'
  BY <1>1, <1>2, <1>3, <1>5
<1>7. \A a \in Apps \ missed' : Shown(a)'
  BY <1>1, <1>2, <1>4 DEF Shown
<1>8. ~Scanning'
  BY <1>2 DEF Scanning
<1>9. timers' \in Nat /\ disk' \in [Apps -> {"absent", "broken", "good"}]
  BY <1>2 DEF WatcherInv
<1> QED BY <1>2, <1>6, <1>7, <1>8, <1>9 DEF WatcherInv

(* A change that leaves no event behind is unseen, or concerns a manifest  *)
(* that is broken before and after as far as Home can tell.                *)
LEMMA ChangeKeepsInv ==
    ASSUME WatcherInv, NEW a \in Apps, NEW s \in {"absent", "broken", "good"},
           NEW how \in {"inPlace", "renamed", "entry"}, Change(a, s, how)
    PROVE  WatcherInv'
<1>1. /\ UNCHANGED <<running, apps, watched, timers, phase, scanned>>
      /\ s # disk[a] /\ disk' = [disk EXCEPT ![a] = s]
      /\ missed \subseteq missed'
  BY DEF Change, vars
<1>2. Scanning' = Scanning
  BY <1>1 DEF Scanning
<1>3. disk'[a] = s /\ \A b \in Apps : b # a => disk'[b] = disk[b]
  BY <1>1 DEF WatcherInv
<1>4. Scanning => \A b \in Apps \ missed' : b \in scanned' <=> disk'[b] = "good"
  <2> SUFFICES ASSUME Scanning, NEW b \in Apps \ missed'
               PROVE  b \in scanned' <=> disk'[b] = "good"
    OBVIOUS
  <2>1. a \in missed'
    BY DEF Change, Unseen
  <2> QED BY <2>1, <1>1, <1>3 DEF WatcherInv
<1>5. running' /\ ~Scanning' => Items(apps') \ missed' \subseteq watched'
  BY <1>1, <1>2 DEF WatcherInv
<1>6. ASSUME running', ~Scanning', Quiet', NEW b \in Apps \ missed'
      PROVE  Shown(b)'
  <2>1. running /\ ~Scanning /\ timers = 0 /\ ~events /\ ~Noticed(a, s, how)
    BY <1>1, <1>2, <1>6 DEF Quiet, Change
  <2>2. Shown(b)
    BY <2>1, <1>1, <1>6 DEF WatcherInv, Quiet
  <2>3. CASE b # a
    BY <2>2, <2>3, <1>1, <1>3 DEF Shown
  <2>4. CASE b = a
    <3>1. ~Unseen(a, s, how) /\ a \notin missed
      BY <2>1, <2>4, <1>1, <1>6 DEF Change
    <3>2. how # "entry" /\ a \notin watched /\ "absent" \notin {disk[a], s}
      BY <2>1, <3>1 DEF Noticed, Unseen
    <3>3. a \notin Items(apps)
      BY <2>1, <3>1, <3>2 DEF WatcherInv
    <3>4. disk[a] # "good"
      BY <2>2, <2>4, <3>3 DEF Shown
    <3>5. CASE s = "good"
      <4>1. ~(how = "inPlace" \/ a \in Nested) \/ disk[a] # "broken"
        BY <3>1, <3>3, <3>5 DEF Unseen
      <4>2. ~(how = "renamed" /\ a \notin Nested)
        BY <2>1, <3>2 DEF Noticed
      <4>3. disk[a] # "broken"
        BY <4>1, <4>2, <3>2
      <4>4. disk[a] = "broken"
        <5>1. disk[a] \in {"absent", "broken", "good"}
          BY DEF WatcherInv
        <5> QED BY <5>1, <3>2, <3>4
      <4> QED BY <4>3, <4>4
    <3>6. CASE s # "good"
      <4>1. disk'[a] # "good"
        BY <3>6, <1>3
      <4> QED BY <4>1, <3>3, <2>4, <1>1 DEF Shown
    <3> QED BY <3>5, <3>6
  <2> QED BY <2>3, <2>4
<1>7. /\ disk' \in [Apps -> {"absent", "broken", "good"}]
      /\ timers' \in Nat
      /\ phase' \in {"idle", "starting", "reloading", "installing"}
      /\ running' => phase' # "starting"
      /\ phase' \in {"reloading", "installing"} => running'
      /\ scanned' \subseteq Apps
  BY <1>1 DEF WatcherInv
<1> QED BY <1>2, <1>4, <1>5, <1>6, <1>7 DEF WatcherInv

(* Every step of the watcher keeps the invariant. *)
LEMMA WatcherKeepsInv == WatcherInv /\ [WatcherNext]_wvars => WatcherInv'
<1> SUFFICES ASSUME WatcherInv, [WatcherNext]_wvars PROVE WatcherInv'
  OBVIOUS
<1>1. CASE BeginStart \/ BeginReload
  <2>1. /\ scanned' = Good /\ missed' = {} /\ disk' = disk /\ running' = running
        /\ timers' \in Nat
    BY <1>1, WatcherAssumption DEF BeginStart, BeginReload, vars, WatcherInv
  <2>2. /\ phase' \in {"starting", "reloading"}
        /\ running' => phase' # "starting"
        /\ phase' \in {"reloading", "installing"} => running'
    BY <1>1 DEF BeginStart, BeginReload, vars
  <2>3. Scanning' /\ Good \subseteq Apps
    BY <2>2 DEF Scanning, Good
  <2>4. \A a \in Apps : a \in scanned' <=> disk'[a] = "good"
    BY <2>1 DEF Good
  <2> QED BY <2>1, <2>2, <2>3, <2>4 DEF WatcherInv
<1>2. ASSUME NEW can \in BOOLEAN, FinishStart(can) PROVE WatcherInv'
  BY <1>2, RewatchKeepsInv DEF FinishStart, Start, ReloadFrom, Scanning
<1>3. CASE FinishReload
  BY <1>3, RewatchKeepsInv DEF FinishReload, Reload, ReloadFrom, Scanning
<1>4. CASE Notify
  <2>1. UNCHANGED <<running, apps, disk, watched, phase, scanned, missed>>
    BY <1>4 DEF Notify, vars
  <2>2. timers' = timers + 1 /\ timers \in Nat
    BY <1>4 DEF Notify, WatcherInv
  <2>3. timers' \in Nat /\ ~Quiet'
    BY <2>2 DEF Quiet
  <2> QED BY <2>1, <2>3 DEF WatcherInv, Scanning
<1>5. CASE BeginInstall \/ FinishInstall
  <2>1. UNCHANGED <<running, apps, disk, watched, events, timers, scanned, missed>>
    BY <1>5 DEF BeginInstall, FinishInstall, vars
  <2>2. /\ running' /\ running
        /\ phase' \in {"idle", "installing"} /\ ~Scanning /\ ~Scanning'
    BY <1>5 DEF BeginInstall, FinishInstall, vars, WatcherInv, Scanning
  <2>3. (\A a \in Apps : Shown(a)' = Shown(a)) /\ Quiet' = Quiet
    BY <2>1 DEF Shown, Quiet
  <2> QED BY <2>1, <2>2, <2>3 DEF WatcherInv
<1>6. CASE Exit
  <2>1. ~running' /\ phase' = "idle" /\ scanned' = {} /\ disk' = disk /\ timers' = 0
    BY <1>6 DEF Exit, Stop, vars, WatcherInv
  <2> QED BY <2>1 DEF WatcherInv, Scanning
<1>7. CASE Arrange
  <2>1. UNCHANGED <<running, apps, watcherVars>>
    BY <1>7 DEF Arrange, SetHomeOrder, SetDockOrder, ReorderDock, DockApp,
                SwapIntoDock, MoveAppToHome, ResetLayout, Commit
  <2> QED BY <2>1 DEF watcherVars, WatcherInv, Scanning, Quiet, Shown
<1>8. CASE UNCHANGED wvars
  BY <1>8 DEF wvars, vars, watcherVars, WatcherInv, Scanning, Quiet, Shown
<1> QED BY <1>1, <1>2, <1>3, <1>4, <1>5, <1>6, <1>7, <1>8, ChangeKeepsInv
     DEF WatcherNext

(* NothingElseMissed, whatever the file system, the user and lpk do. *)
THEOREM NoEventIsLost == WatcherSpec => []NothingElseMissed
<1>1. WatcherInit => WatcherInv
  BY DEF WatcherInit, Init, WatcherInv, Scanning
<1>2. WatcherInv => NothingElseMissed
  BY DEF WatcherInv, NothingElseMissed, Quiet, Scanning
<1> QED BY <1>1, <1>2, WatcherKeepsInv, PTL DEF WatcherSpec

-----------------------------------------------------------------------------
(* Home is wrong about a though nothing hid the change.                    *)
Wrong(a) == running /\ a \notin missed /\ ~Shown(a)

(* What is left to do then, one after the other.                           *)
AtReload == phase = "reloading"
AtInstall == phase = "installing"
AtRest == phase = "idle"
Due == timers > 0

LEMMA WrongIsUnderway ==
    ASSUME WatcherInv, NEW a \in Apps, Wrong(a)
    PROVE  /\ AtReload \/ AtInstall \/ (AtRest /\ (events \/ Due))
           /\ AtRest => ~AtReload /\ ~AtInstall
BY DEF WatcherInv, Wrong, AtReload, AtInstall, AtRest, Due, Scanning, Quiet

(* The end of a scan shows every manifest without an unseen change.        *)
LEMMA ReloadShows ==
    ASSUME WatcherInv, NEW a \in Apps, FinishReload
    PROVE  ~Wrong(a)'
<1>1. apps' = Scan(scanned) /\ disk' = disk /\ missed' = missed /\ Scanning
  BY DEF FinishReload, Reload, ReloadFrom, Rewatch, Scanning
<1>2. Items(apps') = scanned
  BY <1>1, ScanItems DEF WatcherInv
<1> QED BY <1>1, <1>2 DEF WatcherInv, Wrong, Shown

(* While Home stays wrong about a, a scan and an installation go on until  *)
(* they end, and a timer stays due until it calls reload().                *)
LEMMA WrongStep ==
    ASSUME WatcherInv, [WatcherNext]_wvars, NEW a \in Apps, Wrong(a), Wrong(a)'
    PROVE  /\ AtReload => AtReload'
           /\ AtInstall => AtInstall' \/ FinishInstall
           /\ Due => Due' \/ BeginReload
<1> USE DEF AtReload, AtInstall, Due
<1>0. running /\ running' /\ timers \in Nat
  BY DEF Wrong, WatcherInv
<1>1. ASSUME NEW b \in Apps, NEW s, NEW how, Change(b, s, how)
      PROVE  UNCHANGED <<phase, timers>>
  BY <1>1 DEF Change
<1>2. CASE BeginStart
  BY <1>0, <1>2 DEF BeginStart
<1>3. ASSUME NEW can \in BOOLEAN, FinishStart(can) PROVE FALSE
  BY <1>0, <1>3 DEF FinishStart, WatcherInv
<1>4. CASE BeginReload
  BY <1>4 DEF BeginReload
<1>5. CASE FinishReload
  BY <1>5, ReloadShows
<1>6. CASE Notify
  <2>1. phase = "idle" /\ timers' = timers + 1
    BY <1>6 DEF Notify
  <2> QED BY <2>1, <1>0
<1>7. CASE BeginInstall \/ FinishInstall
  BY <1>7 DEF BeginInstall, FinishInstall
<1>8. CASE Exit
  BY <1>0, <1>8 DEF Exit, Stop
<1>9. CASE Arrange
  BY <1>9 DEF Arrange, watcherVars
<1>10. CASE UNCHANGED wvars
  BY <1>10 DEF wvars, watcherVars
<1> QED
  BY <1>1, <1>2, <1>3, <1>4, <1>5, <1>6, <1>7, <1>8, <1>9, <1>10 DEF WatcherNext

(* What the prover cannot see of an action, that it can be taken when its  *)
(* guard holds: each of the four assigns every variable and changes one.   *)
ThreadEnabled ==
    /\ running /\ AtRest /\ events /\ timers < MaxTimers => ENABLED <<Notify>>_wvars
    /\ running /\ AtRest /\ Due => ENABLED <<BeginReload>>_wvars
    /\ AtReload => ENABLED <<FinishReload>>_wvars
    /\ AtInstall => ENABLED <<FinishInstall>>_wvars

(* Suppose Home stayed wrong about a.  A scan would end and show it, so    *)
(* none begins; then no timer may be due while the thread rests, and as a  *)
(* due timer stays due, none is due at all; then the event that must be    *)
(* waiting is delivered, and sets one.                                     *)
THEOREM ChangesReachHome == WatcherSpec /\ []ThreadEnabled => ChangesAreShown
<1> SUFFICES ASSUME NEW a \in Apps
             PROVE  WatcherSpec /\ []ThreadEnabled =>
                        []<>(~running \/ a \in missed \/ Shown(a))
  BY DEF ChangesAreShown
<1> DEFINE W == Wrong(a)
           S == ~running \/ a \in missed \/ Shown(a)
<1>1. WatcherInit => WatcherInv
  BY DEF WatcherInit, Init, WatcherInv, Scanning
<1>2. W <=> ~S
  BY DEF Wrong
<1>3. WatcherInv /\ W =>
          /\ AtReload \/ AtInstall \/ (AtRest /\ (events \/ Due))
          /\ AtRest => ~AtReload /\ ~AtInstall
  BY WrongIsUnderway
<1>4. WatcherInv /\ W /\ [WatcherNext]_wvars =>
          \/ ~W'
          \/ /\ AtReload => AtReload'
             /\ AtInstall => AtInstall' \/ <<FinishInstall>>_wvars
             /\ Due => Due' \/ <<BeginReload>>_wvars
  <2>1. FinishInstall => <<FinishInstall>>_wvars
    BY DEF FinishInstall, wvars, watcherVars
  <2>2. WatcherInv /\ BeginReload => <<BeginReload>>_wvars
    BY DEF BeginReload, wvars, watcherVars
  <2> QED BY <2>1, <2>2, WrongStep
<1>5. WatcherInv /\ <<FinishReload>>_wvars => ~W'
  BY ReloadShows
<1>6. <<BeginReload>>_wvars => AtReload'
  BY DEF BeginReload, AtReload
<1>7. <<FinishInstall>>_wvars => AtRest'
  BY DEF FinishInstall, AtRest
<1>8. WatcherInv /\ <<Notify>>_wvars => Due'
  <2> SUFFICES ASSUME WatcherInv, Notify PROVE Due'
    OBVIOUS
  <2>1. timers \in Nat /\ timers' = timers + 1
    BY DEF WatcherInv, Notify
  <2> QED BY <2>1 DEF Due
<1>9. WatcherInv /\ ThreadEnabled /\ W =>
          /\ AtRest /\ events /\ ~Due => ENABLED <<Notify>>_wvars
          /\ AtRest /\ Due => ENABLED <<BeginReload>>_wvars
          /\ AtReload => ENABLED <<FinishReload>>_wvars
          /\ AtInstall => ENABLED <<FinishInstall>>_wvars
  <2>1. WatcherInv /\ ~Due => timers < MaxTimers
    BY WatcherAssumption DEF WatcherInv, Due
  <2> QED BY <2>1 DEF ThreadEnabled, Wrong
<1> HIDE DEF W, S, AtReload, AtInstall, AtRest, Due, ThreadEnabled
<1>10. WatcherSpec => []WatcherInv
  BY <1>1, WatcherKeepsInv, PTL DEF WatcherSpec
<1>11. WatcherSpec /\ []ThreadEnabled => []([]W => []~AtReload)
  BY <1>10, <1>4, <1>5, <1>9, PTL DEF WatcherSpec
<1>12. WatcherSpec /\ []ThreadEnabled => []([]W => []<>AtRest)
  BY <1>10, <1>11, <1>3, <1>4, <1>7, <1>9, PTL DEF WatcherSpec
<1>13. WatcherSpec /\ []ThreadEnabled => []([]W => []~Due)
  BY <1>10, <1>11, <1>12, <1>4, <1>6, <1>9, PTL DEF WatcherSpec
<1>14. WatcherSpec /\ []ThreadEnabled => []~[]W
  BY <1>10, <1>11, <1>12, <1>13, <1>3, <1>8, <1>9, PTL DEF WatcherSpec
<1>15. WatcherSpec /\ []ThreadEnabled => []<>S
  BY <1>14, <1>2, PTL
<1> QED BY <1>15 DEF S

-----------------------------------------------------------------------------
(* Every behaviour of the watcher is one of the registry: the arrangement  *)
(* of the icons stays consistent under any changes on disk.                *)
THEOREM WatcherKeepsRegistry == WatcherSpec => Spec
<1>1. WatcherInit => Init
  BY DEF WatcherInit
<1>2. WatcherInv /\ [WatcherNext]_wvars => [Next]_vars
  <2> SUFFICES ASSUME WatcherInv, [WatcherNext]_wvars PROVE [Next]_vars
    OBVIOUS
  <2>1. scanned \in SUBSET Apps
    BY DEF WatcherInv
  <2>2. ASSUME NEW can \in BOOLEAN, FinishStart(can) PROVE Next
    BY <2>1, <2>2 DEF FinishStart, Next
  <2>3. CASE FinishReload
    BY <2>1, <2>3 DEF FinishReload, Next
  <2>4. CASE Arrange
    BY <2>4 DEF Arrange, Next
  <2>5. CASE Exit
    BY <2>5 DEF Exit, Next
  <2>6. CASE BeginStart \/ BeginReload \/ Notify \/ BeginInstall \/ FinishInstall
    BY <2>6 DEF BeginStart, BeginReload, Notify, BeginInstall, FinishInstall
  <2>7. ASSUME NEW a \in Apps, NEW s, NEW how, Change(a, s, how)
        PROVE  UNCHANGED vars
    BY <2>7 DEF Change
  <2>8. CASE UNCHANGED wvars
    BY <2>8 DEF wvars
  <2> QED BY <2>2, <2>3, <2>4, <2>5, <2>6, <2>7, <2>8 DEF WatcherNext
<1>3. WatcherInit => WatcherInv
  BY DEF WatcherInit, Init, WatcherInv, Scanning
<1> QED BY <1>1, <1>2, <1>3, WatcherKeepsInv, PTL DEF WatcherSpec, Spec
===============================================================================
