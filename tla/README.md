# Formal models of LumaMobile

TLA+ models of LumaMobile's shell and system services, their TLC
configurations, and TLAPS proofs. Paths are relative to the root of the
repository (`shell/AppRegistry.cpp` is `src/shell/AppRegistry.cpp` in
`PROJECT.json`). `PROJECT.json` maps every definition to the lines it models
and lists the runs, the mutants that show each property can fail, the hazards
behind the properties, and the theorems.

## 1. The system

LumaMobile runs a Qt shell on a Linux kernel, beside two small C daemons.
Applications are QML files that the shell loads into itself; native
applications talk to the daemons through a C++ SDK.

| component | source | state | operations |
|---|---|---|---|
| AppRegistry | `shell/AppRegistry.cpp` | scanned apps, Home order, dock order, `home.json`, saved flag, file watcher | reload, set orders, move to dock or Home, reset, load, save |
| HomeScreen, AppIcon | `shell/qml` | its own copies of the two orders, the drag in progress | drag, drop, sync with the registry |
| AppSurface, Main.qml | `shell/qml` | the one running app, geometry, two close timers, queued functions, gestures | launch, Home, Back, finish, control center |
| InputBackend, LumaKeyboard | `shell/InputBackend.cpp`, `shell/qml` | text target, active flag, hidden flag, language, shift, symbols | focus changes, show, hide, keys, close |
| SystemBackend | `shell/SystemBackend.cpp` | the active call | one external command per operation (wifi, volume, files, modem, packages) |
| system applications | `shell/qml/*App.qml` | page stacks, drafts | canGoBack, goBack, their own buttons |
| lumad | `framework/src/lumad.c` | socket, ready file, stop flag | about fifteen read-only queries, SHUTDOWN, REBOOT |
| lmsd | `services/lms/src/lmsd.c` | socket, ready file, stop flag, `apps.tsv`, `notifications.tsv`, id counter | register, list, permission check, post, clear, health (pings lumad) |
| SDK, lumactl, lmsctl | `sdk/cpp`, `framework/src`, `services/lms/src` | one connection per call | connect, send, receive, close |
| LumaVM | `tools/lumavm/lumavm.py` | a QEMU process, its pid file, timers | start, stop, restart, connect the display |

How they interact:

    taps, swipes ──> Main.qml ──> AppSurface ──loads──> applications
                        │             │                     │ focus
                        │             └─ timers, callLater  v
    HomeScreen <──layoutChanged── AppRegistry        InputBackend <── LumaKeyboard
        └──set*Order, moveAppTo*──>   │
                                  home.json, manifest directories

    SDK, lumactl ──SOCK_SEQPACKET──> lumad <──ping── lmsd <──SOCK_SEQPACKET── SDK, lmsctl

The shell is one thread with an event loop: its hard behaviour is the order in
which taps, timers, queued functions and focus changes arrive. The daemons are
one thread each: theirs is the order of processes (callers that leave,
services that die, a signal between two system calls) and what a process that
ends leaves in the file system.

What makes each component correct, and where it is hard:

* **AppRegistry**: no icon twice, none lost, the dock within its slots, the
  user's arrangement kept by reloads and restarts. Hard: long mixtures of
  drops, swaps, reloads, failed saves and old files.
* **File watcher**: a manifest that changes reaches Home. Hard: every reload
  replaces all watches while manifests go on changing, each signal has a timer
  of its own, and an installation holds the only thread for minutes.
* **Keyboard**: keys go to the focused field and never to an object that died;
  the keyboard is there when a field is tapped. Hard: three parties (Qt's focus
  object, the page inside the web view, the user's close key) change the
  conditions independently.
* **AppSurface**: an application is shown completely or not at all, closes only
  on request, and no animation stays frozen. Hard: timers of an earlier close,
  queued functions, a finger on the screen and a new launch overlap.
* **lumad, lmsd**: every request is heard out and answered at most once, a
  service stops when asked, a working lumad's ready file tells the truth. Hard: SIGTERM with restarted
  system calls, SIGPIPE, stale files, a request nested in another.
* **Home screen**: the icon under the finger is the one that moves, lands where
  the screen shows it, and the screen shows the registry afterwards. Hard: live
  rearrangement while the registry reloads underneath.
* **LumaVM**: one machine at a time, none left behind. Hard: calls that wait
  for processes, timers that are never cancelled, a frontend that is killed.
* **LMS store**: a permission once given up stays revoked, a registration is
  all or nothing, a listing shows the registrations, but for what its end lost. Hard: full
  disks and kills in the middle of a write, answers cut at 4095 bytes.
* **Calls and messages**: the End button has a call to end, a call that goes on
  can be ended, a text is sent once. Hard: commands that fail or are killed after
  they had their effect, pages that are destroyed during a call, a backend that
  outlives them.

## 2. The modules

| module | models | with |
|---|---|---|
| `Orders` | the lists of ids of AppRegistry (`QStringList`) | – |
| `IconPlacement` | abstract: where the icons are, without lists, order or file format | – |
| `AppRegistry` | `shell/AppRegistry.cpp` | Orders; refines IconPlacement |
| `AppWatcher` | the file watcher and the timers of `AppRegistry.cpp`, `installLpk()`, manifests on disk | composes with AppRegistry |
| `HomeDrag` | `HomeScreen.qml`, `AppIcon.qml` | composes and refines AppRegistry |
| `Keyboard` | `InputBackend.cpp`, `LumaKeyboard.qml`, the glue in `Main.qml`, BrowserApp's use | – |
| `AppSurface` | `AppSurface.qml`, the gestures of `Main.qml`, `ControlCenter.qml`'s opening | – |
| `Telephony` | `PhoneApp.qml`, `MessagesApp.qml`, the part of `SystemBackend.cpp` they call, ModemManager | composes with AppSurface |
| `RequestReply` | abstract: what the IPC promises a caller | – |
| `Services` | `lumad.c`, `lmsd.c` and their callers | refines RequestReply |
| `Sdk` | what a call of `sdk/cpp/src/Luma.cpp` returns, `mapStatus()` | composes with Services |
| `LumaVM` | `tools/lumavm/lumavm.py` with its QEMU processes | – |
| `LmsStore` | the two database files of `lmsd.c` | – |
| `MC*` | constants for TLC | their module |
| `*Proofs` | theorems | their module, TLAPS |

Operators named `X_Something` (`DockApp_OneTooMany`) are deliberate faults of
`X`; nothing in a specification uses them. `PROJECT.json` pairs each with the
property that notices it.

### AppRegistry

`homeOrder`, `dockOrder`, `hasSaved` and `apps` are `m_homeOrder`,
`m_dockOrder`, `m_hasSavedLayout` and `m_apps`; `layoutFile` is `home.json`.
Each invokable is an action and includes the save at its end, which may fail
(`SaveLayout`). `moveAppToDock` is three actions, one per branch:
`ReorderDock`, `DockApp`, `SwapIntoDock`. `Reload(found)` is `reload()` when the
manifests of `found` are readable and accepted; applications come and go
between reloads at will. `Start` is the constructor, `Stop` the end of the
shell: only `layoutFile` survives. `OldLayouts` are files other builds may have
written; duplicates and too long docks are among them.

`IconPlacement` is what the registry promises when the order of the icons is
forgotten: two sets, and the placement that the file keeps. Its actions say the
only ways an icon may change its place: a drop that names it or its slot
(`ToHome`, `ToDock`, `Swap`), an uninstallation or a new application (`Follow`),
and the default layout (`Default`) while nothing was saved or on a reset; `Start`
goes on from what was saved last, or from anything sound when the file is of
another build. `KeepsPlacement` is the refinement. `PlacesIn(f)` is the placement
that a file of the form `saveLayout()` writes keeps, `Docks` what fits in a dock.

The lists are built with `Pick(s, K)`, the elements of `s` at the positions
`K`, so that no operator is recursive. The first part of `AppRegistryProofs`
proves what each list operator returns; the rest of it, and the other proof
modules about the registry, cite only those lemmas.

### AppWatcher

`disk[a]` is the manifest of `a`: absent, broken (the file, or the entry it
names, is missing or unreadable) or good. `watched` is `m_watcher.files()`; the
top directories are watched while the shell runs. `events` says that the watcher
has something to deliver; `Notify` delivers it and starts a timer of 100 ms
(`timers` counts them), which ends in `BeginReload`. A reload is two steps,
because manifests change between them: the scan (`BeginStart`, `BeginReload`)
and the rest of `reload()` with `addPaths()` (`FinishStart`, `FinishReload`,
both with `Rewatch`), which forgets undelivered events. `phase` is what holds
the shell's thread, an installation included (`BeginInstall`, `FinishInstall`).
`Change` is the file system: a manifest is written, completed, damaged, removed
or renamed, or the entry it names comes and goes; `Noticed` says when the kernel
tells of it, and `Unseen` when nothing can. `missed` is a history variable, the
ids with such a change since the last scan. The operations of AppRegistry go on
between two events (`Arrange`), and each step of the module is one of
AppRegistry's or leaves it alone.

### HomeDrag

`homeModel` and `dockModel` are the two `ListModel`s, `drag` the properties
`dragSource`, `dragIndex`, `dragApp`, `overHome`, `overDock` and the two target
indices, `NoDrag` when `dragging` is false. The finger is over a slot of the
dock, a cell of the grid or neither (`Places`); `DockTarget` and `GridTarget`
clamp it as the code clamps the pointer. `StartDrag` and `FinishDrag` end with,
or begin with, the `updateDrag()` the code calls there. `FinishDrag` asks the
registry for one of four things (`Drop`), then synchronises the models; a
refused request leaves the registry alone. `ReloadHome` is `Reload` with the
`appsChanged` and `layoutChanged` that follow it. `stale` is a history variable:
the registry changed during this drag. The module EXTENDS `AppRegistry` and
shares its variables; that each of its steps is one of the registry's is checked
as the property `Spec` and proved.

### Keyboard

`focus` is Qt's focus object, `target` is `m_target`, `inputActive` is
`m_inputActive`, `hidden` is `manuallyHidden`. `HandleFocusObjectChanged` is
called by every action that moves the focus. `PageEditorChanges` is the page in
the web view entering or leaving its own text box, of which Qt tells nobody.
`LoadApp` is AppSurface replacing or unloading the application: its objects
die, a dead target becomes null (`QPointer`).

### AppSurface

Geometry is reduced to where the surface is going: `x` (at the icon, at zero,
under the finger, off the screen), `box` (icon or full screen), `opacity`.
`calls` is the queue of `Qt.callLater` functions, `closeTimer` and
`backCloseTimer` are the running flags; a running timer fires at any later
step. `OpenPage`, `FinishBackInternal` and `GoToRoot` are the page stack of the
application: a page opened, back by one, and the Home button of Files, which
empties its history. A gesture is press, moves, release: `BeginBack`, `UpdateBack`, and the
three outcomes of `finishBack()`. Opening the control center and closing the
application disable the gesture, and a press in progress is cancelled.
`asked` and `overlap` are history variables: whether the user asked to leave
since the last launch, and whether that launch found a close timer running.

### Telephony

`calling` belongs to the page and goes with it, `m_activeCall` belongs to
`SystemBackend` and stays: `PageSteps` joins every launch and close of
`AppSurface` with the end of the page (`PageGone`), `SurfaceSteps` are the other
steps of the window manager, and `Touchable` says when a finger reaches a page.
`call` is ModemManager's view, which nobody reports to the shell (`RemoteEnds`).
`SystemBackend::run()` blocks the only thread until the command has ended or is
killed at its timeout (`SystemBackend.cpp:53`), so that a tap with all its
commands is one step; a killed command is answered as a failure and may have had
its effect. `Dial` is `dial()` from the new call path on, `DialRefused` every
earlier end of it; `HangUpCall` and `HangUpFails`, `SendSms` and `SendSmsFails`
are the two answers of the others. `lost`, `wrote`, `delivered` and `unsure` are
history variables. The properties name what the code does not promise: a call
whose page is left, or whose `--start` was killed, goes on and no button ends it
(a new page shows "Call"); a call that the other side ended keeps its "End",
since `--hangup` may fail for it; a send killed at its timeout may be repeated.

### Services

`pc[d]` is the place of a daemon in its `main()`. A connection is a record of
who made it and what kind of request it brings; `Admitted` are the programs that may
open each socket: only root that of lumad (`lumad.c:623`), root and its group that
of lmsd (`lmsd.c:1537`). `queue` is the backlog, `peer` the connection between `accept()` and `close()`; `phase[c]` is the caller's
side. `Terminate` sets the flag that only the test of the loop reads: `accept()`
and `recv()` are restarted after the handler (`signal()` implies
`SA_RESTART`), so a service that waits serves one more caller first. `Die` is
the end of a process by SIGKILL, a failing system call before its loop, or
SIGPIPE: `lmsd` sends without `MSG_NOSIGNAL` (`lmsd.c:1678`), `lumad` with it.
`AcceptFails` is `accept()` failing with anything but EINTR: the loop ends in the
orderly way out though nobody asked to stop (`lumad.c:721`, `lmsd.c:1603`). `lmsd` is a caller too,
at its start and inside HEALTH. `PowerOff` and `RebootFails` are the two
outcomes of `reboot()`, whose result `lumad` ignores. `RefusePower` is a power
command that is not carried out, for which the common `send()` is left out
(`lumad.c:766`): as the socket admits only root, that is one in a message that
`request_valid()` rejects, and no program of the repository sends such a one.

### Sdk

`Step` is a step of `Services` together with what it means to the program: a
handler that takes the request decides its `outcome` (`LumadDecisions`,
`LmsdDecisions`), and a `recv()` that returns leaves an ErrorCode in `error`,
through `MapStatus` when a response came, `ConnectionFailed` otherwise.
`ConnectFails` is the call that finds nobody listening, or a socket that does not
admit the program. `Begins` is the start of a call, with a fresh result;
`WellFormed` says that the SDK sends no message that `request_valid()` rejects.
`LumaStatus` and `LmsStatus` are the two numberings; the one `mapStatus()` knows
only the second, so that an internal error of lumad (-6) is returned as
PermissionDenied. `ToldAsDecided` asks of lumad only that success is told exactly
of success, and of LMS the very error.

### LumaVM

`pc` is the call that waits inside a GTK callback: `stop_vm()` for its caller,
or `start_vm()` for a stale process (`clean`). `qemu` is `self.qemu`,
`autostart`, `restarts` and `connects` count pending timers, `sensitive` is the
state of the two buttons. `proc` and `pidFile` are QEMU's side: a process boots,
writes its pid file, takes the disks, and exits on SIGTERM or dies. `Launch` is
the part of `start_vm()` behind the stale-process test, `StartVm` the whole.
`update_state()` polls QEMU twice, and it may die in between: `UpdateState` is the
part up to the first poll, `UpdateStateEnds` the rest, which judges the display by
the result of the first. So `vncReady` can come to be set without a machine, and
stays so until the next start or stop; no property is about it.
`own` is a history variable: what this frontend started. `Crash` ends the
frontend anywhere; QEMU has a session of its own and goes on.

### LmsStore

A line of `apps.tsv` is its id, its permission tokens, and whether its
newline is missing. A token that lost its end, or has text glued to it, is the token
`Scrap`: the code compares it like any other (`app_has_permission()`), and the SDK
returns it. It is none of the known ones, since no token of the repository is the
beginning of another; the same is true of the ids, and half an id is `Junk`. `RegisterFull` leaves a file cut anywhere (`Torn`), because
no `fprintf()` or `fclose()` result is looked at before `rename()`;
`RegisterKilled` and `PostKilled` end the process before the answer; `Glued` is
what an unfinished line becomes when the next one is appended to it.
`Listings` is what `list_file()` may send of the file when it stops at 4095
bytes (`Pieces`: the last entry may have half an id, half a version, or fewer and
half tokens), `ParseApp` and `Listed` what the SDK takes of it. `parseApp()` takes an
entry with half a version or half a token as it is; `ListingIsTrue` says that
nothing else is wrong with a listing, and only the last entry of it, as long as no
write was cut short.

## 3. The runs

| run | states | what it checks |
|---|---|---|
| `registry` | 4.5 k | arrangement invariants, restart, and what reloads and drops may change; AppRegistry implements IconPlacement |
| `registry_unsaved` | – | violation, see below |
| `watcher` | 34 k | Home is wrong about no application but those whose change no event can tell of, and comes to be right about the others |
| `home_drag` | 58 k | drags with reloads: finger, preview, drop and screen agree; HomeDrag implements AppRegistry |
| `keyboard` | 1.2 k | destinations exist; keys go to the focus |
| `keyboard_stuck` | – | violation |
| `surface` | 367 k | AppSurface with Telephony: frozen drags, placement, closing only on request, Home and launch complete; the End button, live calls, and texts sent once |
| `surface_back` | – | violation |
| `services` | 218 k | nobody forgotten, at most one response, stop, ready file; the services never wait for each other; the start of lmsd ends, every request is heard out (refinement) |
| `sdk` | 444 k | whoever gets a response is told what was decided on its own request |
| `lumavm` | 10 k | one machine held, every running one findable, none left by closing |
| `lms` | 322 k | permissions, registrations, notifications and cut listings under kills and full disks |

**Bounds.**
`registry`: three applications and a dock of two slots, so that the dock can be
full with one application left over, and every drop position from -1 to 3, one
outside each end; the default layout uses both lists, and one application is on
neither by default.
`watcher`: two applications, one with its manifest in a top directory and one in
a subdirectory of its own, since the two raise different events; two timers, so
that a signal can come while a reload is due already; any number of changes,
installations and restarts. The lists have one order only, and the one drop
operation left is the reset: arrangements are left to `registry`.
`home_drag`: the same applications and dock, a grid of three
cells, and two possible scans, with and without the one application that both
default lists name, so that a reload during a drag can remove the dragged icon,
one beside it, or bring one back. Layout files of other builds are left to
`registry`.
`keyboard`: every text field of the repository, one web view, three of the
seven languages (the code tests only the first, the last and "EN").
`surface`: Phone, Messages and one application with a page below its first; two
queued functions, one of a close and one of the launch after it; two call
objects, so that a second call can be dialled beside one that was left or failed;
and two deliveries of a text, so that it can be sent twice. `surface_back` has
pages two deep and three queued functions.
`services`: one program and lmsd, so that lumad has two callers; a backlog of two
(32 in the code), so that they can wait in either order, and two pings (50), so
that an attempt can be the last or not. The proofs have no such bounds.
`sdk`: a program of root and one that no socket admits, a backlog of one and one
ping: the two callers of lumad are then a program and lmsd, and either may find the
backlog full.
`lumavm`: three processes, so that a frontend that takes over one can start and
restart another; two pending restarts. `BootSettled` is an assumption on time:
QEMU writes its pid file sooner than a second frontend, started after the first
is gone, calls `start_vm()` (350 ms after its window). Without it two machines
could boot unseen by each other.
`lms`: two applications, both known tokens, two records in the two files
together, three processes and three seconds: enough for a line that is cut, glued to
the next one and cut again, and for ids of different seconds to meet. `View` leaves
out what was answered once a write was cut short: nothing reads it from then on.
`PerSecond` is 2 there (1000 in the code), so that the counter reaches it.
`MaxRestarts`, `MaxRecords`, `MaxRuns`, `MaxClock`, `MaxTimers`, `MaxCalls`,
`MaxPages` and `MaxSends` are the only bounds that stand in guards; the theorems
hold for all their values.

**Fairness.** `AppSurface`: the event loop runs queued functions and due timers
(WF); `Telephony` adds none, since every command of `run()` has a timeout and is
part of its tap. `Services`: each daemon takes its steps (WF); a client that has connected
sends, as every one in the repository does at once (WF on `Send`); and lmsd's
`connect()` eventually finds room in the backlog (SF on `PingConnect`), because
waiting connects are served in order by the kernel. `AppWatcher`: the watcher's
signals and the timers are delivered (SF on `Notify` and `BeginReload`, because
installations hold the thread between them, and Qt's event loop serves sockets
and timers that are due before it takes the next click); a scan ends, and an
installation is killed after its 120 s (WF on `FinishReload`, `FinishInstall`).
`Sdk` takes the fairness of `Services`. Nothing is assumed of users, signals, crashes, restarts or new requests. `AppRegistry`, `HomeDrag`,
`Keyboard`, `LumaVM` and `LmsStore` have safety properties only, and no
fairness: `lumavm.py` connects the display once and promises nothing more.

**Symmetry** is used in `lumavm`, which checks invariants and properties of single steps only.

### What the violations show

* `InstallKeepsUserDock`: `AppRegistry.cpp:978` says a user's dock is not
  modified when an application is installed. Until one save has succeeded,
  `reconcileLayout()` seeds the default layout again on every reload
  (928-935), so with a read-only or full data directory each installation
  resets the dock.
* `FieldTapShowsKeyboard`: `Main.qml:531` says a later tap shows the keyboard
  again. It stays hidden when input is active already, as after the close key,
  which gives the focus to the keyboard itself (`Main.qml:532`), and a `show()`,
  which takes that focus object as the text destination.
* `InternalBackKeepsApp`: `AppSurface.qml:410` says an internal Back does not
  throw the application away. It does not stop the timer of a Home swipe made
  within the last 205 ms.

One more behaviour is in the models as the code has it, and no property forbids
it: a Restart clicked before the automatic start, or twice, stops the machine
just started and boots another (`RestartAfterStop`). `start_vm()` looks at the
pid file before it looks at `self.qemu` (`lumavm.py:722`, 813), and no timer is
ever cancelled.

## 4. The proofs

| module | theorem | property |
|---|---|---|
| `AppRegistryProofs` | `TypeCorrect`, `NoIconTwice`, `IconsAlwaysMatch` | TypeOK, LayoutConsistent, IconsMatchApps |
| `AppRegistryProofs` | `RestartChangesNothing` | RestartRestores |
| `AppRegistryProofs` | `ReloadNeverRearranges`, `DropsLoseNothing`, `DropsDisturbOne` | ReloadKeepsArrangement, DropsKeepIcons, DropMovesOneIcon |
| `AppRegistryProofs` | `RegistryKeepsPlacement` | KeepsPlacement: the refinement of IconPlacement |
| `AppWatcherProofs` | `NoEventIsLost`, `ChangesReachHome`, `WatcherKeepsRegistry` | NothingElseMissed; ChangesAreShown (liveness); the composition is one of AppRegistry's |
| `HomeDragProofs` | `HomeImplementsRegistry`, `DragsTyped`, `ScreenShowsRegistry`, `FingerKeepsIcon`, `PreviewMovesOneIcon`, `DropsLandWhereShown` | Spec, DragTypeOK, ModelsMatchRegistry, DragFollowsIcon, PreviewIsOneMove, DropLandsWhereShown |
| `KeyboardProofs` | `TargetsExist`, `KeysGoToFocus` | TypeOK, InputGoesToFocus |
| `AppSurfaceProofs` | `SurfaceTyped`, `DragsEnd`, `ActiveFillsScreen`, `ClosedOnRequest` | TypeOK, NoFrozenDrag, ShownWhenSettled, ClosedOnlyWhenAsked |
| `AppSurfaceProofs` | `HomeIsReached`, `HomeIsReachedWithPages` | HomeReached (liveness), alone and with the two pages |
| `AppSurfaceProofs` | `TelephonyKeepsSurface`, `EndButtonAlwaysHasCall`, `NoOtherLiveCall`, `MessagesSentOnce` | the composition is one of AppSurface's; EndButtonHasCall, LiveCallsCanBeEnded, EachMessageOnce |
| `ServicesProofs` | `ServicesTyped`, `NeverAnsweredTwice`, `LeavesAfterOne`, `NobodyIsForgotten`, `ReadyTellsTheTruth`, `ServicesKeepPromise` | TypeOK, AtMostOneResponse, StopsAfterOne, NobodyForgotten, ReadyMeansLive, safety part of KeepsPromise |
| `ServicesProofs` | `ServicesNeverDeadlock` | NoDeadlock |
| `ServicesProofs` | `SdkKeepsServices`, `SdkTellsTheDecision` | the SDK's composition is one of the services'; ToldAsDecided |
| `LumaVMProofs` | `FrontendTyped`, `NothingLetGo`, `NoLostMachine`, `CloseStopsAll` | TypeOK, StartedIsHeld, RunningIsFindable, CloseLeavesNothing |
| `LmsStoreProofs` | `StoreTyped`, `NothingElseGranted`, `OneLineEach`, `ListingsAreTrue` | TypeOK, GrantsAreCommitted, OneLinePerApp, ListingIsTrue |
| `LmsStoreProofs` | `IdsIncrease`, `RegistrationsSurvive`, `PostsSurvive` | IdsIncreaseInRun, RegistrationKept, PostedKept |

The type invariants of HomeDrag, AppSurface, Telephony, Services, LumaVM and
LmsStore (`TelTypeOK` within `TelInvHolds`), `OneLinePerApp` and `DropsKeepIcons`
(which `KeepsPlacement` contains) are proved only and are in no run.

Each holds for every value of the constants that satisfies the named
assumptions of its module (for instance `DockLimitAssumption`: the dock has at
least one slot; `ManifestAssumption`: every application is in the sorted list
once). TLC evaluates these assumptions in every run of the module.

The arguments:

* **AppRegistry.** `LayoutInv` adds to the invariants that the scan lists no
  application twice: without it a truncated default dock could repeat one.
  `GoodLayout` is shown for each way to build an arrangement (seed, reconcile,
  insert, swap), then once per action. `RestartRestores` needs `FileInv`: unless
  the last save failed, the file holds the arrangement. A consistent layout
  that was written is what `loadLayout()` reads (`WrittenIsRead`), and
  reconciling it changes nothing (`ReconcileIdempotent`). The action properties
  compare the orders before and after a step: filters keep the order of what
  they keep (`FiltersKeepOrder`), and `Insert` disturbs only what it inserts
  (`InsertKeepsOrder`). For `RegistryKeepsPlacement` the lists become sets: each
  operator has a lemma that says which (`SeedPlaces`, `ReconciledPlaces`), a list
  without repetition is as long as its set of elements (`ItemsCount`), so that the
  code's tests on the length of the dock are tests on the set (`DockHolds`), and
  what `saveLayout()` writes has the form of `PlacesIn` (`SavePlaces`), since the
  new lists are good. A file of another build need not have it: then the start may
  show any sound placement.
* **AppWatcher.** `WatcherInv`: with no scan under way, Home watches every
  application it shows, and with nothing left to deliver it is right about all
  but the missed ones; during a scan its result is right about them. A change of
  a manifest is then noticed or in `missed` (`ChangeKeepsInv`). `ChangesReachHome`
  is the liveness: suppose Home stays wrong about an application whose change was
  noticed. A scan that ends would show it (`ReloadShows`), so none is under way; a
  due timer stays due until it starts one (`WrongStep`), so none is due; then, by
  the invariant, an event waits, and its delivery sets a timer. The fairness of
  the four actions of the thread makes each step of this happen. The proof showed
  that nothing need be assumed of the manifests: they may change for ever.
* **HomeDrag.** The registry's own `LayoutInv` holds along, because each step is
  one of the registry's; with it every icon of an order is known, so that
  `Shown` is the order itself, and a model has no icon twice, which
  `dragIndex` needs to keep naming `dragApp` when the icon moves.
  `PreviewInv` is inductive beside it: without a reload the models differ from
  the registry's orders by the place of the dragged icon only, and have the same
  icons. So the target computed from a model is a place of the order too, the
  registry's `Bound` does not move it, and the icon lands there (`DockLands`,
  `HomeLands`, `ReorderLands`).
* **Keyboard.** `TypeOK` and `InputGoesToFocus` are inductive together: an
  application that dies takes its target away, and it must be known that the
  focus, and with it the input, went too.
* **AppSurface.** `ShownWhenSettled` says nothing while something is pending.
  `BoxFull`, `InPlace` and `Animated` say what each pending thing (a timer, the
  launch's queued function, the finger) still excuses; the queue needs a lemma
  of its own, that taking one function does not lose the other. `CloseAsked`
  gives `ClosedOnRequest`: behind a close timer that still runs there is a
  request that no launch has followed, or it was running when one came.
  `HomeIsReached` needs only that the pending close stays pending
  (`ClosePendingStep`), and that a full queue, which holds the timers back, is
  emptied by the event loop.
* **Telephony.** `TelTypeOK`, `EndButtonHasCall`, `LiveCallsCanBeEnded` and
  `EachMessageOnce` are inductive together: a page that calls is loaded, and what
  loads another one records the call as left.
  `TelephonyKeepsSurface` shows that each step is one of `AppSurface`'s or leaves
  it alone; the fairness is the same formula, so the theorems above and the
  liveness of `AppSurface` hold in the composition.
* **Services.** `PingCounted` keeps the attempts from going below zero,
  `AnsweredOnce` says that a caller who still waits was sent nothing,
  `LateOnce` that the connection accepted after SIGTERM is being served or the
  loop is behind. From these follow the theorems, and that every step is a step
  of `RequestReply` or a stutter. `NobodyForgotten` has an invariant of its own,
  `PlacesInv`: an open connection is at some place (`OpenIsHeld`), no
  connection is at two (`OnePlace`), lmsd never calls itself, and a backlog is
  within its limit and empty once its socket is closed (`BacklogTrue`). Most
  steps only let go of closed connections (`LettingGo`); what remains is
  `connect()` and `accept()`. `LumadHonest` is what `ReadyMeansLive` needs:
  before it listens lumad has no ready file, and in its loop a live socket. The
  theorem ends with the loop: on its way out, after a SIGTERM or a failing
  `accept()`, lumad closes the socket before it unlinks the ready file, and a killed
  one leaves both. For `ServicesNeverDeadlock`, `WaitsInv` says who
  waits for whom: a caller in a service's hands has not been let go, one whose
  request was read has sent it (`PeerWaits`, `QueueWaits`), lmsd's own connection
  is where its `main()` says (`PingWaits`), and one that lmsd closed and lumad did
  not is still held by lumad (`LeftIsHeld`). lumad pings nobody, so a ring of
  waiting services would have to close in lumad, and there it cannot
  (`LumadGoesOn`, `WaitsSuffice`).
* **Sdk.** `Decided`: from the reading of a request to the reply the outcome kept
  for its caller is one that the service takes for this kind of request. No
  step reads two requests (`OneReads`), so that a step decides for the caller it
  serves and for nobody else.
* **LumaVM.** `HeldIsOnly`: while `self.qemu` is set, no other process is
  unsignalled; `BootsAlone`: while it boots there is no pid file;
  `WaitsForSignalled`: a call that waits has signalled every process. So
  `start_vm()`, which knows processes only by the pid file and `self.qemu`, never
  overlooks one.
* **LmsStore.** `Covered`: no line of an application, not only its first,
  holds a permission its last registration did not ask for, scrap apart. It survives the
  upsert, the cut (`TornLines`) and the glue (`GluedLine`). `Unique` says the same
  of the number of its lines, and both carry over to every cut listing; with
  `Complete`, that a file whose writes were all complete has every registration
  whole, they give `ListingsAreTrue`. `IdsBelow`: the ids
  of the running process are at most `clock * PerSecond + counter`.

The liveness theorems have a second hypothesis. The prover takes `ENABLED A` for
an unknown predicate, so that weak fairness of `A` gives nothing until it is said
that the guard of `A` enables it. `EventLoopEnabled` (`AppSurfaceProofs`) and
`ThreadEnabled` (`AppWatcherProofs`) say this, action by action, and nothing else:
each of these actions is a guard and an assignment to every variable, and changes
one of them. TLC evaluated both as invariants of the instances of the runs
`surface` and `watcher`, and `CanGoOn(d) <=> ENABLED DaemonStep(d)`, which
`NoDeadlock` writes out for the same reason, on the one of `services`.

Only model-checked: `LaunchCompletes`, `LmsStartEnds` and the `Heard` part of
`KeepsPromise`. Each counts something down, the functions before the launch's in
the queue, the attempts left, the callers ahead in the backlog, and the induction
over that number is one on temporal formulas, which none of the provers can do.
No operator of a module with theorems is recursive, and no theorem is about what a
recursive definition computes.

## 5. What is not modelled

* The fields of a manifest beyond the ones that place an icon, and new top
  directories: the two that are watched exist from the constructor on.
* Overlapping instances of a service: nothing in the repository starts one while
  another runs. An old process that is still stopping would unlink the new
  one's files (`lumad.c:799`).
* Power loss, with `rename()` that no `fsync()` precedes and the order in which a
  file system writes: the image boots from an initramfs and mounts no disk for
  `/var`, so that at present nothing of it survives the loss of power.
* The moment between the creation of QEMU's pid file and its content:
  `start_vm()` would read an empty one, take it for garbage and unlink it
  (`lumavm.py:736`). `BootSettled` excludes it, as said under *Bounds*.
* Ids and tokens of which one is the beginning of another: half of the longer one
  would then be the shorter one, and a cut line could grant it.
* The wrappers of the SDK that only join and split the text of a request, the
  arguments, output and exit status of `lumactl` and `lmsctl`.
* The forwarding of the pointer in `lumavm.py`, whose button mask may differ from
  what the guest was last sent (`lumavm.py:1190`).
* Lines of 4096 characters and more in the files of `lmsd`; the truncation of the
  list of notifications, whose records the SDK parses like the others; a clock
  that steps back.
* `open_host()` of the display, which reports a refused connection by a signal:
  `lumavm.py:1029` retries only on an exception, so the screen stays empty.
  `ConnectVnc` has both outcomes.
* The texts of responses, the layout and timing of animations, the contents of
  applications, the external commands of `SystemBackend` other than those of
  calls and messages, `lumaui.c`, scripts, kernel
  configurations and the `.before-*` copies.

## 6. Plan

1. `AppRegistry`, `Orders` with proofs – done.
2. `Keyboard` with proofs – done.
3. `AppSurface` with proofs – done.
4. `Services`, abstract `RequestReply`, refinement with its safety part
   proved – done.
5. `LmsStore` with proofs – done.
6. `HomeDrag` with proofs; the abstract `IconPlacement`, which AppRegistry
   refines – done.
7. `Telephony` composed with `AppSurface`, with proofs – done.
8. `LumaVM` with proofs – done. Left: pid reuse, the serial page, the pointer's
   button mask.
9. `Sdk`: the status codes of two protocols through the one `mapStatus()` of the
   SDK, composed with `Services`, checked and proved – done.
10. `AppWatcher`: directory events, the 100 ms timers, `addPaths()` and
    installations, composed with AppRegistry, with proofs – done.
11. Page stacks under AppSurface's Back – the depth only; left: Keyboard composed
    with AppSurface.
12. Proofs of the action properties of AppRegistry, of `RestartRestores`,
    `PreviewIsOneMove`, `NobodyForgotten`, `ReadyMeansLive`,
    `RegistrationKept`, `PostedKept`, `DropLandsWhereShown` and
    `ClosedOnlyWhenAsked` – done.
13. Liveness from fairness for `HomeReached` and `ChangesAreShown`; `NoDeadlock`;
    what the SDK tells; the refinement of `IconPlacement` – proved. Left: that a
    service ends what it does for one caller, and a refinement for `Keyboard`.
