----------------------------- MODULE AppRegistry -----------------------------
(***************************************************************************)
(* The Home screen's model (shell/AppRegistry.cpp): the applications found *)
(* by the last scan of the manifest directories, the user's arrangement of *)
(* their icons on Home and in the dock, and the file home.json that keeps  *)
(* the arrangement across restarts of the shell.                           *)
(*                                                                         *)
(* A scan is abstracted to the set of ids whose manifests loadManifest     *)
(* accepts at that moment: applications are installed, removed, broken and *)
(* repaired on disk at any time, and reload() runs at any time after that. *)
(***************************************************************************)
EXTENDS Orders

CONSTANTS
    ManifestOrder,  \* every application id, sorted by ("order", "title")
    HomeApps,       \* ids whose manifest has "home": true (the default)
    DockApps,       \* ids whose manifest has "dock": true
    DockLimit,      \* the most icons the dock holds (4 in the code)
    OldLayouts,     \* the home.json files an earlier build may have left
    Requests,       \* the id lists HomeScreen may pass to set*Order
    Indices,        \* the drop positions it may pass to moveAppTo*
    NoFile,         \* home.json does not exist
    BadJson         \* home.json is no JSON object

Apps == Items(ManifestOrder)
ASSUME ManifestAssumption ==
    /\ ManifestOrder \in Seq(Apps)
    /\ NoDup(ManifestOrder)
    /\ HomeApps \subseteq Apps
    /\ DockApps \subseteq Apps

ASSUME DockLimitAssumption == DockLimit \in Nat \ {0}

Layout == [home : Seq(Apps), dock : Seq(Apps)]

ASSUME LayoutFileAssumption ==
    /\ OldLayouts \subseteq Layout
    /\ NoFile \notin Layout
    /\ BadJson \notin Layout

ASSUME InputAssumption == Requests \subseteq Seq(Apps) /\ Indices \subseteq Int

VARIABLES
    running,     \* the shell process is alive
    apps,        \* m_apps: what the last scan found, sorted
    homeOrder,   \* m_homeOrder
    dockOrder,   \* m_dockOrder
    hasSaved,    \* m_hasSavedLayout
    layoutFile,  \* home.json
    saveFailed   \* history: the last saveLayout() returned false

vars == <<running, apps, homeOrder, dockOrder, hasSaved, layoutFile, saveFailed>>

-----------------------------------------------------------------------------
(* reload()'s scan: the accepted manifests, one per id, sorted. *)
Scan(found) == Only(ManifestOrder, found)

(* seedDefaultLayout() over the scanned list l. *)
SeedDock(l) == Truncate(Only(l, DockApps), DockLimit)
SeedHome(l) == Without(Only(l, HomeApps), Items(SeedDock(l)))

(* Faults: the filter on installed applications is lost; the clean list is *)
(* built in scan order. *)
CleanOrder_KeepsUnknown(s, l) == FirstOf(s, Items(s))
CleanOrder_Resorts(s, l) == Only(l, Items(s))

(* cleanOrder(): known applications, each once. *)
CleanOrder(s, l) == FirstOf(s, Items(l))

(* The Home applications of l that are in neither order are appended. *)
AppendNew(h, d, l) == h \o Without(Only(l, HomeApps), Items(h) \cup Items(d))

(* reconcileLayout(): the arrangement that follows h, d once l is known. *)
ReconciledDock(d, had, l) ==
    IF had THEN Truncate(CleanOrder(d, l), DockLimit) ELSE SeedDock(l)
ReconciledHome(h, d, had, l) ==
    LET dock == ReconciledDock(d, had, l)
    IN  IF had
        THEN AppendNew(Without(CleanOrder(h, l), Items(dock)), dock, l)
        ELSE SeedHome(l)

(* loadLayout(): an unreadable file counts as none, and leaves the orders  *)
(* as the constructor made them, empty.                                    *)
Loadable(f) == f \notin {NoFile, BadJson}
LoadedHome(f, can) == IF can /\ Loadable(f) THEN FirstOf(f.home, Items(f.home)) ELSE <<>>
LoadedDock(f, can) == IF can /\ Loadable(f) THEN FirstOf(f.dock, Items(f.dock)) ELSE <<>>

(* Fault: the file is written before the new orders are assigned. *)
SaveLayout_TooEarly(h, d, had) ==
    \/ /\ layoutFile' = [home |-> homeOrder, dock |-> dockOrder]
       /\ hasSaved' = TRUE
       /\ saveFailed' = FALSE
    \/ /\ hasSaved' = had
       /\ saveFailed' = TRUE
       /\ UNCHANGED layoutFile

(* saveLayout(): QSaveFile replaces home.json as a whole or not at all.    *)
(* "had" is m_hasSavedLayout when it is called.                            *)
SaveLayout(h, d, had) ==
    \/ /\ layoutFile' = [home |-> h, dock |-> d]
       /\ hasSaved' = TRUE
       /\ saveFailed' = FALSE
    \/ /\ hasSaved' = had
       /\ saveFailed' = TRUE
       /\ UNCHANGED layoutFile

(* The tail of every operation that changes the arrangement. *)
Commit(h, d) ==
    /\ homeOrder' = h
    /\ dockOrder' = d
    /\ SaveLayout(h, d, hasSaved)
    /\ UNCHANGED <<running, apps>>

(* reload() from the arrangement h, d: scan, reconcile, save if changed.   *)
ReloadFrom(h, d, had, found) ==
    LET l == Scan(found)
        home == ReconciledHome(h, d, had, l)
        dock == ReconciledDock(d, had, l)
    IN  /\ apps' = l
        /\ homeOrder' = home
        /\ dockOrder' = dock
        /\ IF ~had \/ home # h \/ dock # d
           THEN SaveLayout(home, dock, had)
           ELSE /\ hasSaved' = had
                /\ UNCHANGED <<layoutFile, saveFailed>>

-----------------------------------------------------------------------------
Init ==
    /\ running = FALSE
    /\ apps = <<>>
    /\ homeOrder = <<>>
    /\ dockOrder = <<>>
    /\ hasSaved = FALSE
    /\ layoutFile \in {NoFile, BadJson} \cup OldLayouts
    /\ saveFailed = FALSE

(* The constructor: loadLayout() (whose open may fail), then reload(). *)
Start(found, can) ==
    /\ ~running
    /\ running' = TRUE
    /\ ReloadFrom(LoadedHome(layoutFile, can), LoadedDock(layoutFile, can),
                  can /\ Loadable(layoutFile), found)

(* The shell is killed or exits: only the file survives. *)
Stop ==
    /\ running
    /\ running' = FALSE
    /\ apps' = <<>>
    /\ homeOrder' = <<>>
    /\ dockOrder' = <<>>
    /\ hasSaved' = FALSE
    /\ saveFailed' = FALSE
    /\ UNCHANGED layoutFile

(* The 100 ms timer after a directory or file change fires. *)
Reload(found) ==
    /\ running
    /\ ReloadFrom(homeOrder, dockOrder, hasSaved, found)
    /\ UNCHANGED running

(* setHomeOrder and setDockOrder: a request that changes nothing returns   *)
(* true without saving.  The new order: the requested ids that are in the  *)
(* order s, then those that were not sent.                                 *)
Requested(ids, s) ==
    LET sent == FirstOf(ids, Items(s)) IN sent \o Without(s, Items(sent))

SetHomeOrder(ids) ==
    LET requested == Requested(ids, homeOrder)
    IN  /\ running
        /\ requested # homeOrder
        /\ Commit(requested, dockOrder)

SetDockOrder(ids) ==
    LET requested == Truncate(Requested(ids, dockOrder), DockLimit)
    IN  /\ running
        /\ requested # dockOrder
        /\ Commit(homeOrder, requested)

(* moveAppToDock: an icon already docked is only reordered. *)
ReorderDock(id, index) ==
    LET rest == Without(dockOrder, {id})
    IN  /\ running
        /\ id \in Items(apps)
        /\ id \in Items(dockOrder)
        /\ Commit(homeOrder, Insert(rest, Bound(index, Len(rest)), id))

(* Fault: the room test is off by one. *)
DockApp_OneTooMany(id, index) ==
    /\ running
    /\ id \in Items(apps)
    /\ id \notin Items(dockOrder)
    /\ Len(dockOrder) <= DockLimit
    /\ Commit(Without(homeOrder, {id}),
              Insert(dockOrder, Bound(index, Len(dockOrder)), id))

(* moveAppToDock: the dock has room. *)
DockApp(id, index) ==
    /\ running
    /\ id \in Items(apps)
    /\ id \notin Items(dockOrder)
    /\ Len(dockOrder) < DockLimit
    /\ Commit(Without(homeOrder, {id}),
              Insert(dockOrder, Bound(index, Len(dockOrder)), id))

(* Fault: the displaced icon is not put back on Home. *)
SwapIntoDock_DropsDisplaced(id, index) ==
    /\ running
    /\ id \in Items(apps)
    /\ id \notin Items(dockOrder)
    /\ Len(dockOrder) >= DockLimit
    /\ Commit(Without(homeOrder, {id}),
              [dockOrder EXCEPT ![Bound(index, Len(dockOrder) - 1) + 1] = id])

(* moveAppToDock: the dock is full; the icon there takes id's place. *)
SwapIntoDock(id, index) ==
    LET at == Bound(index, Len(dockOrder) - 1) + 1
        old == IndexOf(homeOrder, id)
        rest == Without(homeOrder, {id})
        back == IF old >= 0 THEN Bound(old, Len(rest)) ELSE Len(rest)
    IN  /\ running
        /\ id \in Items(apps)
        /\ id \notin Items(dockOrder)
        /\ Len(dockOrder) >= DockLimit
        /\ Commit(Insert(rest, back, dockOrder[at]),
                  [dockOrder EXCEPT ![at] = id])

(* Faults: the icon also stays in the dock; it trades places with the icon *)
(* at the drop position. *)
MoveAppToHome_KeepsDocked(id, index) ==
    LET rest == Without(homeOrder, {id})
    IN  /\ running
        /\ id \in Items(apps)
        /\ Commit(Insert(rest, Bound(index, Len(rest)), id), dockOrder)
MoveAppToHome_Trades(id, index) ==
    LET from == IndexOf(homeOrder, id) + 1
        to == Bound(index, Len(homeOrder) - 1) + 1
    IN  /\ running
        /\ id \in Items(homeOrder)
        /\ Commit([homeOrder EXCEPT ![from] = homeOrder[to], ![to] = id], dockOrder)

(* moveAppToHome: reorders an icon of Home, or takes it from the dock. *)
MoveAppToHome(id, index) ==
    LET rest == Without(homeOrder, {id})
    IN  /\ running
        /\ id \in Items(apps)
        /\ Commit(Insert(rest, Bound(index, Len(rest)), id),
                  IF id \in Items(homeOrder) THEN dockOrder
                  ELSE Without(dockOrder, {id}))

ResetLayout ==
    /\ running
    /\ Commit(SeedHome(apps), SeedDock(apps))
Next ==
    \/ \E found \in SUBSET Apps : Reload(found)
    \/ \E found \in SUBSET Apps, can \in BOOLEAN : Start(found, can)
    \/ Stop
    \/ \E ids \in Requests : SetHomeOrder(ids)
    \/ \E ids \in Requests : SetDockOrder(ids)
    \/ \E id \in Apps, index \in Indices : ReorderDock(id, index)
    \/ \E id \in Apps, index \in Indices : DockApp(id, index)
    \/ \E id \in Apps, index \in Indices : SwapIntoDock(id, index)
    \/ \E id \in Apps, index \in Indices : MoveAppToHome(id, index)
    \/ ResetLayout

Spec == Init /\ [][Next]_vars

-----------------------------------------------------------------------------
Placed == Items(homeOrder) \cup Items(dockOrder)

(* Type invariant: the orders are lists of ids and the dock never grows    *)
(* past its slots, whichever way icons reached it.                         *)
TypeOK ==
    /\ running \in BOOLEAN
    /\ apps \in Seq(Apps)
    /\ homeOrder \in Seq(Apps)
    /\ dockOrder \in Seq(Apps)
    /\ Len(dockOrder) <= DockLimit
    /\ hasSaved \in BOOLEAN
    /\ saveFailed \in BOOLEAN
    /\ layoutFile \in {NoFile, BadJson} \/ layoutFile \in Layout

(* No icon is drawn twice: Home and the dock are lists without repetition  *)
(* and share no application, after any sequence of drops, reloads, old or  *)
(* unreadable files and failed saves.                                      *)
LayoutConsistent ==
    /\ NoDup(homeOrder)
    /\ NoDup(dockOrder)
    /\ Items(homeOrder) \cap Items(dockOrder) = {}

(* The icons and the scan agree: an application that belongs on Home is    *)
(* reachable from Home or the dock, and no icon outlives its application.  *)
IconsMatchApps ==
    /\ Placed \subseteq Items(apps)
    /\ HomeApps \cap Items(apps) \subseteq Placed

(* What the user sees is what a restart would bring back, as long as the   *)
(* last save did not fail: loadLayout() and reconcileLayout() undo nothing *)
(* that a drop, a reset or a reload did.                                   *)
RestartRestores ==
    running /\ ~saveFailed =>
        LET had == Loadable(layoutFile)
            h == LoadedHome(layoutFile, TRUE)
            d == LoadedDock(layoutFile, TRUE)
        IN  /\ homeOrder = ReconciledHome(h, d, had, apps)
            /\ dockOrder = ReconciledDock(d, had, apps)

(* a and b are in s in this order before a step exactly when they are in   *)
(* t in this order after it, for all the applications of S.                *)
SameOrder(s, t, S) == \A a, b \in S : Before(s, a, b) <=> Before(t, a, b)

(* A reload of a saved layout never rearranges: the applications that are  *)
(* still installed keep their place relative to each other on Home and in  *)
(* the dock, and none is added to the dock.                                *)
ReloadKeepsArrangement ==
    [][ (\E found \in SUBSET Apps : Reload(found)) /\ hasSaved =>
            /\ Items(dockOrder') = Items(dockOrder) \cap Items(apps')
            /\ SameOrder(dockOrder, dockOrder', Items(apps'))
            /\ SameOrder(homeOrder, homeOrder',
                         Items(homeOrder) \cap Items(apps')) ]_vars

Dropped ==
    \E id \in Apps, index \in Indices :
        \/ ReorderDock(id, index)
        \/ DockApp(id, index)
        \/ SwapIntoDock(id, index)
        \/ MoveAppToHome(id, index)

(* No drop and no reorder request makes an icon disappear, also when the   *)
(* request was built from a model that is older than the registry.         *)
DropsKeepIcons ==
    [][ Dropped \/ (\E ids \in Requests : SetHomeOrder(ids) \/ SetDockOrder(ids))
            => Placed \subseteq Placed' ]_vars

(* A drop disturbs only the icon dragged and, when the dock is full, the   *)
(* one that gives up its slot.  All others stay in their list, in their    *)
(* order: "dropping onto a position swaps the displaced app back".         *)
OthersStay(moved) ==
    LET others == Placed \ moved
    IN  /\ SameOrder(homeOrder, homeOrder', others)
        /\ SameOrder(dockOrder, dockOrder', others)
        /\ Items(dockOrder) \cap others = Items(dockOrder') \cap others
DropMovesOneIcon ==
    [][ \A id \in Apps, index \in Indices :
            /\ ReorderDock(id, index) \/ DockApp(id, index) \/ MoveAppToHome(id, index)
                   => OthersStay({id})
            /\ SwapIntoDock(id, index)
                   => \E displaced \in Items(dockOrder) : OthersStay({id, displaced}) ]_vars

(* The placement that the file f keeps, if it is of the form saveLayout()  *)
(* writes: no icon in both lists, and no dock that is too long.            *)
PlacesIn(f) ==
    IF /\ Loadable(f)
       /\ Items(f.home) \cap Items(f.dock) = {}
       /\ Len(f.dock) <= DockLimit
    THEN {[home |-> Items(f.home), dock |-> Items(f.dock)]}
    ELSE {}

(* The sets of icons that the dock can hold. *)
Docks == {S \in SUBSET Apps : Cardinality(S) <= DockLimit}

(* The registry implements IconPlacement: every drop moves just the icons  *)
(* it says, none is lost in a list, a reload or a start follows what was   *)
(* installed and removed, and only what was saved comes back.              *)
Placement == INSTANCE IconPlacement WITH
    Ids <- Apps, HomeIds <- HomeApps, DockIds <- DockApps,
    installed <- Items(apps), home <- Items(homeOrder), dock <- Items(dockOrder),
    arranged <- hasSaved, kept <- PlacesIn(layoutFile)
KeepsPlacement == Placement!Spec

(* AppRegistry.cpp:978 "We intentionally do NOT modify a user's dock when  *)
(* a new application is installed": a reload that only finds more          *)
(* applications leaves a dock the user has arranged as it is.  The code    *)
(* breaks this once every save has failed so far: reload() then seeds the  *)
(* default layout again.                                                   *)
InstallKeepsUserDock ==
    [][ (\E found \in SUBSET Apps : Reload(found))
        /\ Items(apps) \subseteq Items(apps') /\ apps # apps'
        /\ dockOrder # SeedDock(apps)
            => dockOrder' = dockOrder ]_vars
=============================================================================
