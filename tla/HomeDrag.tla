------------------------------- MODULE HomeDrag -------------------------------
(***************************************************************************)
(* The Home screen over the registry (shell/qml/HomeScreen.qml and         *)
(* AppIcon.qml): the two list models it draws from, and the drag of an     *)
(* icon, which rearranges them live under the finger and becomes a request *)
(* to the registry when the finger is lifted.  Manifests may change on     *)
(* disk during the drag: the registry follows at once, the models only     *)
(* when the drag ends.                                                     *)
(*                                                                         *)
(* A place on the screen is a slot of the dock, a cell of the Home grid,   *)
(* or Away.  Qt delivers one pointer to a MouseArea, so one icon is        *)
(* dragged at a time.  Every step is also a step of AppRegistry, or leaves *)
(* the registry alone: the property Spec of that module.                   *)
(***************************************************************************)
EXTENDS AppRegistry

CONSTANTS
    Scans,   \* the sets of manifests a scan may find
    Slots,   \* the slots and cells a finger can be over, from 0
    Away,    \* a place over neither the dock nor the grid
    NoDrag   \* no icon is being dragged

Sources == {"home", "dock"}
Places == {Away} \cup [over : Sources, slot : Slots]

(* What dragSource, dragIndex, dragApp, overHome, overDock and the two     *)
(* target indices hold during a drag.                                      *)
Drags == [source : Sources, index : Nat, app : Apps,
          over : Sources \cup {"away"}, target : Int]

ASSUME PlaceAssumption ==
    /\ Scans \subseteq SUBSET Apps
    /\ Slots \subseteq Nat
    /\ Away \notin [over : Sources, slot : Slots]
    /\ NoDrag \notin Drags

(* The registry accepts any list and any position a model can yield.       *)
ASSUME RequestAssumption ==
    /\ \A n \in 0 .. Len(ManifestOrder) :
           \A s \in [1 .. n -> Apps] : NoDup(s) => s \in Requests
    /\ 0 .. Len(ManifestOrder) \subseteq Indices

VARIABLES
    homeModel,  \* the ids in homeModel
    dockModel,  \* the ids in dockModel
    editMode,   \* the icons wiggle; a press drags without a hold
    drag,       \* the drag that goes on, or NoDrag
    stale       \* history: the registry changed during this drag

screen == <<homeModel, dockModel, editMode, drag, stale>>
dragVars == <<vars, screen>>

-----------------------------------------------------------------------------
(* homeApps() and dockApps(): the icons of an order that are known. *)
Shown(order, l) == Only(order, Items(l))

(* syncModels() after the registry's part of the step, when no icon is     *)
(* being dragged.                                                          *)
SyncModels ==
    /\ homeModel' = Shown(homeOrder', apps')
    /\ dockModel' = Shown(dockOrder', apps')

(* dockTarget(): the slot under the finger.  A place behind the last icon  *)
(* exists only for an icon that comes from Home while there is room.       *)
DockTarget(d, source, slot) ==
    IF d = <<>> THEN 0
    ELSE Bound(slot, IF source = "home" /\ Len(d) < DockLimit THEN Len(d)
                     ELSE Len(d) - 1)

(* gridTarget(): the cell under the finger. *)
GridTarget(h, source, slot) ==
    IF source = "dock" THEN Bound(slot, Len(h))
    ELSE Bound(slot, IF h = <<>> THEN 0 ELSE Len(h) - 1)

(* Fault: the two icons trade places. *)
MoveItem_Trades(s, from, to) == [s EXCEPT ![from + 1] = s[to + 1], ![to + 1] = s[from + 1]]

(* ListModel.move(from, to, 1). *)
MoveItem(s, from, to) == Insert(Without(s, {s[from + 1]}), to, s[from + 1])

(* updateDrag(): the drag g once the finger is at p. *)
Target(g, p) ==
    IF p.over = "dock" THEN DockTarget(dockModel, g.source, p.slot)
    ELSE GridTarget(homeModel, g.source, p.slot)
DragOver(g, p) ==
    IF p = Away THEN [g EXCEPT !.over = "away", !.target = -1]
    ELSE [g EXCEPT !.over = p.over, !.target = Target(g, p),
                   !.index = IF p.over = g.source THEN Target(g, p) ELSE g.index]

(* updateDrag(): the dragged icon moves within the list it comes from. *)
Rearranged(s, list, g, p) ==
    IF p # Away /\ g.source = list /\ p.over = list
    THEN MoveItem(s, g.index, Target(g, p)) ELSE s

UpdateDrag(g, p) ==
    /\ drag' = DragOver(g, p)
    /\ homeModel' = Rearranged(homeModel, "home", g, p)
    /\ dockModel' = Rearranged(dockModel, "dock", g, p)

(* The requests of finishDrag(): a list or an application that changes     *)
(* nothing leaves the registry as it is.                                   *)
RequestHome(ids) ==
    \/ SetHomeOrder(ids)
    \/ Requested(ids, homeOrder) = homeOrder /\ UNCHANGED vars
RequestDock(ids) ==
    \/ SetDockOrder(ids)
    \/ Truncate(Requested(ids, dockOrder), DockLimit) = dockOrder /\ UNCHANGED vars

(* Fault: an application removed during the drag is docked all the same. *)
RequestToDock_Unchecked(id, index) ==
    \/ ReorderDock(id, index) \/ DockApp(id, index) \/ SwapIntoDock(id, index)
    \/ /\ id \notin Items(apps)
       /\ Commit(homeOrder, Truncate(Insert(Without(dockOrder, {id}), 0, id), DockLimit))

RequestToDock(id, index) ==
    \/ ReorderDock(id, index) \/ DockApp(id, index) \/ SwapIntoDock(id, index)
    \/ id \notin Items(apps) /\ UNCHANGED vars

RequestToHome(id, index) ==
    \/ MoveAppToHome(id, index)
    \/ id \notin Items(apps) /\ UNCHANGED vars

-----------------------------------------------------------------------------
DragInit ==
    /\ Init
    /\ homeModel = <<>>
    /\ dockModel = <<>>
    /\ editMode = FALSE
    /\ drag = NoDrag
    /\ stale = FALSE

(* The shell starts and HomeScreen completes. *)
StartShell(found, can) ==
    /\ Start(found, can)
    /\ SyncModels
    /\ UNCHANGED <<editMode, drag, stale>>

StopShell ==
    /\ Stop
    /\ homeModel' = <<>>
    /\ dockModel' = <<>>
    /\ editMode' = FALSE
    /\ drag' = NoDrag
    /\ stale' = FALSE

(* Fault: the models follow the registry under the finger. *)
ReloadHome_SyncsAlways(found) ==
    /\ Reload(found)
    /\ SyncModels
    /\ stale' = (drag # NoDrag)
    /\ UNCHANGED <<editMode, drag>>

(* reload() sends appsChanged and layoutChanged when it found or arranged  *)
(* something new; syncModels() returns at once during a drag.              *)
ReloadHome(found) ==
    /\ Reload(found)
    /\ LET changed == \/ apps' # apps
                      \/ ~hasSaved
                      \/ <<homeOrder', dockOrder'>> # <<homeOrder, dockOrder>>
       IN  /\ IF changed /\ drag = NoDrag THEN SyncModels
              ELSE UNCHANGED <<homeModel, dockModel>>
           /\ stale' = (stale \/ (changed /\ drag # NoDrag))
    /\ UNCHANGED <<editMode, drag>>

(* A held icon, or one pressed in edit mode: startDrag() with the finger   *)
(* at p, and the updateDrag() it ends with.                                *)
StartDrag(source, i, p) ==
    LET model == IF source = "home" THEN homeModel ELSE dockModel
    IN  /\ running
        /\ drag = NoDrag
        /\ i \in DOMAIN model
        /\ editMode' = TRUE
        /\ UpdateDrag([source |-> source, index |-> i - 1, app |-> model[i],
                       over |-> "away", target |-> -1], p)
        /\ stale' = FALSE
        /\ UNCHANGED vars

MoveDrag(p) ==
    /\ drag # NoDrag
    /\ UpdateDrag(drag, p)
    /\ UNCHANGED <<editMode, stale>>
    /\ UNCHANGED vars

(* The registry's part of finishDrag(), the drag having become g and the   *)
(* models h and d with its last updateDrag().                              *)
Drop(g, h, d) ==
    CASE g.source = "home" /\ g.over = "dock" -> RequestToDock(g.app, g.target)
      [] g.source = "dock" /\ g.over = "home" -> RequestToHome(g.app, g.target)
      [] g.source = "home" /\ g.over = "home" -> RequestHome(h)
      [] g.source = "dock" /\ g.over = "dock" -> RequestDock(d)
      [] OTHER -> UNCHANGED vars

(* Faults: the models keep what was shown under the finger; the last move  *)
(* of the finger is missed.                                                *)
FinishDrag_NoRestore(p) ==
    /\ drag # NoDrag
    /\ Drop(DragOver(drag, p), Rearranged(homeModel, "home", drag, p),
            Rearranged(dockModel, "dock", drag, p))
    /\ homeModel' = Rearranged(homeModel, "home", drag, p)
    /\ dockModel' = Rearranged(dockModel, "dock", drag, p)
    /\ drag' = NoDrag
    /\ stale' = FALSE
    /\ UNCHANGED editMode
FinishDrag_MissesLastMove(p) ==
    /\ drag # NoDrag
    /\ Drop(drag, homeModel, dockModel)
    /\ SyncModels
    /\ drag' = NoDrag
    /\ stale' = FALSE
    /\ UNCHANGED editMode

(* The finger is lifted, or the press is cancelled, at p: finishDrag().    *)
FinishDrag(p) ==
    /\ drag # NoDrag
    /\ Drop(DragOver(drag, p), Rearranged(homeModel, "home", drag, p),
            Rearranged(dockModel, "dock", drag, p))
    /\ SyncModels
    /\ drag' = NoDrag
    /\ stale' = FALSE
    /\ UNCHANGED editMode

(* The Done button. *)
Done ==
    /\ editMode
    /\ drag = NoDrag
    /\ editMode' = FALSE
    /\ UNCHANGED <<homeModel, dockModel, drag, stale>>
    /\ UNCHANGED vars

DragNext ==
    \/ \E found \in Scans, can \in BOOLEAN : StartShell(found, can)
    \/ StopShell
    \/ \E found \in Scans : ReloadHome(found)
    \/ \E source \in Sources, i \in 1 .. Len(ManifestOrder), p \in Places :
           StartDrag(source, i, p)
    \/ \E p \in Places : MoveDrag(p)
    \/ \E p \in Places : FinishDrag(p)
    \/ Done

DragSpec == DragInit /\ [][DragNext]_dragVars

-----------------------------------------------------------------------------
(* Type invariant: the models are lists of ids, and a drag has an icon to  *)
(* drag.                                                                   *)
DragTypeOK ==
    /\ homeModel \in Seq(Apps)
    /\ dockModel \in Seq(Apps)
    /\ editMode \in BOOLEAN
    /\ drag = NoDrag \/ (drag \in Drags /\ editMode /\ running)
    /\ stale \in BOOLEAN

(* Between drags the screen shows the registry: whatever the live          *)
(* rearrangement did, and whatever was reloaded meanwhile, a finished or   *)
(* refused drop leaves no icon where the registry does not have it.        *)
ModelsMatchRegistry ==
    drag = NoDrag => homeModel = homeOrder /\ dockModel = dockOrder

(* The finger drags the icon it took hold of: dragIndex keeps pointing at  *)
(* dragApp through live moves and reloads, so that the next move() does    *)
(* not carry off another icon.                                             *)
DragFollowsIcon ==
    drag # NoDrag =>
        LET model == IF drag.source = "home" THEN homeModel ELSE dockModel
        IN  drag.index + 1 \in DOMAIN model /\ model[drag.index + 1] = drag.app

(* The live preview is the registry's arrangement with only the dragged    *)
(* icon moved, as long as nothing was reloaded during the drag.            *)
PreviewIsOneMove ==
    drag # NoDrag /\ ~stale =>
        /\ Without(homeModel, {drag.app}) = Without(homeOrder, {drag.app})
        /\ Without(dockModel, {drag.app}) = Without(dockOrder, {drag.app})

(* "Release to place": an icon is dropped where the screen showed it, at   *)
(* the target index of the list under the finger, unless a reload changed  *)
(* the registry during the drag.  Even then icons released over their own  *)
(* list keep the order the preview showed.                                 *)
DropLandsWhereShown ==
    [][ drag # NoDrag /\ drag' = NoDrag =>
        \A p \in Places \ {Away} :
            LET g == DragOver(drag, p)
                shown == IF g.over = "home" THEN Rearranged(homeModel, "home", drag, p)
                         ELSE Rearranged(dockModel, "dock", drag, p)
                order == IF g.over = "home" THEN homeOrder' ELSE dockOrder'
                lands == /\ ~stale => /\ g.target + 1 \in DOMAIN order
                                     /\ order[g.target + 1] = g.app
                         /\ g.over = g.source =>
                                SameOrder(shown, order, Items(shown) \cap Items(order))
            IN  lands \/ ~FinishDrag(p) ]_dragVars
=============================================================================
