---------------------------- MODULE HomeDragProofs ----------------------------
(***************************************************************************)
(* The Home screen implements the registry: every step of HomeDrag is a    *)
(* step of AppRegistry or leaves it alone, so that everything proved of    *)
(* the registry holds under the drags.  With it, the drag always holds on  *)
(* to the icon it started with, and between drags the screen shows exactly *)
(* the registry's arrangement.                                             *)
(*                                                                         *)
(* DragInv is the inductive invariant: LayoutInv of the registry, the      *)
(* three properties proved here, and the fact that the models hold no icon *)
(* twice, without which a list of their ids might not be a request.        *)
(* PreviewInv, inductive beside it, says that what is shown is one move    *)
(* away from the registry; a drop therefore lands where it was shown.      *)
(***************************************************************************)
EXTENDS HomeDrag, AppRegistryProofs

ModelsDistinct == NoDup(homeModel) /\ NoDup(dockModel)

DragInv ==
    /\ LayoutInv
    /\ DragTypeOK
    /\ ModelsDistinct
    /\ ModelsMatchRegistry
    /\ DragFollowsIcon

-----------------------------------------------------------------------------
(* A list without repetition is no longer than the list of all manifests. *)
LEMMA NoDupShort ==
    ASSUME NEW s \in Seq(Apps), NoDup(s)
    PROVE  Len(s) \in 0 .. Len(ManifestOrder)
<1> DEFINE all == Items(ManifestOrder)
           rest == Only(ManifestOrder, all \ Items(s))
<1>1. Apps = all
  BY DEF Apps
<1>2. /\ ManifestOrder \in Seq(Apps) /\ NoDup(ManifestOrder)
  BY ManifestAssumption
<1>3. /\ rest \in Seq(Apps) /\ NoDup(rest)
      /\ Items(rest) = all \ Items(s)
  BY <1>2, OnlyProperties
<1>4. Items(s) \subseteq all
  BY <1>1 DEF Items
<1> HIDE DEF rest
<1>5. /\ s \o rest \in Seq(Apps)
      /\ Len(s \o rest) = Len(s) + Len(rest)
      /\ Items(s \o rest) = all
      /\ NoDup(s \o rest)
  <2>1. Items(s) \cup Items(rest) = all /\ Items(s) \cap Items(rest) = {}
    BY <1>3, <1>4
  <2> HIDE DEF all
  <2>2. Items(s \o rest) = Items(s) \cup Items(rest)
    BY <1>3, ConcatItems
  <2>3. NoDup(s \o rest)
    BY <1>3, <2>1, ConcatItems
  <2>4. s \o rest \in Seq(Apps) /\ Len(s \o rest) = Len(s) + Len(rest)
    BY <1>3, ConcatItems
  <2> QED BY <2>1, <2>2, <2>3, <2>4
<1>6. Len(s \o rest) = Len(ManifestOrder)
  BY <1>2, <1>5, SameItemsSameLen
<1>7. Len(s) \in Nat /\ Len(rest) \in Nat
  BY <1>3
<1> QED BY <1>5, <1>6, <1>7

(* So such a list is a request the registry accepts. *)
LEMMA ModelIsRequest ==
    ASSUME NEW s \in Seq(Apps), NoDup(s)
    PROVE  s \in Requests
<1>1. Len(s) \in 0 .. Len(ManifestOrder) /\ s \in [1 .. Len(s) -> Apps]
  BY NoDupShort
<1> QED BY <1>1, RequestAssumption

(* The inserted element stands at its index. *)
LEMMA InsertedAt ==
    ASSUME NEW S, NEW s \in Seq(S), NEW a \in S, NEW index \in 0 .. Len(s)
    PROVE  Insert(s, index, a)[index + 1] = a
<1> DEFINE l == SubSeq(s, 1, index)
           r == SubSeq(s, index + 1, Len(s))
           la == l \o <<a>>
<1>1. l \in Seq(S) /\ Len(l) = index /\ r \in Seq(S)
  OBVIOUS
<1> HIDE DEF l, r
<1>2. la \in Seq(S) /\ Len(la) = index + 1 /\ la[index + 1] = a
  BY <1>1
<1> HIDE DEF la
<1>3. (la \o r)[index + 1] = a
  BY <1>1, <1>2
<1>4. Insert(s, index, a) = la \o r
  BY DEF Insert, la, l, r
<1> QED BY <1>3, <1>4

(* move() keeps the icons and puts the one it moves where it is told. *)
LEMMA MoveItemProperties ==
    ASSUME NEW s \in Seq(Apps), NoDup(s), NEW from \in 0 .. Len(s) - 1,
           NEW to \in 0 .. Len(s) - 1
    PROVE  /\ MoveItem(s, from, to) \in Seq(Apps)
           /\ Len(MoveItem(s, from, to)) = Len(s)
           /\ NoDup(MoveItem(s, from, to))
           /\ Items(MoveItem(s, from, to)) = Items(s)
           /\ MoveItem(s, from, to)[to + 1] = s[from + 1]
<1> DEFINE a == s[from + 1]
           rest == Without(s, {a})
<1>1. from + 1 \in DOMAIN s /\ a \in Apps /\ a \in Items(s)
  BY DEF Items
<1>2. rest \in Seq(Apps) /\ NoDup(rest) /\ Items(rest) = Items(s) \ {a}
  BY WithoutProperties
<1> HIDE DEF rest
<1>3. Len(rest) = Len(s) - 1
  <2>1. /\ Insert(rest, 0, a) \in Seq(Apps)
        /\ Len(Insert(rest, 0, a)) = Len(rest) + 1
        /\ Items(Insert(rest, 0, a)) = Items(s)
        /\ NoDup(Insert(rest, 0, a))
    <3>1. 0 \in 0 .. Len(rest) /\ a \notin Items(rest)
      BY <1>2
    <3>2. Items(rest) \cup {a} = Items(s)
      BY <1>1, <1>2
    <3> HIDE DEF a
    <3>3. a \in Apps /\ rest \in Seq(Apps) /\ NoDup(rest)
      BY <1>1, <1>2
    <3>4. Items(Insert(rest, 0, a)) = Items(rest) \cup {a}
      BY <3>1, <3>3, InsertProperties
    <3>5. Insert(rest, 0, a) \in Seq(Apps) /\ Len(Insert(rest, 0, a)) = Len(rest) + 1
      BY <3>1, <3>3, InsertProperties
    <3>6. NoDup(Insert(rest, 0, a))
      BY <3>1, <3>3, InsertProperties
    <3> QED BY <3>2, <3>4, <3>5, <3>6
  <2>2. Len(Insert(rest, 0, a)) = Len(s)
    BY <2>1, SameItemsSameLen
  <2> QED BY <1>2, <2>1, <2>2
<1>4. to \in 0 .. Len(rest)
  BY <1>3
<1>5. MoveItem(s, from, to) = Insert(rest, to, a)
  BY DEF MoveItem, rest
<1> HIDE DEF a
<1>6. /\ Insert(rest, to, a) \in Seq(Apps)
      /\ Len(Insert(rest, to, a)) = Len(rest) + 1
      /\ NoDup(Insert(rest, to, a))
      /\ Items(Insert(rest, to, a)) = Items(rest) \cup {a}
      /\ Insert(rest, to, a)[to + 1] = a
  <2>1. a \notin Items(rest)
    BY <1>2
  <2>2. a \in Apps /\ rest \in Seq(Apps) /\ NoDup(rest) /\ to \in 0 .. Len(rest)
    BY <1>1, <1>2, <1>4
  <2>3. Insert(rest, to, a)[to + 1] = a
    BY <2>2, InsertedAt
  <2> QED BY <2>1, <2>2, <2>3, InsertProperties
<1>7. Items(rest) \cup {a} = Items(s)
  BY <1>1, <1>2
<1>8. Items(MoveItem(s, from, to)) = Items(s)
  BY <1>5, <1>6, <1>7
<1> QED BY <1>3, <1>5, <1>6, <1>8 DEF a

(* Nothing is filtered out of an order whose icons are all known. *)
LEMMA ShownIsAll ==
    ASSUME NEW s \in Seq(Apps), NEW l, Items(s) \subseteq Items(l)
    PROVE  Shown(s, l) = s
BY FiltersKeep DEF Shown

-----------------------------------------------------------------------------
(* g points at its icon in the model it comes from. *)
Holds(g, h, d) ==
    LET model == IF g.source = "home" THEN h ELSE d
    IN  g.index + 1 \in DOMAIN model /\ model[g.index + 1] = g.app

ModelsOK ==
    /\ homeModel \in Seq(Apps) /\ NoDup(homeModel)
    /\ dockModel \in Seq(Apps) /\ NoDup(dockModel)

(* The index under the finger is one of the list, or the place behind it   *)
(* where an icon from the other list may be added.                         *)
LEMMA TargetInRange ==
    ASSUME ModelsOK, NEW g \in Drags, NEW p \in Places, p # Away
    PROVE  /\ Target(g, p) \in 0 .. Len(ManifestOrder)
           /\ p.over = "home" /\ g.source = "home" /\ homeModel # <<>>
                  => Target(g, p) \in 0 .. Len(homeModel) - 1
           /\ p.over = "dock" /\ g.source = "dock" /\ dockModel # <<>>
                  => Target(g, p) \in 0 .. Len(dockModel) - 1
<1>1. /\ Len(homeModel) \in 0 .. Len(ManifestOrder)
      /\ Len(dockModel) \in 0 .. Len(ManifestOrder)
  BY NoDupShort DEF ModelsOK
<1>2. p.over \in Sources /\ p.slot \in Nat /\ g.source \in Sources
  BY PlaceAssumption DEF Places, Drags
<1>3. Len(ManifestOrder) \in Nat /\ DockLimit \in Nat
  BY ManifestAssumption, DockLimitAssumption
<1>4. /\ homeModel # <<>> => Len(homeModel) > 0
      /\ dockModel # <<>> => Len(dockModel) > 0
  BY DEF ModelsOK
<1>5. CASE p.over = "dock"
  BY <1>1, <1>2, <1>3, <1>4, <1>5 DEF Target, DockTarget, Bound, Sources
<1>6. CASE p.over = "home"
  BY <1>1, <1>2, <1>3, <1>4, <1>6 DEF Target, GridTarget, Bound, Sources
<1> QED BY <1>2, <1>5, <1>6 DEF Sources

(* updateDrag() keeps the models lists of distinct icons and the drag on   *)
(* its icon.                                                               *)
LEMMA DragOverProperties ==
    ASSUME ModelsOK, NEW g \in Drags, Holds(g, homeModel, dockModel),
           NEW p \in Places
    PROVE  /\ DragOver(g, p) \in Drags
           /\ Rearranged(homeModel, "home", g, p) \in Seq(Apps)
           /\ NoDup(Rearranged(homeModel, "home", g, p))
           /\ Rearranged(dockModel, "dock", g, p) \in Seq(Apps)
           /\ NoDup(Rearranged(dockModel, "dock", g, p))
           /\ Holds(DragOver(g, p), Rearranged(homeModel, "home", g, p),
                    Rearranged(dockModel, "dock", g, p))
<1>1. g.source \in Sources /\ g.index \in Nat /\ g.app \in Apps
  BY DEF Drags
<1>2. CASE p = Away
  <2>1. DragOver(g, p) = [g EXCEPT !.over = "away", !.target = -1]
    BY <1>2 DEF DragOver
  <2>2. /\ Rearranged(homeModel, "home", g, p) = homeModel
        /\ Rearranged(dockModel, "dock", g, p) = dockModel
    BY <1>2 DEF Rearranged
  <2>3. DragOver(g, p) \in Drags
    <3>1. -1 \in Int /\ "away" \in Sources \cup {"away"}
      OBVIOUS
    <3> DEFINE m == -1
    <3>2. m \in Int /\ DragOver(g, p) = [g EXCEPT !.over = "away", !.target = m]
      BY <2>1, <3>1
    <3> HIDE DEF m
    <3> QED BY <3>1, <3>2 DEF Drags
  <2>4. Holds(DragOver(g, p), homeModel, dockModel)
    BY <2>1 DEF Holds, Drags
  <2> QED BY <2>2, <2>3, <2>4 DEF ModelsOK
<1>3. CASE p # Away /\ p.over # g.source
  <2>1. p.over \in Sources
    BY <1>3 DEF Places
  <2>2. DragOver(g, p) = [g EXCEPT !.over = p.over, !.target = Target(g, p)]
    BY <1>3 DEF DragOver, Drags
  <2>3. Target(g, p) \in Int
    BY <1>3, TargetInRange, ManifestAssumption
  <2>4. /\ Rearranged(homeModel, "home", g, p) = homeModel
        /\ Rearranged(dockModel, "dock", g, p) = dockModel
    BY <1>3 DEF Rearranged
  <2> QED BY <1>1, <2>1, <2>2, <2>3, <2>4 DEF Drags, ModelsOK, Holds
<1>4. CASE p # Away /\ p.over = "home" /\ g.source = "home"
  <2> DEFINE t == Target(g, p)
  <2>1. homeModel \in Seq(Apps) /\ NoDup(homeModel)
    BY DEF ModelsOK
  <2>2. g.index \in 0 .. Len(homeModel) - 1 /\ homeModel[g.index + 1] = g.app
    BY <1>1, <1>4, <2>1 DEF Holds
  <2>3. t \in 0 .. Len(homeModel) - 1
    BY <1>4, <2>1, <2>2, TargetInRange
  <2>4. /\ Rearranged(homeModel, "home", g, p) = MoveItem(homeModel, g.index, t)
        /\ Rearranged(dockModel, "dock", g, p) = dockModel
    BY <1>4 DEF Rearranged
  <2>5. DragOver(g, p) = [g EXCEPT !.over = "home", !.target = t, !.index = t]
    BY <1>4 DEF DragOver
  <2> HIDE DEF t
  <2>6. /\ MoveItem(homeModel, g.index, t) \in Seq(Apps)
        /\ Len(MoveItem(homeModel, g.index, t)) = Len(homeModel)
        /\ NoDup(MoveItem(homeModel, g.index, t))
        /\ MoveItem(homeModel, g.index, t)[t + 1] = g.app
    BY <2>1, <2>2, <2>3, MoveItemProperties
  <2>7. t \in Nat /\ t \in Int
    BY <2>3
  <2>8. DragOver(g, p) \in Drags
    BY <1>1, <2>5, <2>7 DEF Drags, Sources
  <2>9. t + 1 \in DOMAIN MoveItem(homeModel, g.index, t)
    BY <2>3, <2>6
  <2>10. Holds(DragOver(g, p), MoveItem(homeModel, g.index, t), dockModel)
    BY <1>4, <2>5, <2>6, <2>9 DEF Holds, Drags
  <2> QED BY <2>4, <2>6, <2>8, <2>10 DEF ModelsOK
<1>5. CASE p # Away /\ p.over = "dock" /\ g.source = "dock"
  <2> DEFINE t == Target(g, p)
  <2>1. dockModel \in Seq(Apps) /\ NoDup(dockModel)
    BY DEF ModelsOK
  <2>2. g.index \in 0 .. Len(dockModel) - 1 /\ dockModel[g.index + 1] = g.app
    BY <1>1, <1>5, <2>1 DEF Holds
  <2>3. t \in 0 .. Len(dockModel) - 1
    BY <1>5, <2>1, <2>2, TargetInRange
  <2>4. /\ Rearranged(dockModel, "dock", g, p) = MoveItem(dockModel, g.index, t)
        /\ Rearranged(homeModel, "home", g, p) = homeModel
    BY <1>5 DEF Rearranged
  <2>5. DragOver(g, p) = [g EXCEPT !.over = "dock", !.target = t, !.index = t]
    BY <1>5 DEF DragOver
  <2> HIDE DEF t
  <2>6. /\ MoveItem(dockModel, g.index, t) \in Seq(Apps)
        /\ Len(MoveItem(dockModel, g.index, t)) = Len(dockModel)
        /\ NoDup(MoveItem(dockModel, g.index, t))
        /\ MoveItem(dockModel, g.index, t)[t + 1] = g.app
    BY <2>1, <2>2, <2>3, MoveItemProperties
  <2>7. t \in Nat /\ t \in Int
    BY <2>3
  <2>8. DragOver(g, p) \in Drags
    BY <1>1, <2>5, <2>7 DEF Drags, Sources
  <2>9. t + 1 \in DOMAIN MoveItem(dockModel, g.index, t)
    BY <2>3, <2>6
  <2>10. Holds(DragOver(g, p), homeModel, MoveItem(dockModel, g.index, t))
    BY <1>5, <2>5, <2>6, <2>9 DEF Holds, Drags
  <2> QED BY <2>4, <2>6, <2>8, <2>10 DEF ModelsOK
<1>6. p = Away \/ p.over \in Sources
  BY DEF Places
<1> QED BY <1>1, <1>2, <1>3, <1>4, <1>5, <1>6 DEF Sources

(* What finishDrag() asks of the registry is a step of it, or nothing.     *)
LEMMA DropIsRegistryStep ==
    ASSUME ModelsOK, NEW g \in Drags, Holds(g, homeModel, dockModel),
           NEW p \in Places,
           Drop(DragOver(g, p), Rearranged(homeModel, "home", g, p),
                Rearranged(dockModel, "dock", g, p))
    PROVE  [Next]_vars
<1> DEFINE n == DragOver(g, p)
           h == Rearranged(homeModel, "home", g, p)
           d == Rearranged(dockModel, "dock", g, p)
<1>1. /\ n \in Drags
      /\ h \in Requests
      /\ d \in Requests
  BY DragOverProperties, ModelIsRequest
<1>2. n.app \in Apps
  BY <1>1 DEF Drags
<1>3. n.over # "away" => n.target \in Indices
  <2>1. p # Away => Target(g, p) \in Indices
    BY TargetInRange, RequestAssumption
  <2>2. p = Away => n.over = "away"
    BY DEF DragOver, Drags
  <2>3. p # Away => n.target = Target(g, p)
    BY DEF DragOver, Drags
  <2> QED BY <2>1, <2>2, <2>3
<1>4. Drop(n, h, d)
  OBVIOUS
<1> HIDE DEF n, h, d
<1>5. CASE n.source = "home" /\ n.over = "dock"
  <2>1. RequestToDock(n.app, n.target)
    BY <1>4, <1>5 DEF Drop
  <2> QED BY <1>2, <1>3, <1>5, <2>1 DEF RequestToDock, Next
<1>6. CASE n.source = "dock" /\ n.over = "home"
  <2>1. RequestToHome(n.app, n.target)
    BY <1>4, <1>6 DEF Drop
  <2> QED BY <1>2, <1>3, <1>6, <2>1 DEF RequestToHome, Next
<1>7. CASE n.source = "home" /\ n.over = "home"
  <2>1. RequestHome(h)
    BY <1>4, <1>7 DEF Drop
  <2> QED BY <1>1, <2>1 DEF RequestHome, Next
<1>8. CASE n.source = "dock" /\ n.over = "dock"
  <2>1. RequestDock(d)
    BY <1>4, <1>8 DEF Drop
  <2> QED BY <1>1, <2>1 DEF RequestDock, Next
<1>9. CASE n.over = "away"
  BY <1>4, <1>9 DEF Drop
<1>10. n.source \in Sources /\ n.over \in Sources \cup {"away"}
  BY <1>1 DEF Drags
<1> QED BY <1>5, <1>6, <1>7, <1>8, <1>9, <1>10 DEF Sources

-----------------------------------------------------------------------------
(* Once the registry is in order, syncModels() leaves the models equal to  *)
(* its orders.                                                             *)
LEMMA SyncShowsRegistry ==
    ASSUME LayoutInv', SyncModels
    PROVE  /\ homeModel' = homeOrder' /\ dockModel' = dockOrder'
           /\ ModelsOK'
<1>1. /\ homeOrder' \in Seq(Apps) /\ NoDup(homeOrder')
      /\ dockOrder' \in Seq(Apps) /\ NoDup(dockOrder')
      /\ Items(homeOrder') \subseteq Items(apps')
      /\ Items(dockOrder') \subseteq Items(apps')
  BY DEF LayoutInv, GoodLayout
<1>2. homeModel' = homeOrder'
  BY <1>1, ShownIsAll DEF SyncModels
<1>3. dockModel' = dockOrder'
  BY <1>1, ShownIsAll DEF SyncModels
<1> QED BY <1>1, <1>2, <1>3 DEF ModelsOK

(* DragInv in the form the steps below use. *)
LEMMA DragInvParts ==
    DragInv <=> /\ LayoutInv
                /\ ModelsOK
                /\ editMode \in BOOLEAN /\ stale \in BOOLEAN
                /\ \/ drag = NoDrag
                   \/ drag \in Drags /\ editMode /\ running
                      /\ Holds(drag, homeModel, dockModel)
                /\ ModelsMatchRegistry
BY PlaceAssumption DEF DragInv, DragTypeOK, ModelsOK, ModelsDistinct, DragFollowsIcon, Holds

(* Every step of the Home screen is one of the registry, or leaves it.     *)
LEMMA StepIsRegistryStep ==
    ASSUME DragInv, [DragNext]_dragVars
    PROVE  [Next]_vars
<1>1. ASSUME NEW found \in Scans, NEW can \in BOOLEAN, StartShell(found, can)
      PROVE  [Next]_vars
  BY <1>1, PlaceAssumption DEF StartShell, Next
<1>2. CASE StopShell
  BY <1>2 DEF StopShell, Next
<1>3. ASSUME NEW found \in Scans, ReloadHome(found) PROVE [Next]_vars
  BY <1>3, PlaceAssumption DEF ReloadHome, Next
<1>4. ASSUME NEW source \in Sources, NEW i \in 1 .. Len(ManifestOrder),
             NEW p \in Places, StartDrag(source, i, p)
      PROVE  [Next]_vars
  BY <1>4 DEF StartDrag
<1>5. ASSUME NEW p \in Places, MoveDrag(p) PROVE [Next]_vars
  BY <1>5 DEF MoveDrag
<1>6. ASSUME NEW p \in Places, FinishDrag(p) PROVE [Next]_vars
  <2>1. ModelsOK /\ drag \in Drags /\ Holds(drag, homeModel, dockModel)
    BY <1>6, DragInvParts DEF FinishDrag
  <2> QED BY <1>6, <2>1, DropIsRegistryStep DEF FinishDrag
<1>7. CASE Done
  BY <1>7 DEF Done
<1>8. CASE UNCHANGED dragVars
  BY <1>8 DEF dragVars
<1> QED BY <1>1, <1>2, <1>3, <1>4, <1>5, <1>6, <1>7, <1>8 DEF DragNext

(* updateDrag() from a drag g of a running shell in edit mode.             *)
LEMMA UpdateDragKeepsInv ==
    ASSUME LayoutInv, LayoutInv', ModelsOK, NEW g \in Drags,
           Holds(g, homeModel, dockModel), NEW p \in Places,
           UpdateDrag(g, p), running', editMode' = TRUE, stale' \in BOOLEAN
    PROVE  DragInv'
<1>1. /\ drag' \in Drags
      /\ ModelsOK'
      /\ Holds(drag', homeModel', dockModel')
  BY DragOverProperties DEF UpdateDrag, ModelsOK
<1>2. drag' # NoDrag
  BY <1>1, PlaceAssumption
<1>3. ModelsMatchRegistry'
  BY <1>2 DEF ModelsMatchRegistry
<1>4. DragTypeOK'
  BY <1>1 DEF DragTypeOK, ModelsOK
<1>5. DragFollowsIcon'
  BY <1>1 DEF DragFollowsIcon, Holds
<1> QED BY <1>1, <1>3, <1>4, <1>5 DEF DragInv, ModelsDistinct, ModelsOK

(* A step that ends with syncModels() and no drag.                         *)
LEMMA SyncKeepsInv ==
    ASSUME LayoutInv', SyncModels, drag' = NoDrag, editMode' \in BOOLEAN,
           stale' \in BOOLEAN
    PROVE  DragInv'
<1>1. homeModel' = homeOrder' /\ dockModel' = dockOrder' /\ ModelsOK'
  BY SyncShowsRegistry
<1> QED BY <1>1 DEF DragInv, DragTypeOK, ModelsDistinct, ModelsOK,
               ModelsMatchRegistry, DragFollowsIcon

(* The invariant holds initially. *)
LEMMA InitDragInv == DragInit => DragInv
<1> SUFFICES ASSUME DragInit PROVE DragInv
  OBVIOUS
<1>1. LayoutInv
  BY InitLayoutInv DEF DragInit
<1>2. <<>> \in Seq(Apps) /\ NoDup(<<>>)
  BY DEF NoDup
<1> QED BY <1>1, <1>2 DEF DragInit, Init, DragInv, DragTypeOK, ModelsDistinct,
               ModelsMatchRegistry, DragFollowsIcon

(* Every step keeps it. *)
LEMMA NextDragInv == DragInv /\ [DragNext]_dragVars => DragInv'
<1> SUFFICES ASSUME DragInv, [DragNext]_dragVars PROVE DragInv'
  OBVIOUS
<1>1. LayoutInv /\ LayoutInv'
  BY StepIsRegistryStep, NextLayoutInv DEF DragInv
<1>2. /\ ModelsOK /\ editMode \in BOOLEAN /\ stale \in BOOLEAN
      /\ ModelsMatchRegistry
      /\ drag # NoDrag => drag \in Drags /\ editMode /\ running
                           /\ Holds(drag, homeModel, dockModel)
  BY DragInvParts
<1>3. ASSUME NEW found \in Scans, NEW can \in BOOLEAN, StartShell(found, can)
      PROVE  DragInv'
  <2>1. drag = NoDrag
    BY <1>2, <1>3 DEF StartShell, Start
  <2> QED BY <1>1, <1>2, <1>3, <2>1, SyncKeepsInv DEF StartShell
<1>4. CASE StopShell
  <2>1. <<>> \in Seq(Apps) /\ NoDup(<<>>)
    BY DEF NoDup
  <2> QED BY <1>1, <1>4, <2>1 DEF StopShell, Stop, DragInv, DragTypeOK,
              ModelsDistinct, ModelsMatchRegistry, DragFollowsIcon
<1>5. ASSUME NEW found \in Scans, ReloadHome(found) PROVE DragInv'
  <2>1. CASE SyncModels /\ drag = NoDrag
    BY <1>1, <1>2, <1>5, <2>1, SyncKeepsInv DEF ReloadHome
  <2>2. CASE drag # NoDrag /\ UNCHANGED <<homeModel, dockModel>>
    <3>1. running' /\ UNCHANGED <<editMode, drag>> /\ stale' \in BOOLEAN
      BY <1>2, <1>5, <2>2 DEF ReloadHome, Reload
    <3> QED BY <1>1, <1>2, <2>2, <3>1 DEF DragInv, DragTypeOK, ModelsOK,
                ModelsDistinct, ModelsMatchRegistry, DragFollowsIcon, Holds
  <2>3. CASE /\ drag = NoDrag /\ UNCHANGED <<homeModel, dockModel>>
             /\ <<homeOrder', dockOrder'>> = <<homeOrder, dockOrder>>
    <3>1. UNCHANGED <<editMode, drag>> /\ stale' \in BOOLEAN
      BY <1>2, <1>5, <2>3 DEF ReloadHome
    <3> QED BY <1>1, <1>2, <2>3, <3>1 DEF DragInv, DragTypeOK, ModelsOK,
                ModelsDistinct, ModelsMatchRegistry, DragFollowsIcon
  <2> QED BY <1>5, <2>1, <2>2, <2>3 DEF ReloadHome
<1>6. ASSUME NEW source \in Sources, NEW i \in 1 .. Len(ManifestOrder),
             NEW p \in Places, StartDrag(source, i, p)
      PROVE  DragInv'
  <2> DEFINE model == IF source = "home" THEN homeModel ELSE dockModel
             g == [source |-> source, index |-> i - 1, app |-> model[i],
                   over |-> "away", target |-> -1]
  <2>1. /\ i \in DOMAIN model /\ UpdateDrag(g, p) /\ running
        /\ editMode' = TRUE /\ stale' = FALSE /\ UNCHANGED vars
    BY <1>6 DEF StartDrag
  <2>2. model[i] \in Apps
    BY <1>2, <2>1 DEF ModelsOK
  <2>3. i - 1 \in Nat /\ (i - 1) + 1 = i
    BY ManifestAssumption
  <2>4. g \in Drags
    BY <2>2, <2>3 DEF Drags
  <2>5. Holds(g, homeModel, dockModel)
    BY <2>1, <2>3 DEF Holds
  <2>6. running'
    BY <2>1 DEF vars
  <2> HIDE DEF g
  <2> QED BY <1>1, <1>2, <2>1, <2>4, <2>5, <2>6, UpdateDragKeepsInv
<1>7. ASSUME NEW p \in Places, MoveDrag(p) PROVE DragInv'
  <2>1. running' /\ editMode' = TRUE /\ stale' \in BOOLEAN /\ UpdateDrag(drag, p)
    BY <1>2, <1>7 DEF MoveDrag, vars
  <2> QED BY <1>1, <1>2, <1>7, <2>1, UpdateDragKeepsInv DEF MoveDrag
<1>8. ASSUME NEW p \in Places, FinishDrag(p) PROVE DragInv'
  <2>1. SyncModels /\ drag' = NoDrag /\ editMode' \in BOOLEAN /\ stale' \in BOOLEAN
    BY <1>2, <1>8 DEF FinishDrag
  <2> QED BY <1>1, <2>1, SyncKeepsInv
<1>9. CASE Done
  BY <1>1, <1>2, <1>9 DEF Done, vars, DragInv, DragTypeOK, ModelsOK,
     ModelsDistinct, ModelsMatchRegistry, DragFollowsIcon
<1>10. CASE UNCHANGED dragVars
  BY <1>1, <1>2, <1>10 DEF dragVars, screen, vars, DragInv, DragTypeOK, ModelsOK,
     ModelsDistinct, ModelsMatchRegistry, DragFollowsIcon
<1> QED BY <1>3, <1>4, <1>5, <1>6, <1>7, <1>8, <1>9, <1>10 DEF DragNext

(* The invariant of the Home screen holds throughout. *)
THEOREM DragInvHolds == DragSpec => []DragInv
BY InitDragInv, NextDragInv, PTL DEF DragSpec

(* The Home screen implements the registry: for any applications, screen   *)
(* size and scans, drags and reloads in any order are drops, reorders and  *)
(* reloads of AppRegistry, whose theorems hold under them.                 *)
THEOREM HomeImplementsRegistry == DragSpec => Spec
<1>1. DragInit => Init
  BY DEF DragInit
<1>2. DragInv /\ [DragNext]_dragVars => [Next]_vars
  BY StepIsRegistryStep
<1> QED BY <1>1, <1>2, DragInvHolds, PTL DEF DragSpec, Spec

(* The models are lists of applications and a drag always has an icon, in  *)
(* edit mode, of a running shell.                                          *)
THEOREM DragsTyped == DragSpec => []DragTypeOK
<1>1. DragInv => DragTypeOK
  BY DEF DragInv
<1> QED BY <1>1, DragInvHolds, PTL

(* Between drags the screen shows the registry's arrangement, for any      *)
(* drags, refused drops and reloads.                                       *)
THEOREM ScreenShowsRegistry == DragSpec => []ModelsMatchRegistry
<1>1. DragInv => ModelsMatchRegistry
  BY DEF DragInv
<1> QED BY <1>1, DragInvHolds, PTL

(* The live preview never loses the icon under the finger.                 *)
THEOREM FingerKeepsIcon == DragSpec => []DragFollowsIcon
<1>1. DragInv => DragFollowsIcon
  BY DEF DragInv
<1> QED BY <1>1, DragInvHolds, PTL

-----------------------------------------------------------------------------
(* The places of two lists in their concatenation. *)
LEMMA ConcatPlaces ==
    ASSUME NEW S, NEW p \in Seq(S), NEW q \in Seq(S)
    PROVE  /\ p \o q \in Seq(S) /\ Len(p \o q) = Len(p) + Len(q)
           /\ \A i \in 1 .. Len(p) : (p \o q)[i] = p[i]
           /\ \A i \in Len(p) + 1 .. Len(p) + Len(q) : (p \o q)[i] = q[i - Len(p)]
OBVIOUS

(* Removing what was just inserted gives the list back. *)
LEMMA WithoutInserted ==
    ASSUME NEW S, NEW r \in Seq(S), NEW a \in S, a \notin Items(r),
           NEW index \in 0 .. Len(r)
    PROVE  Without(Insert(r, index, a), {a}) = r
<1> DEFINE t == Insert(r, index, a)
           N == Len(r)
           K == {i \in DOMAIN t : t[i] \notin {a}}
           pos(n) == IF n \in 1 .. index THEN n ELSE n + 1
<1>1. /\ t \in Seq(S) /\ Len(t) = N + 1
      /\ \A i \in 1 .. index : t[i] = r[i]
      /\ t[index + 1] = a
      /\ \A i \in index + 2 .. N + 1 : t[i] = r[i - 1]
  <2> DEFINE l == SubSeq(r, 1, index)
             u == SubSeq(r, index + 1, Len(r))
             la == l \o <<a>>
  <2>1. /\ l \in Seq(S) /\ Len(l) = index /\ \A i \in 1 .. index : l[i] = r[i]
        /\ u \in Seq(S) /\ Len(u) = Len(r) - index
        /\ \A i \in 1 .. Len(r) - index : u[i] = r[index + i]
    OBVIOUS
  <2>2. t = la \o u
    BY DEF Insert
  <2>3. N \in Nat /\ index \in 0 .. N /\ Len(r) = N
    OBVIOUS
  <2> HIDE DEF l, u, t, N
  <2>a. <<a>> \in Seq(S) /\ Len(<<a>>) = 1 /\ <<a>>[1] = a
    OBVIOUS
  <2>b. /\ la \in Seq(S) /\ Len(la) = Len(l) + Len(<<a>>)
        /\ \A i \in 1 .. Len(l) : la[i] = l[i]
        /\ \A i \in Len(l) + 1 .. Len(l) + Len(<<a>>) : la[i] = <<a>>[i - Len(l)]
    BY <2>1, <2>a, ConcatPlaces
  <2>c. index + 1 \in Len(l) + 1 .. Len(l) + Len(<<a>>) /\ (index + 1) - Len(l) = 1
    BY <2>1, <2>3, <2>a
  <2> HIDE DEF la
  <2>4. /\ la \in Seq(S) /\ Len(la) = index + 1 /\ la[index + 1] = a
        /\ \A i \in 1 .. index : la[i] = r[i]
    BY <2>1, <2>3, <2>a, <2>b, <2>c
  <2>5. /\ t \in Seq(S) /\ Len(t) = Len(la) + Len(u)
        /\ \A i \in 1 .. Len(la) : t[i] = la[i]
        /\ \A i \in Len(la) + 1 .. Len(la) + Len(u) : t[i] = u[i - Len(la)]
    <3>1. la \in Seq(S) /\ u \in Seq(S)
      BY <2>1, <2>4
    <3>2. /\ la \o u \in Seq(S) /\ Len(la \o u) = Len(la) + Len(u)
          /\ \A i \in 1 .. Len(la) : (la \o u)[i] = la[i]
          /\ \A i \in Len(la) + 1 .. Len(la) + Len(u) : (la \o u)[i] = u[i - Len(la)]
      BY <3>1, ConcatPlaces
    <3> QED BY <2>2, <3>2
  <2>6. t \in Seq(S) /\ Len(t) = N + 1
    <3>1. Len(t) = (index + 1) + (N - index)
      BY <2>1, <2>3, <2>4, <2>5
    <3> QED BY <2>3, <2>5, <3>1
  <2>7. (\A i \in 1 .. index : t[i] = r[i]) /\ t[index + 1] = a
    BY <2>3, <2>4, <2>5
  <2>8. \A i \in index + 2 .. N + 1 : t[i] = r[i - 1]
    <3> TAKE i \in index + 2 .. N + 1
    <3>1. t[i] = u[i - (index + 1)]
      BY <2>1, <2>3, <2>4, <2>5
    <3>2. i - (index + 1) \in 1 .. N - index /\ index + (i - (index + 1)) = i - 1
      BY <2>3
    <3> QED BY <2>1, <2>3, <3>1, <3>2
  <2> QED BY <2>6, <2>7, <2>8
<1>2. N \in Nat /\ index \in Nat /\ index <= N
  OBVIOUS
<1>3. \A i \in 1 .. N : r[i] # a
  BY DEF Items
<1> HIDE DEF t, N
<1>4. K = (1 .. N + 1) \ {index + 1}
  <2>1. DOMAIN t = 1 .. N + 1
    BY <1>1, <1>2
  <2>2. \A i \in 1 .. N + 1 : i # index + 1 => t[i] # a
    <3> TAKE i \in 1 .. N + 1
    <3>1. CASE i <= index
      BY <1>1, <1>2, <1>3, <3>1
    <3>2. CASE i > index + 1
      BY <1>1, <1>2, <1>3, <3>2
    <3> QED BY <1>2, <3>1, <3>2
  <2> QED BY <1>1, <1>2, <2>1, <2>2
<1> HIDE DEF K
<1>5. Cardinality(K) = N
  <2>1. IsFiniteSet(1 .. N + 1) /\ Cardinality(1 .. N + 1) = N + 1
    BY <1>2, FS_Interval
  <2>2. index + 1 \in 1 .. N + 1
    BY <1>2
  <2>3. Cardinality((1 .. N + 1) \ {index + 1}) = (N + 1) - 1
    BY <2>1, <2>2, FS_RemoveElement
  <2> QED BY <1>2, <1>4, <2>3
<1>6. \A n \in 1 .. N : pos(n) \in K /\ Rank(K, pos(n)) = n - 1
  <2> TAKE n \in 1 .. N
  <2>1. CASE n \in 1 .. index
    <3>1. {j \in K : j < n} = 1 .. n - 1
      BY <1>2, <1>4, <2>1
    <3>2. Cardinality(1 .. n - 1) = n - 1
      <4>1. n - 1 \in Nat
        OBVIOUS
      <4> QED BY <4>1, FS_Interval
    <3>3. n \in K
      BY <1>2, <1>4, <2>1
    <3> QED BY <2>1, <3>1, <3>2, <3>3 DEF Rank
  <2>2. CASE n \notin 1 .. index
    <3>1. {j \in K : j < n + 1} = (1 .. n) \ {index + 1}
      BY <1>2, <1>4, <2>2
    <3>2. Cardinality((1 .. n) \ {index + 1}) = n - 1
      <4>1. IsFiniteSet(1 .. n) /\ Cardinality(1 .. n) = n
        BY <1>2, FS_Interval
      <4>2. index + 1 \in 1 .. n
        BY <1>2, <2>2
      <4> QED BY <4>1, <4>2, FS_RemoveElement
    <3>3. n + 1 \in K
      BY <1>2, <1>4, <2>2
    <3> QED BY <2>2, <3>1, <3>2, <3>3 DEF Rank
  <2> QED BY <2>1, <2>2
<1>7. \A n \in 1 .. N : t[pos(n)] = r[n]
  <2> TAKE n \in 1 .. N
  <2>1. CASE n \in 1 .. index
    BY <1>1, <2>1
  <2>2. CASE n \notin 1 .. index
    <3>1. n + 1 \in index + 2 .. N + 1 /\ (n + 1) - 1 = n
      BY <1>2, <2>2
    <3> QED BY <1>1, <2>2, <3>1
  <2> QED BY <2>1, <2>2
<1> HIDE DEF pos
<1>8. \A n \in 1 .. N : (CHOOSE i \in K : Rank(K, i) = n - 1) = pos(n)
  <2> TAKE n \in 1 .. N
  <2>1. N + 1 \in Nat /\ K \in SUBSET (1 .. N + 1)
    BY <1>2, <1>4
  <2>2. \A i \in K : Rank(K, i) = Rank(K, pos(n)) => i = pos(n)
    BY <1>6, <2>1, RankBijective
  <2> QED BY <1>6, <2>2
<1>9. Pick(t, K) = [n \in 1 .. N |-> r[n]]
  <2>1. Pick(t, K) = [n \in 1 .. N |-> t[CHOOSE i \in K : Rank(K, i) = n - 1]]
    BY <1>5 DEF Pick
  <2> QED BY <1>7, <1>8, <2>1
<1>10. Pick(t, K) = r
  BY <1>9 DEF N
<1> QED BY <1>10 DEF Without, t, K

(* move() leaves the order of the other icons. *)
LEMMA MoveKeepsOthers ==
    ASSUME NEW s \in Seq(Apps), NoDup(s), NEW from \in 0 .. Len(s) - 1,
           NEW to \in 0 .. Len(s) - 1
    PROVE  Without(MoveItem(s, from, to), {s[from + 1]}) = Without(s, {s[from + 1]})
<1> DEFINE a == s[from + 1]
           rest == Without(s, {a})
<1>1. a \in Apps /\ a \in Items(s)
  BY DEF Items
<1>2. rest \in Seq(Apps) /\ Items(rest) = Items(s) \ {a} /\ NoDup(rest)
  BY WithoutProperties
<1>3. MoveItem(s, from, to) = Insert(rest, to, a)
  BY DEF MoveItem
<1>4. Len(MoveItem(s, from, to)) = Len(s)
  BY MoveItemProperties
<1> HIDE DEF a, rest
<1>5. Len(rest) = Len(s) - 1
  <2>1. Len(Insert(rest, 0, a)) = Len(rest) + 1 /\ Len(Insert(rest, 0, a)) = Len(s)
    <3>1. 0 \in 0 .. Len(rest) /\ a \notin Items(rest) /\ Items(rest) \cup {a} = Items(s)
      BY <1>1, <1>2
    <3>0. a \in Apps /\ rest \in Seq(Apps) /\ NoDup(rest)
      BY <1>1, <1>2
    <3>2. Len(Insert(rest, 0, a)) = Len(rest) + 1 /\ Insert(rest, 0, a) \in Seq(Apps)
      BY <3>0, <3>1, InsertProperties
    <3>3. NoDup(Insert(rest, 0, a))
      BY <3>0, <3>1, InsertProperties
    <3>4. Items(Insert(rest, 0, a)) = Items(rest) \cup {a}
      BY <3>0, <3>1, InsertProperties
    <3>5. Items(Insert(rest, 0, a)) = Items(s)
      BY <3>1, <3>4
    <3> QED BY <3>2, <3>3, <3>5, SameItemsSameLen
  <2> QED BY <1>2, <2>1
<1>6. to \in 0 .. Len(rest) /\ a \notin Items(rest)
  BY <1>2, <1>5
<1>7. Without(Insert(rest, to, a), {a}) = rest
  BY <1>1, <1>2, <1>6, WithoutInserted
<1> QED BY <1>3, <1>7 DEF a, rest

(* updateDrag() moves no icon but the one it drags, and loses none. *)
LEMMA RearrangedKeepsOthers ==
    ASSUME ModelsOK, NEW g \in Drags, Holds(g, homeModel, dockModel), NEW p \in Places
    PROVE  /\ DragOver(g, p).app = g.app
           /\ Without(Rearranged(homeModel, "home", g, p), {g.app})
                = Without(homeModel, {g.app})
           /\ Without(Rearranged(dockModel, "dock", g, p), {g.app})
                = Without(dockModel, {g.app})
           /\ Items(Rearranged(homeModel, "home", g, p)) = Items(homeModel)
           /\ Items(Rearranged(dockModel, "dock", g, p)) = Items(dockModel)
<1>1. DragOver(g, p).app = g.app
  BY DEF DragOver, Drags
<1>2. /\ Without(Rearranged(homeModel, "home", g, p), {g.app}) = Without(homeModel, {g.app})
      /\ Items(Rearranged(homeModel, "home", g, p)) = Items(homeModel)
  <2>1. CASE p # Away /\ g.source = "home" /\ p.over = "home"
    <3>1. g.index \in 0 .. Len(homeModel) - 1 /\ homeModel[g.index + 1] = g.app
      BY <2>1 DEF Holds, ModelsOK, Drags
    <3>2. Target(g, p) \in 0 .. Len(homeModel) - 1
      <4>1. homeModel # <<>>
        BY <3>1
      <4> QED BY <2>1, <4>1, TargetInRange
    <3>3. Rearranged(homeModel, "home", g, p) = MoveItem(homeModel, g.index, Target(g, p))
      BY <2>1 DEF Rearranged
    <3>4. Items(MoveItem(homeModel, g.index, Target(g, p))) = Items(homeModel)
      BY <3>1, <3>2, MoveItemProperties DEF ModelsOK
    <3>5. Without(MoveItem(homeModel, g.index, Target(g, p)), {g.app})
              = Without(homeModel, {g.app})
      BY <3>1, <3>2, MoveKeepsOthers DEF ModelsOK
    <3> QED BY <3>3, <3>4, <3>5
  <2>2. CASE ~(p # Away /\ g.source = "home" /\ p.over = "home")
    BY <2>2 DEF Rearranged
  <2> QED BY <2>1, <2>2
<1>3. /\ Without(Rearranged(dockModel, "dock", g, p), {g.app}) = Without(dockModel, {g.app})
      /\ Items(Rearranged(dockModel, "dock", g, p)) = Items(dockModel)
  <2>1. CASE p # Away /\ g.source = "dock" /\ p.over = "dock"
    <3>1. g.index \in 0 .. Len(dockModel) - 1 /\ dockModel[g.index + 1] = g.app
      BY <2>1 DEF Holds, ModelsOK, Drags
    <3>2. Target(g, p) \in 0 .. Len(dockModel) - 1
      <4>1. dockModel # <<>>
        BY <3>1
      <4> QED BY <2>1, <4>1, TargetInRange
    <3>3. Rearranged(dockModel, "dock", g, p) = MoveItem(dockModel, g.index, Target(g, p))
      BY <2>1 DEF Rearranged
    <3>4. Items(MoveItem(dockModel, g.index, Target(g, p))) = Items(dockModel)
      BY <3>1, <3>2, MoveItemProperties DEF ModelsOK
    <3>5. Without(MoveItem(dockModel, g.index, Target(g, p)), {g.app})
              = Without(dockModel, {g.app})
      BY <3>1, <3>2, MoveKeepsOthers DEF ModelsOK
    <3> QED BY <3>3, <3>4, <3>5
  <2>2. CASE ~(p # Away /\ g.source = "dock" /\ p.over = "dock")
    BY <2>2 DEF Rearranged
  <2> QED BY <2>1, <2>2
<1> QED BY <1>1, <1>2, <1>3

(* The preview is one move away from the registry and has its icons. *)
PreviewInv ==
    /\ PreviewIsOneMove
    /\ drag # NoDrag /\ ~stale =>
           Items(homeModel) = Items(homeOrder) /\ Items(dockModel) = Items(dockOrder)

(* Every step keeps it so. *)
LEMMA PreviewStep == DragInv /\ PreviewInv /\ [DragNext]_dragVars => PreviewInv'
<1> SUFFICES ASSUME DragInv, PreviewInv, [DragNext]_dragVars,
                    drag' # NoDrag, ~stale'
             PROVE  PreviewInv'
  BY DEF PreviewInv, PreviewIsOneMove
<1>1. /\ ModelsOK /\ stale \in BOOLEAN
      /\ drag = NoDrag => homeModel = homeOrder /\ dockModel = dockOrder
      /\ drag # NoDrag => drag \in Drags /\ Holds(drag, homeModel, dockModel)
  BY DragInvParts DEF ModelsMatchRegistry
<1>2. ASSUME NEW g \in Drags, Holds(g, homeModel, dockModel), NEW p \in Places,
             UpdateDrag(g, p), UNCHANGED vars,
             Without(homeModel, {g.app}) = Without(homeOrder, {g.app}),
             Without(dockModel, {g.app}) = Without(dockOrder, {g.app}),
             Items(homeModel) = Items(homeOrder), Items(dockModel) = Items(dockOrder)
      PROVE  PreviewInv'
  <2>1. drag'.app = g.app
    BY <1>1, <1>2, RearrangedKeepsOthers DEF UpdateDrag
  <2>2. /\ Without(homeModel', {g.app}) = Without(homeModel, {g.app})
        /\ Items(homeModel') = Items(homeModel)
    BY <1>1, <1>2, RearrangedKeepsOthers DEF UpdateDrag
  <2>3. /\ Without(dockModel', {g.app}) = Without(dockModel, {g.app})
        /\ Items(dockModel') = Items(dockModel)
    BY <1>1, <1>2, RearrangedKeepsOthers DEF UpdateDrag
  <2>4. homeOrder' = homeOrder /\ dockOrder' = dockOrder
    BY <1>2 DEF vars
  <2> QED BY <1>2, <2>1, <2>2, <2>3, <2>4 DEF PreviewInv, PreviewIsOneMove
<1>3. CASE UNCHANGED <<homeModel, dockModel, homeOrder, dockOrder, drag, stale>>
  BY <1>3 DEF PreviewInv, PreviewIsOneMove
<1>4. ASSUME NEW found \in Scans, NEW can \in BOOLEAN, StartShell(found, can)
      PROVE  FALSE
  <2>1. drag = NoDrag /\ drag' = drag
    BY <1>1, <1>4, DragInvParts DEF StartShell, Start
  <2> QED BY <2>1
<1>5. ASSUME NEW found \in Scans, ReloadHome(found) PROVE PreviewInv'
  <2>1. drag' = drag /\ (stale' <=> stale \/
            ((\/ apps' # apps \/ ~hasSaved
              \/ <<homeOrder', dockOrder'>> # <<homeOrder, dockOrder>>) /\ drag # NoDrag))
    BY <1>1, <1>5 DEF ReloadHome
  <2>2. UNCHANGED <<homeModel, dockModel, homeOrder, dockOrder, drag>> /\ ~stale
    BY <1>1, <1>5, <2>1 DEF ReloadHome
  <2> QED BY <2>2 DEF PreviewInv, PreviewIsOneMove
<1>6. ASSUME NEW source \in Sources, NEW i \in 1 .. Len(ManifestOrder),
             NEW p \in Places, StartDrag(source, i, p)
      PROVE  PreviewInv'
  <2> DEFINE model == IF source = "home" THEN homeModel ELSE dockModel
             g == [source |-> source, index |-> i - 1, app |-> model[i],
                   over |-> "away", target |-> -1]
  <2>1. i \in DOMAIN model /\ UpdateDrag(g, p) /\ UNCHANGED vars /\ drag = NoDrag
    BY <1>6 DEF StartDrag
  <2>2. model[i] \in Apps
    BY <1>1, <2>1 DEF ModelsOK
  <2>3. i - 1 \in Nat /\ (i - 1) + 1 = i
    BY ManifestAssumption
  <2>4. g \in Drags
    BY <2>2, <2>3 DEF Drags
  <2>5. Holds(g, homeModel, dockModel)
    BY <2>1, <2>3 DEF Holds
  <2> HIDE DEF g
  <2> QED BY <1>1, <1>2, <2>1, <2>4, <2>5
<1>7. ASSUME NEW p \in Places, MoveDrag(p) PROVE PreviewInv'
  <2>1. drag # NoDrag /\ ~stale /\ UpdateDrag(drag, p) /\ UNCHANGED vars
    BY <1>7 DEF MoveDrag
  <2> QED BY <1>1, <1>2, <2>1 DEF PreviewInv, PreviewIsOneMove
<1>8. CASE StopShell \/ \E p \in Places : FinishDrag(p)
  BY <1>8 DEF StopShell, FinishDrag
<1>9. CASE Done
  BY <1>9 DEF Done
<1>10. CASE UNCHANGED dragVars
  BY <1>3, <1>10 DEF dragVars, screen, vars
<1> QED BY <1>4, <1>5, <1>6, <1>7, <1>8, <1>9, <1>10 DEF DragNext

(* During a drag the screen is the registry's arrangement with only the    *)
(* dragged icon moved, after any number of moves to and fro.               *)
THEOREM PreviewMovesOneIcon == DragSpec => []PreviewIsOneMove
<1>1. DragInit => PreviewInv
  BY DEF DragInit, PreviewInv, PreviewIsOneMove
<1>2. PreviewInv => PreviewIsOneMove
  BY DEF PreviewInv
<1> QED BY <1>1, <1>2, DragInvHolds, PreviewStep, PTL DEF DragSpec
-----------------------------------------------------------------------------
(* A reorder request puts the icons it names in the order it has them, and *)
(* is the new order when it names all.                                     *)
LEMMA RequestedOrder ==
    ASSUME NEW ids \in Seq(Apps), NoDup(ids), NEW s \in Seq(Apps), NoDup(s)
    PROVE  /\ SameOrder(ids, Requested(ids, s), Items(ids) \cap Items(s))
           /\ Items(ids) = Items(s) => Requested(ids, s) = ids
<1> DEFINE sent == FirstOf(ids, Items(s))
           rest == Without(s, Items(sent))
<1>1. /\ sent \in Seq(Apps) /\ NoDup(sent)
      /\ Items(sent) = Items(ids) \cap Items(s)
  BY FirstOfProperties
<1>2. \A a, b \in Items(ids) \cap Items(s) : Before(sent, a, b) <=> Before(ids, a, b)
  BY FiltersKeepOrder
<1>3. Items(ids) = Items(s) => sent = ids
  BY FiltersKeep
<1> HIDE DEF sent
<1>4. rest \in Seq(Apps) /\ Items(rest) = Items(s) \ Items(sent)
  BY WithoutProperties
<1> HIDE DEF rest
<1>5. Requested(ids, s) = sent \o rest
  BY DEF Requested, sent, rest
<1>6. \A a, b \in Items(sent) : Before(sent \o rest, a, b) <=> Before(sent, a, b)
  <2> TAKE a, b \in Items(sent)
  <2>1. a \notin Items(rest) /\ b \notin Items(rest)
    BY <1>4
  <2> QED BY <1>1, <1>4, <2>1, ConcatKeepsOrder
<1>7. SameOrder(ids, Requested(ids, s), Items(ids) \cap Items(s))
  BY <1>1, <1>2, <1>5, <1>6 DEF SameOrder
<1>8. ASSUME Items(ids) = Items(s) PROVE Requested(ids, s) = ids
  <2>1. sent = ids /\ Items(rest) = {}
    BY <1>1, <1>3, <1>4, <1>8
  <2>2. \A i \in 1 .. Len(rest) : rest[i] \in Items(rest)
    BY <1>4 DEF Items
  <2>3. rest = <<>>
    BY <1>4, <2>1, <2>2
  <2>4. ids \o <<>> = ids
    OBVIOUS
  <2> QED BY <1>5, <2>1, <2>3, <2>4
<1> QED BY <1>7, <1>8

(* What a drop does to the order it lands in.                              *)
Lands(g, shown, order) ==
    /\ ~stale => g.target + 1 \in DOMAIN order /\ order[g.target + 1] = g.app
    /\ g.over = g.source => SameOrder(shown, order, Items(shown) \cap Items(order))

(* An icon released over the list it comes from.                           *)
LEMMA ReorderLands ==
    ASSUME NEW shown \in Seq(Apps), NoDup(shown), NEW s \in Seq(Apps), NoDup(s),
           NEW order, order = Requested(shown, s),
           NEW g \in Drags, g.target + 1 \in DOMAIN shown,
           shown[g.target + 1] = g.app, ~stale => Items(shown) = Items(s)
    PROVE  Lands(g, shown, order)
<1>1. Items(order) = Items(s)
  BY RequestedProperties
<1>2. SameOrder(shown, order, Items(shown) \cap Items(order))
  BY <1>1, RequestedOrder
<1>3. ~stale => order = shown
  BY RequestedOrder
<1> QED BY <1>2, <1>3 DEF Lands

(* Without a reload since its start, a drag that leaves its list finds the *)
(* other one as the registry has it.                                       *)
LEMMA OtherList ==
    ASSUME NEW m \in Seq(Apps), NoDup(m), NEW s \in Seq(Apps), NoDup(s),
           Items(m) = Items(s)
    PROVE  Len(m) = Len(s) /\ (m = <<>> <=> Len(s) = 0)
<1>1. Len(m) = Len(s)
  BY SameItemsSameLen
<1> QED BY <1>1

(* An icon of Home released over the dock takes the slot it was shown for. *)
LEMMA DockLands ==
    ASSUME LayoutInv, ModelsOK, ~stale,
           NEW id \in Items(homeOrder), Items(dockModel) = Items(dockOrder),
           NEW slot \in Nat,
           NEW target, target = DockTarget(dockModel, "home", slot),
           RequestToDock(id, target)
    PROVE  target + 1 \in DOMAIN dockOrder' /\ dockOrder'[target + 1] = id
<1>1. /\ dockOrder \in Seq(Apps) /\ NoDup(dockOrder) /\ Len(dockOrder) <= DockLimit
      /\ id \in Apps /\ id \in Items(apps) /\ id \notin Items(dockOrder)
  BY DEF LayoutInv, GoodLayout, Items
<1>2. Len(dockModel) = Len(dockOrder) /\ (dockModel = <<>> <=> Len(dockOrder) = 0)
  BY <1>1, OtherList DEF ModelsOK
<1>3. Len(dockOrder) \in Nat /\ DockLimit \in Nat /\ DockLimit > 0
  BY <1>1, DockLimitAssumption
<1>4. /\ target \in 0 .. Len(dockOrder)
      /\ Len(dockOrder) >= DockLimit => target \in 0 .. Len(dockOrder) - 1
  BY <1>2, <1>3 DEF DockTarget, Bound
<1>5. CASE DockApp(id, target)
  <2>1. dockOrder' = Insert(dockOrder, Bound(target, Len(dockOrder)), id)
    BY <1>5 DEF DockApp, Commit
  <2>2. Bound(target, Len(dockOrder)) = target
    BY <1>3, <1>4 DEF Bound
  <2>3. Insert(dockOrder, target, id)[target + 1] = id
    BY <1>1, <1>4, InsertedAt
  <2>4. /\ Insert(dockOrder, target, id) \in Seq(Apps)
        /\ Len(Insert(dockOrder, target, id)) = Len(dockOrder) + 1
    BY <1>1, <1>4, InsertProperties
  <2>5. target + 1 \in DOMAIN Insert(dockOrder, target, id)
    BY <1>3, <1>4, <2>4
  <2> QED BY <2>1, <2>2, <2>3, <2>5
<1>6. CASE SwapIntoDock(id, target)
  <2>1. /\ Len(dockOrder) >= DockLimit
        /\ dockOrder' = [dockOrder EXCEPT ![Bound(target, Len(dockOrder) - 1) + 1] = id]
    BY <1>6 DEF SwapIntoDock, Commit
  <2>2. Bound(target, Len(dockOrder) - 1) = target
    BY <1>3, <1>4, <2>1 DEF Bound
  <2>3. target + 1 \in DOMAIN dockOrder
    BY <1>1, <1>3, <1>4, <2>1
  <2> QED BY <1>1, <2>1, <2>2, <2>3
<1>7. ~ReorderDock(id, target)
  BY <1>1 DEF ReorderDock
<1> QED BY <1>1, <1>5, <1>6, <1>7 DEF RequestToDock

(* An icon of the dock released over Home takes the cell it was shown for. *)
LEMMA HomeLands ==
    ASSUME LayoutInv, ModelsOK, ~stale,
           NEW id \in Items(dockOrder), Items(homeModel) = Items(homeOrder),
           NEW slot \in Nat,
           NEW target, target = GridTarget(homeModel, "dock", slot),
           RequestToHome(id, target)
    PROVE  target + 1 \in DOMAIN homeOrder' /\ homeOrder'[target + 1] = id
<1>0. /\ homeOrder \in Seq(Apps) /\ NoDup(homeOrder) /\ dockOrder \in Seq(Apps)
      /\ Items(homeOrder) \cap Items(dockOrder) = {}
      /\ Items(dockOrder) \subseteq Items(apps)
  BY DEF LayoutInv, GoodLayout
<1>1. /\ homeOrder \in Seq(Apps) /\ NoDup(homeOrder)
      /\ id \in Apps /\ id \in Items(apps) /\ id \notin Items(homeOrder)
  <2>1. \A i \in DOMAIN dockOrder : dockOrder[i] \in Apps
    BY <1>0
  <2>2. id \in Apps
    BY <2>1 DEF Items
  <2> QED BY <1>0, <2>2
<1>2. Len(homeModel) = Len(homeOrder)
  BY <1>1, OtherList DEF ModelsOK
<1>3. Len(homeOrder) \in Nat
  BY <1>1
<1>4. target \in 0 .. Len(homeOrder) /\ Bound(target, Len(homeOrder)) = target
  BY <1>2, <1>3 DEF GridTarget, Bound
<1>5. Without(homeOrder, {id}) = homeOrder
  BY <1>1, FiltersKeep
<1>6. MoveAppToHome(id, target)
  BY <1>1 DEF RequestToHome
<1>7. homeOrder' = Insert(homeOrder, target, id)
  BY <1>4, <1>5, <1>6 DEF MoveAppToHome, Commit
<1>8. Insert(homeOrder, target, id)[target + 1] = id
  BY <1>1, <1>4, InsertedAt
<1>9. /\ Insert(homeOrder, target, id) \in Seq(Apps)
      /\ Len(Insert(homeOrder, target, id)) = Len(homeOrder) + 1
  BY <1>1, <1>4, InsertProperties
<1>10. target + 1 \in DOMAIN Insert(homeOrder, target, id)
  BY <1>3, <1>4, <1>9
<1> QED BY <1>7, <1>8, <1>10

(* What finishDrag() asks of the registry, for each list the icon comes    *)
(* from and each it is released over.                                      *)
LEMMA FinishLands ==
    ASSUME DragInv, PreviewInv, drag # NoDrag, NEW p \in Places, p # Away,
           NEW g, g = DragOver(drag, p),
           NEW h, h = Rearranged(homeModel, "home", drag, p),
           NEW d, d = Rearranged(dockModel, "dock", drag, p),
           Drop(g, h, d)
    PROVE  IF g.over = "home" THEN Lands(g, h, homeOrder') ELSE Lands(g, d, dockOrder')
<1>1. /\ ModelsOK /\ LayoutInv
      /\ drag \in Drags /\ Holds(drag, homeModel, dockModel)
  BY DragInvParts
<1>2. /\ g \in Drags /\ Holds(g, h, d)
      /\ h \in Seq(Apps) /\ NoDup(h) /\ d \in Seq(Apps) /\ NoDup(d)
  BY <1>1, DragOverProperties
<1>3. Items(h) = Items(homeModel) /\ Items(d) = Items(dockModel) /\ g.app = drag.app
  BY <1>1, RearrangedKeepsOthers
<1>4. ~stale => Items(homeModel) = Items(homeOrder) /\ Items(dockModel) = Items(dockOrder)
  BY DEF PreviewInv
<1>5. /\ g.source = drag.source /\ g.source \in Sources
      /\ g.over = p.over /\ p.over \in Sources /\ p.slot \in Nat
      /\ g.target = Target(drag, p)
      /\ p.over = drag.source => g.index = g.target
  BY <1>1, PlaceAssumption DEF DragOver, Drags, Places
<1>6. /\ homeOrder \in Seq(Apps) /\ NoDup(homeOrder)
      /\ dockOrder \in Seq(Apps) /\ NoDup(dockOrder) /\ Len(dockOrder) <= DockLimit
  BY <1>1 DEF LayoutInv, GoodLayout
<1>7. CASE g.source = "home" /\ g.over = "home"
  <2>1. RequestHome(h)
    BY <1>7 DEF Drop
  <2>2. homeOrder' = Requested(h, homeOrder)
    BY <2>1 DEF RequestHome, SetHomeOrder, Commit, vars
  <2>3. g.target + 1 \in DOMAIN h /\ h[g.target + 1] = g.app
    BY <1>2, <1>5, <1>7 DEF Holds
  <2>4. Lands(g, h, homeOrder')
    BY <1>2, <1>3, <1>4, <1>6, <2>2, <2>3, ReorderLands
  <2> QED BY <1>7, <2>4
<1>8. CASE g.source = "dock" /\ g.over = "dock"
  <2>1. RequestDock(d)
    BY <1>8 DEF Drop
  <2>2. dockOrder' = Truncate(Requested(d, dockOrder), DockLimit)
    BY <2>1 DEF RequestDock, SetDockOrder, Commit, vars
  <2>3. /\ Requested(d, dockOrder) \in Seq(Apps)
        /\ Len(Requested(d, dockOrder)) <= DockLimit
    BY <1>2, <1>6, RequestedProperties
  <2>4. dockOrder' = Requested(d, dockOrder)
    BY <2>2, <2>3, DockLimitAssumption, TruncateProperties
  <2>5. g.target + 1 \in DOMAIN d /\ d[g.target + 1] = g.app
    BY <1>2, <1>5, <1>8 DEF Holds
  <2>6. Lands(g, d, dockOrder')
    BY <1>2, <1>3, <1>4, <1>6, <2>4, <2>5, ReorderLands
  <2> QED BY <1>8, <2>6
<1>9. CASE g.source = "home" /\ g.over = "dock"
  <2>1. RequestToDock(g.app, g.target)
    BY <1>9 DEF Drop
  <2>2. g.target = DockTarget(dockModel, "home", p.slot)
    BY <1>5, <1>9 DEF Target
  <2>3. g.app \in Items(homeModel)
    BY <1>1, <1>3, <1>5, <1>9 DEF Holds, Items
  <2>4. ~stale => g.target + 1 \in DOMAIN dockOrder' /\ dockOrder'[g.target + 1] = g.app
    BY <1>1, <1>4, <1>5, <2>1, <2>2, <2>3, DockLands
  <2> QED BY <1>9, <2>4 DEF Lands
<1>10. CASE g.source = "dock" /\ g.over = "home"
  <2>1. RequestToHome(g.app, g.target)
    BY <1>10 DEF Drop
  <2>2. g.target = GridTarget(homeModel, "dock", p.slot)
    BY <1>5, <1>10 DEF Target
  <2>3. g.app \in Items(dockModel)
    BY <1>1, <1>3, <1>5, <1>10 DEF Holds, Items
  <2>4. ~stale => g.target + 1 \in DOMAIN homeOrder' /\ homeOrder'[g.target + 1] = g.app
    BY <1>1, <1>4, <1>5, <2>1, <2>2, <2>3, HomeLands
  <2> QED BY <1>10, <2>4 DEF Lands
<1> QED BY <1>5, <1>7, <1>8, <1>9, <1>10 DEF Sources

(* An icon is dropped where the screen showed it, and an order that was    *)
(* reloaded during the drag keeps what the preview showed of it.           *)
THEOREM DropsLandWhereShown == DragSpec => DropLandsWhereShown
<1> DEFINE shown(p, g) == IF g.over = "home" THEN Rearranged(homeModel, "home", drag, p)
                          ELSE Rearranged(dockModel, "dock", drag, p)
           order(g) == IF g.over = "home" THEN homeOrder' ELSE dockOrder'
           lands(p, g) == /\ ~stale => /\ g.target + 1 \in DOMAIN order(g)
                                       /\ order(g)[g.target + 1] = g.app
                          /\ g.over = g.source =>
                                 SameOrder(shown(p, g), order(g),
                                           Items(shown(p, g)) \cap Items(order(g)))
           All == drag # NoDrag /\ drag' = NoDrag =>
                      \A p \in Places \ {Away} :
                          lands(p, DragOver(drag, p)) \/ ~FinishDrag(p)
<1>1. DragInv /\ PreviewInv => All
  <2> SUFFICES ASSUME DragInv, PreviewInv, drag # NoDrag,
                      NEW p \in Places, p # Away, FinishDrag(p)
               PROVE  lands(p, DragOver(drag, p))
    OBVIOUS
  <2> DEFINE g == DragOver(drag, p)
             h == Rearranged(homeModel, "home", drag, p)
             d == Rearranged(dockModel, "dock", drag, p)
  <2>1. Drop(g, h, d)
    BY DEF FinishDrag
  <2>2. IF g.over = "home" THEN Lands(g, h, homeOrder') ELSE Lands(g, d, dockOrder')
    BY <2>1, FinishLands
  <2>3. CASE g.over = "home"
    <3>1. shown(p, g) = h /\ order(g) = homeOrder' /\ Lands(g, h, homeOrder')
      BY <2>2, <2>3
    <3> HIDE DEF g, h, shown, order
    <3> QED BY <3>1 DEF Lands, g
  <2>4. CASE g.over # "home"
    <3>1. shown(p, g) = d /\ order(g) = dockOrder' /\ Lands(g, d, dockOrder')
      BY <2>2, <2>4
    <3> HIDE DEF g, d, shown, order
    <3> QED BY <3>1 DEF Lands, g
  <2> QED BY <2>3, <2>4
<1>2. DragInit => PreviewInv
  BY DEF DragInit, PreviewInv, PreviewIsOneMove
<1>3. All <=> (drag # NoDrag /\ drag' = NoDrag =>
        \A p \in Places \ {Away} :
            LET g == DragOver(drag, p)
                sh == IF g.over = "home" THEN Rearranged(homeModel, "home", drag, p)
                      ELSE Rearranged(dockModel, "dock", drag, p)
                o == IF g.over = "home" THEN homeOrder' ELSE dockOrder'
                l == /\ ~stale => /\ g.target + 1 \in DOMAIN o
                                 /\ o[g.target + 1] = g.app
                     /\ g.over = g.source => SameOrder(sh, o, Items(sh) \cap Items(o))
            IN  l \/ ~FinishDrag(p))
  OBVIOUS
<1> HIDE DEF All
<1> QED BY <1>1, <1>2, <1>3, DragInvHolds, PreviewStep, PTL DEF DragSpec, DropLandsWhereShown
=============================================================================
