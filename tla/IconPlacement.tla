---------------------------- MODULE IconPlacement ----------------------------
(***************************************************************************)
(* What AppRegistry promises about the icons, without their order and      *)
(* without lists: an application has one place at most, Home or the dock;  *)
(* what the user arranged changes only where a drop says so; and a start   *)
(* of the shell brings back what the file keeps.                           *)
(***************************************************************************)
CONSTANTS
    Ids,      \* every application id
    HomeIds,  \* those that belong on Home
    DockIds,  \* those the default layout wants in the dock
    Docks     \* the sets of icons that the dock can hold

VARIABLES
    running,    \* the shell is alive
    installed,  \* the applications the last scan found
    home,       \* the icons on Home
    dock,       \* the icons in the dock
    arranged,   \* the arrangement is the user's, not the default
    kept        \* the placement the file keeps: one, or none when the file
                \* is missing, unreadable, or of another build

vars == <<running, installed, home, dock, arranged, kept>>

(* The new placement gets into the file, or it does not. *)
Save(was) ==
    \/ /\ arranged' = TRUE
       /\ kept' = {[home |-> home', dock |-> dock']}
    \/ /\ arranged' = was
       /\ UNCHANGED kept

(* Placement p for the applications found: what is gone leaves its place,  *)
(* and what is new goes to Home.                                           *)
Follow(p, found) ==
    /\ dock' = p.dock \cap found
    /\ home' = ((p.home \cup HomeIds) \cap found) \ p.dock

(* The default: the dock takes as many as it can hold of those it wants. *)
Default(found) ==
    /\ dock' \in Docks
    /\ dock' \subseteq DockIds \cap found
    /\ \A a \in (DockIds \cap found) \ dock' : dock' \cup {a} \notin Docks
    /\ home' = (HomeIds \cap found) \ dock'

(* Any placement that has each application once. *)
SomeGood(found) ==
    /\ dock' \in Docks
    /\ home' \cap dock' = {}
    /\ HomeIds \cap found \subseteq home' \cup dock'
    /\ home' \cup dock' \subseteq found

-----------------------------------------------------------------------------
Init ==
    /\ running = FALSE
    /\ installed = {}
    /\ home = {}
    /\ dock = {}
    /\ arranged = FALSE
    /\ kept \in SUBSET [home : SUBSET Ids, dock : SUBSET Ids]

(* The shell starts: it goes on from the file, or cannot read it. *)
Start(found) ==
    /\ ~running
    /\ running' = TRUE
    /\ installed' = found
    /\ \/ \E p \in kept : Follow(p, found) /\ Save(TRUE)
       \/ Default(found) /\ Save(FALSE)
       \/ kept = {} /\ SomeGood(found) /\ Save(TRUE)

Stop ==
    /\ running
    /\ running' = FALSE
    /\ installed' = {}
    /\ home' = {}
    /\ dock' = {}
    /\ arranged' = FALSE
    /\ UNCHANGED kept

Reload(found) ==
    /\ running
    /\ installed' = found
    /\ IF arranged THEN Follow([home |-> home, dock |-> dock], found) ELSE Default(found)
    /\ Save(arranged)
    /\ UNCHANGED running

Place(h, d) ==
    /\ running
    /\ home' = h
    /\ dock' = d
    /\ Save(arranged)
    /\ UNCHANGED <<running, installed>>

(* An icon moves within its list. *)
Reorder == Place(home, dock)

ToHome(a) == a \in installed /\ Place(home \cup {a}, dock \ {a})

ToDock(a) ==
    /\ a \in installed \ dock
    /\ dock \cup {a} \in Docks
    /\ Place(home \ {a}, dock \cup {a})

(* The dock is full: the icon of one slot gives it up for a place on Home. *)
Swap(a, b) ==
    /\ a \in installed \ dock
    /\ b \in dock
    /\ dock \cup {a} \notin Docks
    /\ Place((home \ {a}) \cup {b}, (dock \ {b}) \cup {a})

Reset ==
    /\ running
    /\ Default(installed)
    /\ Save(arranged)
    /\ UNCHANGED <<running, installed>>

Next ==
    \/ \E found \in SUBSET Ids : Start(found) \/ Reload(found)
    \/ Stop
    \/ Reorder
    \/ \E a \in Ids : ToHome(a) \/ ToDock(a) \/ (\E b \in Ids : Swap(a, b))
    \/ Reset

Spec == Init /\ [][Next]_vars
=============================================================================
