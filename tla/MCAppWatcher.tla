---------------------------- MODULE MCAppWatcher ----------------------------
(* An application with its manifest in a top directory and one with its    *)
(* own subdirectory, for TLC.  The arrangement of the icons has a run of   *)
(* its own: here it is only reset.                                         *)
EXTENDS AppWatcher, TLC

CONSTANTS music, notes

MCManifestOrder == <<music, notes>>
MCHomeApps == {music}
MCNested == {notes}
=============================================================================
