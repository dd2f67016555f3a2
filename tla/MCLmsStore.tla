----------------------------- MODULE MCLmsStore -----------------------------
(* Two applications and the two tokens the code knows, for TLC. *)
EXTENDS LmsStore, TLC
CONSTANTS music, maps
MCApps == {music, maps}
MCPerms == {Star, Post}

(* After a write was cut short, which stays so, nothing in the module reads *)
(* what was answered before.                                               *)
View ==
    <<running, store, clock, counter, run, committed, damaged,
      IF damaged THEN <<>> ELSE <<registered, posted>>>>
=============================================================================
