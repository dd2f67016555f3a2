------------------------------- MODULE MCSdk -------------------------------
(* Two programs for TLC: one of root, and one that no socket admits. *)
EXTENDS Sdk, TLC
CONSTANTS app, other
MCApps == {app, other}
MCAdmitted == [d \in {Lumad, Lmsd} |-> {app}]
=============================================================================
