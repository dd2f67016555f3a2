----------------------------- MODULE MCServices -----------------------------
(* One program for TLC, of root; lmsd is the second caller of lumad. *)
EXTENDS Services, TLC
CONSTANTS app
MCOneApp == {app}
MCAdmitted == [d \in {Lumad, Lmsd} |-> {app}]
=============================================================================
