------------------------------- MODULE MCLumaVM -------------------------------
(* Three machines, started one after the other, for TLC.                    *)
EXTENDS LumaVM, TLC

MachineSymmetry == Permutations(Machines)
=============================================================================
