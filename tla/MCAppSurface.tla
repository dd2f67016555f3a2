---------------------------- MODULE MCAppSurface ----------------------------
(* Two applications with up to two pages above their root, for TLC. *)
EXTENDS AppSurface, TLC
CONSTANTS music, maps
MCAppIds == {music, maps}
=============================================================================
