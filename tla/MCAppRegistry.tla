---------------------------- MODULE MCAppRegistry ----------------------------
(* A registry of three applications and a dock of two for TLC.              *)
EXTENDS AppRegistry, TLC

CONSTANTS phone, music, files

MCManifestOrder == <<phone, music, files>>
MCHomeApps == {phone, files}
MCDockApps == {phone, music}

(* Files of earlier builds: one in the form saveLayout() writes, and one   *)
(* with an id twice, in both lists, and more dock icons than slots.        *)
MCOldLayouts ==
    {[home |-> <<files, phone>>, dock |-> <<music>>],
     [home |-> <<files, phone, files>>, dock |-> <<files, phone, files, music>>]}

(* Lists HomeScreen may have built from a model older than the registry.   *)
MCRequests ==
    {s \in UNION {[1 .. n -> Apps] : n \in 0 .. 3} : NoDup(s)}

MCIndices == -1 .. 3
=============================================================================
