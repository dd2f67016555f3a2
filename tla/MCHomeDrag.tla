------------------------------ MODULE MCHomeDrag ------------------------------
(* Three applications, a dock of two and a grid of three cells for TLC.     *)
EXTENDS HomeDrag, TLC

CONSTANTS phone, music, files

MCManifestOrder == <<phone, music, files>>
MCHomeApps == {phone, files}
MCDockApps == {phone, music}
MCOldLayouts == {}
MCRequests ==
    {s \in UNION {[1 .. n -> Apps] : n \in 0 .. 3} : NoDup(s)}
MCIndices == 0 .. 3
MCScans == {Apps, Apps \ {phone}}
MCSlots == 0 .. 2
=============================================================================
