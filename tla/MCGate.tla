------------------------------ MODULE MCGate ------------------------------
(***************************************************************************)
(* A small gradient for TLC: three tiers, the middle one with two tools.   *)
(***************************************************************************)
EXTENDS Gate

CONSTANTS floorTool, midTool, midTool2, topTool

MCTools  == {floorTool, midTool, midTool2, topTool}
MCTierOf == [t \in MCTools |-> CASE t = floorTool -> 1
                                 [] t = topTool   -> 3
                                 [] OTHER         -> 2]
=============================================================================
