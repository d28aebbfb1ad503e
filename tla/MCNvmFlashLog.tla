--------------------------- MODULE MCNvmFlashLog ---------------------------
(***************************************************************************)
(* NvmFlashLog with three ids, a content of one unit and one of two, and a *)
(* partition of three units: space and entries run out in turn.            *)
(***************************************************************************)
EXTENDS NvmFlashLog, TLC

CONSTANTS a, b, c, v0, v1

MCId == {a, b, c}
MCVal == {v0, v1}
MCUnitsOf == v0 :> 1 @@ v1 :> 2
Symmetry == Permutations(MCId)
=============================================================================
