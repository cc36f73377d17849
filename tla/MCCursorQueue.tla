--------------------------- MODULE MCCursorQueue ---------------------------
(***************************************************************************)
(* Bounds for TLC: interchangeable callers and ids.                        *)
(***************************************************************************)
EXTENDS CursorQueue, TLC

Symmetry == Permutations(Callers) \cup Permutations(Ids)

============================================================================
