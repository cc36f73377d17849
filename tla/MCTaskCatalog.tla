--------------------------- MODULE MCTaskCatalog ---------------------------
(***************************************************************************)
(* Bounds for TLC: TaskCatalog with interchangeable tasks, workers and     *)
(* texts.  The symmetry is sound because every checked property is an      *)
(* invariant or an action property.                                        *)
(***************************************************************************)
EXTENDS TaskCatalog, TLC

Symmetry ==
  Permutations(Tasks) \cup Permutations(Workers) \cup Permutations(Bodies)

============================================================================
