------------------------- MODULE MCDependencySync -------------------------
(* podiumd published or from a checkout; processes are alike. *)
EXTENDS DependencySync, TLC

MCSelection(c) == {"4.10"} \cup (IF c = "podiumd" THEN {"path"} ELSE {})
Symmetry == Permutations(Command)
=============================================================================
