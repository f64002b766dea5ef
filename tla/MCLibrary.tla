----------------------------- MODULE MCLibrary -----------------------------
(* Library instantiated for TLC; works and paths are interchangeable. *)
EXTENDS Library, TLC

Symmetry == Permutations(Work) \cup Permutations(Path)
=============================================================================
