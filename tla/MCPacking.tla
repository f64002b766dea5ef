----------------------------- MODULE MCPacking -----------------------------
(* Packing instantiated for TLC. *)
EXTENDS Packing, TLC

Symmetry == Permutations(Keeper) \union Permutations(Content)
=============================================================================
