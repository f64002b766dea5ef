--------------------------- MODULE MCPaidArchive ---------------------------
(* PaidArchive instantiated for TLC: a download with two attempts, and one of
   the gallery that was removed or completed and is downloaded again. *)
EXTENDS PaidArchive, TLC
Downloads == 1..2
Attempts == <<2, 1>>
Symmetry == Permutations(Account)
=============================================================================
