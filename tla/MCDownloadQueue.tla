-------------------------- MODULE MCDownloadQueue --------------------------
(***************************************************************************)
(* Small instances of the download queue for TLC.  The identities of tasks *)
(* and executions are interchangeable (the program compares UUIDs only for *)
(* equality), so safety is checked up to their permutation.                *)
(***************************************************************************)
EXTENDS DownloadQueue, TLC

Symmetry == Permutations(TaskId) \union Permutations(AttemptId)
=============================================================================
