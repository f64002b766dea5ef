----------------------------- MODULE MCAccounts -----------------------------
(* Accounts instantiated for TLC.  The accounts are interchangeable, and
   liveness forbids a symmetry set: the downloads start on the first one. *)
EXTENDS Accounts
CONSTANT First
FirstInit == Init /\ \A k \in Task : queue[k].acct = First
FirstSpec == FirstInit /\ [][Next]_vars /\ Fairness
=============================================================================
