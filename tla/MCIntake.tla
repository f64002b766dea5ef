------------------------------ MODULE MCIntake ------------------------------
(* Intake instantiated for TLC. *)
EXTENDS Intake, TLC
CONSTANTS m1, m2, a1, a2

\* Two messages, each seen by an account of its own; or both by one account.
Posts2 == {<<m1, a1>>, <<m2, a2>>}
Posts1 == {<<m1, a1>>, <<m2, a1>>}
Works2 == 1 .. 2
Swap == {[x \in {m1, m2, a1, a2} |-> x], m1 :> m2 @@ m2 :> m1 @@ a1 :> a2 @@ a2 :> a1}

\* The administrator adds nothing.
ChannelSpec == Init /\ [][Next /\ \A g \in Gallery : ~AddGallery(g)]_vars
=============================================================================
