--------------------------- MODULE WorkSlot_proofs ---------------------------
(***************************************************************************)
(* What follows from the promise of WorkSlot, and so for every system that *)
(* implements it: one producer for each work.                              *)
(***************************************************************************)
EXTENDS WorkSlot, TLAPS

\* What every step keeps.
SlotInv == TypeOK /\ ProducersHoldSlots

\* Every change of the slots keeps the producers among their holders.
LEMMA SlotInductive ==
    ASSUME None \notin TaskId, SlotInv, [Next]_vars
    PROVE  SlotInv'
  <1> USE DEF SlotInv, TypeOK, ProducersHoldSlots
  <1>1. CASE UNCHANGED vars
    BY <1>1 DEF vars
  <1>2. CASE End
    BY <1>2 DEF End
  <1>3. ASSUME NEW w \in Work, Start(w) PROVE SlotInv'
    BY <1>3 DEF Start
  <1>4. ASSUME NEW w \in Work, Release(w) PROVE SlotInv'
    BY <1>4 DEF Release
  <1>5. ASSUME NEW w \in Work, NEW t \in TaskId, Take(w, t) PROVE SlotInv'
    BY <1>5 DEF Take
  <1>6. ASSUME NEW w \in Work, NEW t \in TaskId, HandOver(w, t) PROVE SlotInv'
    BY <1>6 DEF HandOver
  <1> QED BY <1>1, <1>2, <1>3, <1>4, <1>5, <1>6 DEF Next

\* Whatever still produces for a work does so for the one task that holds its slot: the
\* abstract promise of the queue implies that two sources of a work never download at once.
THEOREM ProducersHoldTheSlot ==
    ASSUME None \notin TaskId
    PROVE  Spec => []ProducersHoldSlots
  <1>1. Init => SlotInv
    BY DEF Init, SlotInv, TypeOK, ProducersHoldSlots
  <1>2. SlotInv => ProducersHoldSlots
    BY DEF SlotInv
  <1>3. SlotInv /\ [Next]_vars => SlotInv'
    BY SlotInductive
  <1> QED BY <1>1, <1>2, <1>3, PTL DEF Spec
=============================================================================
