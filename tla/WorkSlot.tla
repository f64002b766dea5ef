------------------------------ MODULE WorkSlot ------------------------------
(***************************************************************************)
(* What the download queue promises about one work: its slot is held by at *)
(* most one task, and it is given up only when nothing produces bytes for  *)
(* that task any more, neither here nor in the torrent client.             *)
(***************************************************************************)
CONSTANTS Work, TaskId, None

VARIABLES
    holder,     \* the task that holds the slot of each work
    producing   \* tasks something still produces bytes for

vars == <<holder, producing>>

Init ==
    /\ holder = [w \in Work |-> None]
    /\ producing = {}

\* A free slot goes to a task; nothing is producing for it yet.
Take(w, t) ==
    /\ holder[w] = None
    /\ t \notin producing
    /\ \A v \in Work : holder[v] # t
    /\ holder' = [holder EXCEPT ![w] = t]
    /\ UNCHANGED producing

\* Only the holder of a slot starts to produce.
Start(w) ==
    /\ holder[w] # None
    /\ producing' = producing \union {holder[w]}
    /\ UNCHANGED holder

\* Executions and transfers end, several at once when the process is lost.
End ==
    /\ producing' \in SUBSET producing
    /\ UNCHANGED holder

\* The slot is given up once, or just as, its producer ends.
Release(w) ==
    /\ holder[w] # None
    /\ holder' = [holder EXCEPT ![w] = None]
    /\ producing' = producing \ {holder[w]}

\* The slot goes to a successor in one step, so nobody else can take it in between.
HandOver(w, t) ==
    /\ holder[w] # None
    /\ holder[w] \notin producing
    /\ t \notin producing
    /\ \A v \in Work : holder[v] # t
    /\ holder' = [holder EXCEPT ![w] = t]
    /\ UNCHANGED producing

Next ==
    \/ End
    \/ \E w \in Work : Start(w) \/ Release(w)
    \/ \E w \in Work, t \in TaskId : Take(w, t) \/ HandOver(w, t)

Spec == Init /\ [][Next]_vars

-----------------------------------------------------------------------------

TypeOK ==
    /\ holder \in [Work -> TaskId \union {None}]
    /\ producing \subseteq TaskId

\* Whatever is still producing does so for the work whose slot its task holds,
\* and no task holds two slots: one producer for each work at any time.
ProducersHoldSlots ==
    /\ \A t \in producing : \E w \in Work : holder[w] = t
    /\ \A v, w \in Work : holder[v] = holder[w] /\ holder[v] # None => v = w
=============================================================================
