------------------------ MODULE DownloadQueue_proofs ------------------------
(***************************************************************************)
(* The theorems about the rows of the download queue: the invariant Inv,   *)
(* that it is preserved by every change of one of ten shapes, and that     *)
(* every action has one of these shapes; there is one lemma for each       *)
(* action.                                                                 *)
(***************************************************************************)
EXTENDS DownloadQueue, TLAPS

-----------------------------------------------------------------------------
(* What the triggers do to a row. *)

\* What the mirror trigger makes of a task row.
LEMMA MirrorLemma ==
    ASSUME NEW r \in TaskRow, NEW s \in JobState
    PROVE  /\ Mirror(r, s) \in TaskRow
           /\ Mirror(r, s).job = r.job
           /\ Mirror(r, s).attempt = r.attempt
           /\ Mirror(r, s).status = s
           /\ Mirror(r, s).generation = IF s # r.status /\ s \in {"STOPPING", "CANCELLED"} THEN r.generation + 1 ELSE r.generation
  <1> DEFINE g == IF s # r.status /\ s \in {"STOPPING", "CANCELLED"} THEN r.generation + 1 ELSE r.generation
  <1>1. /\ r.generation \in Nat
        /\ r = [job |-> r.job, status |-> r.status, generation |-> r.generation, attempt |-> r.attempt]
    BY DEF TaskRow
  <1>2. g \in Nat
    BY <1>1
  <1>3. Mirror(r, s) = [r EXCEPT !.status = s, !.generation = g]
    BY DEF Mirror
  <1> HIDE DEF g
  <1>4. [r EXCEPT !.status = s, !.generation = g] \in TaskRow
    BY <1>2 DEF TaskRow
  <1>5. /\ [r EXCEPT !.status = s, !.generation = g].job = r.job
        /\ [r EXCEPT !.status = s, !.generation = g].attempt = r.attempt
        /\ [r EXCEPT !.status = s, !.generation = g].status = s
        /\ [r EXCEPT !.status = s, !.generation = g].generation = g
    BY <1>2 DEF TaskRow
  <1> QED BY <1>3, <1>4, <1>5 DEF g

\* What the trigger makes of an execution row: nothing once it is finished.
LEMMA RecordLemma ==
    ASSUME NEW r \in AttemptRow, NEW s \in JobState
    PROVE  /\ Record(r, s) \in AttemptRow
           /\ Record(r, s).task = r.task
           /\ Record(r, s).generation = r.generation
           /\ Record(r, s).resource = r.resource
           /\ Record(r, s).payload = r.payload
           /\ Record(r, s).status = IF r.finished THEN r.status ELSE s
           /\ Record(r, s).finished <=> r.finished \/ s \in Terminal
  <1>1. CASE r.finished
    BY <1>1 DEF Record, AttemptRow
  <1>2. CASE ~r.finished
    <2> DEFINE f == s \in Terminal
    <2>1. f \in BOOLEAN
      OBVIOUS
    <2>2. Record(r, s) = [r EXCEPT !.status = s, !.finished = f]
      BY <1>2 DEF Record
    <2>3. r.finished = FALSE
      BY <1>2 DEF AttemptRow
    <2> HIDE DEF f
    <2>4. [r EXCEPT !.status = s, !.finished = f] \in AttemptRow
      BY <2>1 DEF AttemptRow
    <2>5. [r EXCEPT !.status = s, !.finished = f].finished = f
      BY <2>1 DEF AttemptRow
    <2>6. /\ [r EXCEPT !.status = s, !.finished = f].task = r.task
          /\ [r EXCEPT !.status = s, !.finished = f].generation = r.generation
          /\ [r EXCEPT !.status = s, !.finished = f].resource = r.resource
          /\ [r EXCEPT !.status = s, !.finished = f].payload = r.payload
          /\ [r EXCEPT !.status = s, !.finished = f].status = s
      BY <2>1 DEF AttemptRow
    <2> QED BY <2>2, <2>3, <2>4, <2>5, <2>6 DEF f
  <1> QED BY <1>1, <1>2

\* A state written through the triggers changes one task and its current execution.
LEMMA SetStateLemma ==
    ASSUME NEW j \in Job, NEW s \in JobState, TypeOK, job[j].task \in TaskId, SetState(j, s)
    PROVE  /\ task' \in [TaskId -> TaskRow]
           /\ attempt' \in [AttemptId -> AttemptRow]
           /\ leased' \subseteq AttemptId
           /\ \A t \in TaskId : t # job[j].task => task'[t] = task[t]
           /\ task'[job[j].task] = Mirror(task[job[j].task], s)
           /\ \A a \in AttemptId : attempt'[a] = IF a = AttemptOf(j) THEN Record(attempt[a], s) ELSE attempt[a]
  <1> USE MirrorLemma, RecordLemma, ConstantsAssumption
  <1>1. task' \in [TaskId -> TaskRow]
    BY DEF TypeOK, SetState
  <1>2. attempt' \in [AttemptId -> AttemptRow]
    <2>1. attempt \in [AttemptId -> AttemptRow]
      BY DEF TypeOK
    <2>2. CASE AttemptOf(j) = None
      BY <2>1, <2>2 DEF SetState
    <2>3. CASE AttemptOf(j) # None
      BY <2>1, <2>3 DEF SetState
    <2> QED BY <2>2, <2>3
  <1>3. leased' \subseteq AttemptId
    BY DEF TypeOK, SetState
  <1>4. \A t \in TaskId : t # job[j].task => task'[t] = task[t]
    BY DEF TypeOK, SetState
  <1>5. task'[job[j].task] = Mirror(task[job[j].task], s)
    BY DEF TypeOK, SetState
  <1>6. \A a \in AttemptId : attempt'[a] = IF a = AttemptOf(j) THEN Record(attempt[a], s) ELSE attempt[a]
    BY DEF TypeOK, SetState
  <1> QED BY <1>1, <1>2, <1>3, <1>4, <1>5, <1>6

-----------------------------------------------------------------------------
(* What an action does to the rows, to the executions and to the operations *)
(* comes in few shapes.  Each invariant is shown over the shapes, and each  *)
(* action is shown to have one of them.                                     *)

RowKept(i) == job'[i].state = job[i].state /\ job'[i].task = job[i].task

\* Row j keeps its task and goes to state s.
Moved(j, s) ==
    LET t == job[j].task IN
    /\ t \in TaskId
    /\ job'[j].state = s
    /\ job'[j].task = t
    /\ \A i \in Job \ {j} : RowKept(i)
    /\ \A u \in TaskId \ {t} : task'[u] = task[u]
    /\ task'[t].job = task[t].job
    /\ task'[t].status = s
    /\ task'[t].attempt = task[t].attempt
    /\ task'[t].generation = IF s # task[t].status /\ s \in {"STOPPING", "CANCELLED"}
                             THEN task[t].generation + 1 ELSE task[t].generation

\* Row k goes on as the new task u, and task p.task is left behind with status s.
Renewed(k, u) ==
    /\ u \in UnusedTask
    /\ job'[k].state = "PENDING"
    /\ job'[k].task = u
    /\ task'[u].job = k
    /\ task'[u].status = "PENDING"
    /\ task'[u].attempt = None

\* Nothing happens to the past of executions, and only Claim uses a new identity.
AttemptKept(a) ==
    IF attempt[a].status = "NONE"
    THEN attempt'[a] = attempt[a]
    ELSE /\ attempt'[a].task = attempt[a].task
         /\ attempt'[a].status # "NONE"
         /\ attempt[a].finished => attempt'[a].finished /\ attempt'[a].status = attempt[a].status
AttemptsKept == \A a \in AttemptId : AttemptKept(a)

RowsKept == task' = task /\ \A i \in Job : RowKept(i)

Quiet == RowsKept /\ AttemptsKept /\ ops' = ops

\* A row that is not being stopped moves on.
Advance(j, s) ==
    /\ Moved(j, s)
    /\ AttemptsKept
    /\ ops' = ops
    /\ job[j].state \notin {"NONE", "STOPPING", "CANCELLED"}
    /\ s \notin {"NONE", "STOPPING"}
    /\ s \in Occupying => SlotFree(j)
    /\ s \in {"DOWNLOADING", "WAITING_TORRENT"} => AttemptOf(j) # None

Claimed(j, a) ==
    LET t == job[j].task IN
    /\ job[j].state = "PENDING"
    /\ a \in UnusedAttempt
    /\ job'[j].state = "DOWNLOADING"
    /\ job'[j].task = t
    /\ \A i \in Job \ {j} : RowKept(i)
    /\ \A u \in TaskId \ {t} : task'[u] = task[u]
    /\ task'[t].job = task[t].job
    /\ task'[t].status = "DOWNLOADING"
    /\ task'[t].attempt = a
    /\ task'[t].generation = task[t].generation
    /\ \A b \in AttemptId \ {a} : AttemptKept(b)
    /\ attempt'[a].task = t
    /\ attempt'[a].status = "DOWNLOADING"
    /\ ops' = ops

Stopped(j, action, target, exhausted, interrupt) ==
    /\ Moved(j, "STOPPING")
    /\ AttemptsKept
    /\ job[j].state \notin {"NONE", "STOPPING"}
    /\ SlotFree(j)
    /\ ~HasOperation(job[j].task)
    /\ action # "stop-seeding"
    /\ action = "switch-source" => target \in Provider
    /\ ops' = ops \union {NewOperation(j, action, target, exhausted, interrupt)}

Released(j, s, p) ==
    /\ Moved(j, s)
    /\ AttemptsKept
    /\ job[j].state = "STOPPING"
    /\ s \in {"CANCELLED", "FAILED", "PENDING"}
    /\ p \in ops
    /\ p.task = job[j].task
    /\ p.action # "stop-seeding"
    /\ ops' = ops \ {p}

Requeued(j, u) ==
    /\ Renewed(j, u)
    /\ AttemptsKept
    /\ job[j].state \in Terminal \union {"NONE"}
    /\ SlotFree(j)
    /\ \A i \in Job \ {j} : RowKept(i)
    /\ \A t \in TaskId \ {u} : task'[t] = task[t]
    /\ ops' = ops

Succeeded(j, k, u, p) ==
    /\ Renewed(k, u)
    /\ AttemptsKept
    /\ job[j].state = "STOPPING"
    /\ WorkOf(k) = WorkOf(j)
    /\ k # j => job'[j].state = "CANCELLED" /\ job'[j].task = job[j].task
    /\ \A i \in Job \ {j, k} : RowKept(i)
    /\ \A t \in TaskId \ {u, job[j].task} : task'[t] = task[t]
    /\ task'[job[j].task] = Mirror(task[job[j].task], "CANCELLED")
    /\ p \in ops
    /\ p.task = job[j].task
    /\ p.action # "stop-seeding"
    /\ ops' = ops \ {p}

SeedingStop(j) ==
    /\ RowsKept
    /\ AttemptsKept
    /\ job[j].state = "COMPLETED"
    /\ ~HasOperation(job[j].task)
    /\ ops' = ops \union {NewOperation(j, "stop-seeding", None, FALSE, TRUE)}

SeedingStopped(p) ==
    /\ RowsKept
    /\ AttemptsKept
    /\ p \in ops
    /\ p.action = "stop-seeding"
    /\ ops' = ops \ {p}

TakenOver(o) ==
    /\ RowsKept
    /\ AttemptsKept
    /\ o \in ops
    /\ o.action = "replace-account"
    /\ ops' = (ops \ {o}) \union {[o EXCEPT !.action = "cancel"]}

Shape ==
    \/ Quiet
    \/ \E j \in Job, s \in JobState : Advance(j, s)
    \/ \E j \in Job, a \in AttemptId : Claimed(j, a)
    \/ \E j \in Job, action \in Action, target \in Provider \union {None}, exhausted, interrupt \in BOOLEAN :
          Stopped(j, action, target, exhausted, interrupt)
    \/ \E j \in Job, s \in JobState, p \in ops : Released(j, s, p)
    \/ \E j \in Job, u \in TaskId : Requeued(j, u)
    \/ \E j, k \in Job, u \in TaskId, p \in ops : Succeeded(j, k, u, p)
    \/ \E j \in Job : SeedingStop(j)
    \/ \E p \in ops : SeedingStopped(p)
    \/ \E o \in ops : TakenOver(o)

-----------------------------------------------------------------------------
(* The inductive invariant. *)

\* What is left of StopBarrier: some operation will release a STOPPING row.
StoppingHasOperation ==
    \A j \in Job : job[j].state = "STOPPING" =>
        \E o \in ops : o.task = job[j].task /\ o.action # "stop-seeding"

Inv ==
    /\ TypeOK
    /\ RowsLinked
    /\ SlotUnique
    /\ OneOperation
    /\ OperationsCurrent
    /\ StoppingHasOperation

\* A row that occupies the slot has it for itself.
LEMMA OccupyingSlotFree ==
    ASSUME SlotUnique, NEW j \in Job, job[j].state \in Occupying
    PROVE  SlotFree(j)
  BY DEF SlotUnique, SlotFree

\* Distinct rows have distinct tasks, and no row has an unused one.
LEMMA DistinctTasks ==
    ASSUME RowsLinked, NEW j \in Job
    PROVE  /\ \A i \in Job \ {j} : job[i].state # "NONE" => job[i].task # job[j].task
           /\ \A u \in UnusedTask : job[j].task # u
  BY ConstantsAssumption DEF RowsLinked, JobLinked, UnusedTask

\* Rows and tasks stay a pair.
LEMMA JobsLinkedShape ==
    ASSUME Inv, TypeOK', Shape
    PROVE  \A i \in Job : JobLinked(i)'
  <1> USE ConstantsAssumption
  <1>1. RowsLinked /\ TypeOK /\ \A i \in Job : JobLinked(i)
    BY DEF Inv, RowsLinked
  <1> TAKE i \in Job
  <1>2. CASE RowsKept
    BY <1>1, <1>2 DEF JobLinked, RowsKept, RowKept
  <1>3. ASSUME NEW j \in Job, NEW s \in JobState \ {"NONE"}, job[j].state # "NONE", Moved(j, s)
        PROVE  JobLinked(i)'
    <2>1. CASE i = j
      BY <1>1, <1>3, <2>1 DEF JobLinked, Moved
    <2>2. CASE i # j
      BY <1>1, <1>3, <2>2, DistinctTasks DEF JobLinked, Moved, RowKept
    <2> QED BY <2>1, <2>2
  <1>4. ASSUME NEW j \in Job, NEW a \in AttemptId, Claimed(j, a)
        PROVE  JobLinked(i)'
    <2>1. CASE i = j
      BY <1>1, <1>4, <2>1 DEF JobLinked, Claimed
    <2>2. CASE i # j
      BY <1>1, <1>4, <2>2, DistinctTasks DEF JobLinked, Claimed, RowKept
    <2> QED BY <2>1, <2>2
  <1>5. ASSUME NEW j \in Job, NEW u \in TaskId, Requeued(j, u)
        PROVE  JobLinked(i)'
    <2>1. CASE i = j
      BY <1>5, <2>1 DEF JobLinked, Requeued, Renewed
    <2>2. CASE i # j
      BY <1>1, <1>5, <2>2, DistinctTasks DEF JobLinked, Requeued, Renewed, RowKept
    <2> QED BY <2>1, <2>2
  <1>6. ASSUME NEW j \in Job, NEW k \in Job, NEW u \in TaskId, NEW p \in ops, Succeeded(j, k, u, p)
        PROVE  JobLinked(i)'
    <2>1. CASE i = k
      BY <1>6, <2>1 DEF JobLinked, Succeeded, Renewed
    <2>2. CASE i # k /\ i = j
      BY <1>1, <1>6, <2>2, DistinctTasks, MirrorLemma DEF JobLinked, Succeeded, Renewed, TypeOK, JobState, Terminal
    <2>3. CASE i # k /\ i # j
      BY <1>1, <1>6, <2>3, DistinctTasks DEF JobLinked, Succeeded, Renewed, RowKept
    <2> QED BY <2>1, <2>2, <2>3
  <1> QED
    BY <1>2, <1>3, <1>4, <1>5, <1>6
    DEF Shape, Quiet, Advance, Stopped, Released, SeedingStop, SeedingStopped, TakenOver, JobState, Terminal

\* Every execution goes on belonging to a task of some row.
LEMMA AttemptsLinkedShape ==
    ASSUME Inv, TypeOK', Shape
    PROVE  \A b \in AttemptId : AttemptLinked(b)'
  <1> USE ConstantsAssumption
  <1>1. /\ TypeOK
        /\ \A j \in Job : JobLinked(j)
        /\ \A b \in AttemptId : AttemptLinked(b)
    BY DEF Inv, RowsLinked
  <1>2. \A t \in TaskId : task[t].job \in Job => task'[t].job \in Job
    <2> SUFFICES ASSUME NEW t \in TaskId, task[t].job \in Job PROVE task'[t].job \in Job
      OBVIOUS
    <2>1. CASE RowsKept
      BY <2>1 DEF RowsKept
    <2>2. ASSUME NEW j \in Job, NEW s \in JobState, Moved(j, s) PROVE task'[t].job \in Job
      BY <2>2 DEF Moved
    <2>3. ASSUME NEW j \in Job, NEW a \in AttemptId, Claimed(j, a) PROVE task'[t].job \in Job
      BY <2>3 DEF Claimed
    <2>4. ASSUME NEW j \in Job, NEW u \in TaskId, Requeued(j, u) PROVE task'[t].job \in Job
      BY <2>4 DEF Requeued, Renewed
    <2>5. ASSUME NEW j \in Job, NEW k \in Job, NEW u \in TaskId, NEW p \in ops, Succeeded(j, k, u, p)
          PROVE  task'[t].job \in Job
      BY <1>1, <2>5, MirrorLemma DEF Succeeded, Renewed, TypeOK, JobState, Terminal
    <2> QED
      BY <2>1, <2>2, <2>3, <2>4, <2>5
      DEF Shape, Quiet, Advance, Stopped, Released, SeedingStop, SeedingStopped, TakenOver, JobState, Terminal
  <1> TAKE b \in AttemptId
  <1>3. CASE AttemptKept(b)
    BY <1>1, <1>2, <1>3 DEF AttemptLinked, AttemptKept, NoAttempt
  <1>4. ASSUME NEW j \in Job, Claimed(j, b) PROVE AttemptLinked(b)'
    BY <1>1, <1>2, <1>4 DEF AttemptLinked, Claimed, JobLinked
  <1>5. CASE AttemptsKept
    BY <1>3, <1>5 DEF AttemptsKept
  <1>6. ASSUME NEW j \in Job, NEW a \in AttemptId, Claimed(j, a) PROVE AttemptLinked(b)'
    BY <1>3, <1>4, <1>6 DEF Claimed
  <1> QED
    BY <1>5, <1>6
    DEF Shape, Quiet, Advance, Stopped, Released, Requeued, Succeeded, SeedingStop, SeedingStopped, TakenOver

\* What runs or is parked keeps a current execution of its own.
LEMMA TasksLinkedShape ==
    ASSUME Inv, TypeOK', Shape
    PROVE  \A t \in TaskId : TaskLinked(t)'
  <1> USE ConstantsAssumption
  <1>1. /\ TypeOK
        /\ \A j \in Job : JobLinked(j)
        /\ \A b \in AttemptId : AttemptLinked(b)
        /\ \A t \in TaskId : TaskLinked(t)
    BY DEF Inv, RowsLinked
  <1> TAKE t \in TaskId
  <1>2. task[t].attempt \in AttemptId \union {None}
    BY <1>1 DEF TypeOK, TaskRow
  \* The task keeps its execution.
  <1>3. ASSUME AttemptsKept, task'[t].attempt = task[t].attempt,
               task'[t].status \in {"DOWNLOADING", "WAITING_TORRENT"} => task[t].attempt # None
        PROVE  TaskLinked(t)'
    BY <1>1, <1>2, <1>3 DEF TaskLinked, AttemptsKept, AttemptKept
  <1>4. CASE RowsKept /\ AttemptsKept
    BY <1>1, <1>3, <1>4 DEF RowsKept, TaskLinked
  <1>5. ASSUME NEW j \in Job, NEW s \in JobState, Moved(j, s), AttemptsKept,
               s \in {"DOWNLOADING", "WAITING_TORRENT"} => AttemptOf(j) # None
        PROVE  TaskLinked(t)'
    BY <1>1, <1>3, <1>5 DEF Moved, TaskLinked, AttemptOf
  <1>6. ASSUME NEW j \in Job, NEW a \in AttemptId, Claimed(j, a)
        PROVE  TaskLinked(t)'
    <2>1. CASE t = job[j].task
      BY <1>6, <2>1 DEF Claimed, TaskLinked
    <2>2. CASE t # job[j].task
      BY <1>1, <1>2, <1>6, <2>2 DEF Claimed, TaskLinked, UnusedAttempt, AttemptKept
    <2> QED BY <2>1, <2>2
  <1>7. ASSUME NEW j \in Job, NEW u \in TaskId, Requeued(j, u)
        PROVE  TaskLinked(t)'
    <2>1. CASE t = u
      BY <1>7, <2>1 DEF Requeued, Renewed, TaskLinked
    <2>2. CASE t # u
      BY <1>1, <1>3, <1>7, <2>2 DEF Requeued, TaskLinked
    <2> QED BY <2>1, <2>2
  <1>8. ASSUME NEW j \in Job, NEW k \in Job, NEW u \in TaskId, NEW p \in ops, Succeeded(j, k, u, p)
        PROVE  TaskLinked(t)'
    <2>1. CASE t = u
      BY <1>8, <2>1 DEF Succeeded, Renewed, TaskLinked
    <2>2. CASE t # u /\ t = job[j].task
      BY <1>1, <1>3, <1>8, <2>2, MirrorLemma DEF Succeeded, TypeOK, JobState, Terminal
    <2>3. CASE t # u /\ t # job[j].task
      BY <1>1, <1>3, <1>8, <2>3 DEF Succeeded, TaskLinked
    <2> QED BY <2>1, <2>2, <2>3
  <1> QED
    BY <1>4, <1>5, <1>6, <1>7, <1>8
    DEF Shape, Quiet, Advance, Stopped, Released, SeedingStop, SeedingStopped, TakenOver, JobState, Terminal

\* A row enters the slot only when it is free, or from the row that gives it up.
LEMMA SlotUniqueShape ==
    ASSUME Inv, TypeOK', Shape
    PROVE  SlotUnique'
  <1> USE ConstantsAssumption
  <1>1. SlotUnique
    BY DEF Inv
  \* It is enough that a row that occupies the slot had it, or found it free.
  <1>2. ASSUME NEW j \in Job,
               \A i \in Job \ {j} : job'[i].state \in Occupying => job[i].state \in Occupying,
               job'[j].state \in Occupying => SlotFree(j)
        PROVE  SlotUnique'
    BY <1>1, <1>2 DEF SlotUnique, SlotFree, WorkOf
  <1>3. CASE RowsKept
    BY <1>1, <1>3 DEF SlotUnique, RowsKept, RowKept
  <1>4. ASSUME NEW j \in Job, NEW s \in JobState, Moved(j, s), s \in Occupying => SlotFree(j)
        PROVE  SlotUnique'
    BY <1>2, <1>4 DEF Moved, RowKept
  <1>5. ASSUME NEW j \in Job, NEW a \in AttemptId, Claimed(j, a)
        PROVE  SlotUnique'
    BY <1>1, <1>2, <1>5, OccupyingSlotFree DEF Claimed, RowKept, Occupying, JobState, Terminal
  <1>6. ASSUME NEW j \in Job, NEW s \in JobState, NEW p \in ops, Released(j, s, p)
        PROVE  SlotUnique'
    BY <1>1, <1>4, <1>6, OccupyingSlotFree DEF Released, Occupying, JobState, Terminal
  <1>7. ASSUME NEW j \in Job, NEW u \in TaskId, Requeued(j, u)
        PROVE  SlotUnique'
    BY <1>2, <1>7 DEF Requeued, RowKept
  \* The successor takes the slot that the stopped row of the same work gives up.
  <1>8. ASSUME NEW j \in Job, NEW k \in Job, NEW u \in TaskId, NEW p \in ops, Succeeded(j, k, u, p)
        PROVE  SlotUnique'
    <2>1. SlotFree(j)
      BY <1>1, <1>8, OccupyingSlotFree DEF Succeeded, Occupying, JobState, Terminal
    <2>2. \A i \in Job \ {k} : WorkOf(i) = WorkOf(k) => job'[i].state \notin Occupying
      BY <1>8, <2>1 DEF Succeeded, SlotFree, RowKept, Occupying, JobState, Terminal
    <2>3. \A i \in Job \ {k} : job'[i].state \in Occupying => job[i].state \in Occupying
      BY <1>8 DEF Succeeded, RowKept, Occupying, JobState, Terminal
    <2> QED
      BY <1>1, <2>2, <2>3 DEF SlotUnique
  <1> QED
    BY <1>3, <1>4, <1>5, <1>6, <1>7, <1>8
    DEF Shape, Quiet, Advance, Stopped, SeedingStop, SeedingStopped, TakenOver, JobState, Terminal

\* A task that exists keeps its row, and goes on existing.
LEMMA TasksKeptShape ==
    ASSUME Inv, Shape, NEW t \in TaskId, task[t].status # "NONE"
    PROVE  task'[t].job = task[t].job /\ task'[t].status # "NONE"
  <1> USE ConstantsAssumption
  <1>1. TypeOK /\ \A j \in Job : JobLinked(j)
    BY DEF Inv, RowsLinked
  <1>2. CASE RowsKept
    BY <1>2 DEF RowsKept
  <1>3. ASSUME NEW j \in Job, NEW s \in JobState \ {"NONE"}, Moved(j, s)
        PROVE  task'[t].job = task[t].job /\ task'[t].status # "NONE"
    BY <1>3 DEF Moved
  <1>4. ASSUME NEW j \in Job, NEW a \in AttemptId, Claimed(j, a)
        PROVE  task'[t].job = task[t].job /\ task'[t].status # "NONE"
    BY <1>4 DEF Claimed
  <1>5. ASSUME NEW j \in Job, NEW u \in TaskId, Requeued(j, u)
        PROVE  task'[t].job = task[t].job /\ task'[t].status # "NONE"
    BY <1>5 DEF Requeued, Renewed, UnusedTask
  <1>6. ASSUME NEW j \in Job, NEW k \in Job, NEW u \in TaskId, NEW p \in ops, Succeeded(j, k, u, p)
        PROVE  task'[t].job = task[t].job /\ task'[t].status # "NONE"
    BY <1>1, <1>6, MirrorLemma DEF Succeeded, Renewed, UnusedTask, TypeOK, JobState, Terminal
  <1> QED
    BY <1>2, <1>3, <1>4, <1>5, <1>6
    DEF Shape, Quiet, Advance, Stopped, Released, SeedingStop, SeedingStopped, TakenOver, JobState, Terminal

\* What the operations become: they stay, one is added, one goes, or one is renamed.
OpsShape ==
    \/ ops' = ops
    \/ \E j \in Job, action \in Action, target \in Provider \union {None}, exhausted, interrupt \in BOOLEAN :
          /\ job[j].state # "NONE"
          /\ ~HasOperation(job[j].task)
          /\ action = "switch-source" => target \in Provider
          /\ ops' = ops \union {NewOperation(j, action, target, exhausted, interrupt)}
    \/ \E p \in ops : ops' = ops \ {p}
    \/ \E o \in ops : ops' = (ops \ {o}) \union {[o EXCEPT !.action = "cancel"]}

\* Every shape changes the operations in one of the four ways.
LEMMA ShapeOfOps ==
    ASSUME Shape
    PROVE  OpsShape
  <1>1. ASSUME NEW j \in Job, NEW action \in Action, NEW target \in Provider \union {None},
               NEW exhausted \in BOOLEAN, NEW interrupt \in BOOLEAN,
               Stopped(j, action, target, exhausted, interrupt)
        PROVE  OpsShape
    BY <1>1 DEF Stopped, OpsShape
  <1>2. ASSUME NEW j \in Job, SeedingStop(j) PROVE OpsShape
    BY <1>2 DEF SeedingStop, OpsShape, Action
  <1>3. (\E p \in ops : ops' = ops \ {p}) => OpsShape
    BY DEF OpsShape
  <1>4. ASSUME NEW p \in ops,
               \/ \E j \in Job, s \in JobState : Released(j, s, p)
               \/ \E j, k \in Job, u \in TaskId : Succeeded(j, k, u, p)
               \/ SeedingStopped(p)
        PROVE  OpsShape
    BY <1>3, <1>4 DEF Released, Succeeded, SeedingStopped
  <1>5. ASSUME NEW o \in ops, TakenOver(o) PROVE OpsShape
    BY <1>5 DEF TakenOver, OpsShape
  <1>6. ASSUME \/ Quiet
               \/ \E j \in Job, s \in JobState : Advance(j, s)
               \/ \E j \in Job, a \in AttemptId : Claimed(j, a)
               \/ \E j \in Job, u \in TaskId : Requeued(j, u)
        PROVE  OpsShape
    BY <1>6 DEF Quiet, Advance, Claimed, Requeued, OpsShape
  <1> QED BY <1>1, <1>2, <1>4, <1>5, <1>6, Zenon DEF Shape

\* Unfinished operations go on naming a task of their row.
LEMMA OperationsLinkedShape ==
    ASSUME Inv, TypeOK', Shape
    PROVE  \A o \in ops' : OperationLinked(o)'
  <1> USE ConstantsAssumption
  <1>1. /\ TypeOK
        /\ \A j \in Job : JobLinked(j)
        /\ \A o \in ops : OperationLinked(o)
    BY DEF Inv, RowsLinked
  <1>2. ASSUME NEW o \in ops PROVE OperationLinked(o)'
    BY <1>1, <1>2, TasksKeptShape DEF OperationLinked, TypeOK, Operation
  <1>3. ASSUME NEW j \in Job, NEW action, NEW target, NEW exhausted, NEW interrupt,
               job[j].state # "NONE", action = "switch-source" => target \in Provider,
               NEW o, o = NewOperation(j, action, target, exhausted, interrupt)
        PROVE  OperationLinked(o)'
    BY <1>1, <1>3, TasksKeptShape DEF OperationLinked, NewOperation, JobLinked
  <1>4. ASSUME NEW o \in ops PROVE OperationLinked([o EXCEPT !.action = "cancel"])'
    BY <1>1, <1>2, <1>4 DEF OperationLinked, TypeOK, Operation
  <1> QED
    <2> SUFFICES ASSUME NEW o \in ops' PROVE OperationLinked(o)'
      OBVIOUS
    <2> QED BY <1>2, <1>3, <1>4, ShapeOfOps DEF OpsShape

\* A task with an unfinished operation is not given a second one.
LEMMA OneOperationShape ==
    ASSUME Inv, Shape
    PROVE  OneOperation'
  <1>1. OneOperation /\ ops \subseteq Operation
    BY DEF Inv, TypeOK
  <1>2. CASE ops' = ops
    BY <1>1, <1>2 DEF OneOperation
  <1>3. ASSUME NEW j \in Job, NEW action, NEW target, NEW exhausted, NEW interrupt,
               ~HasOperation(job[j].task),
               ops' = ops \union {NewOperation(j, action, target, exhausted, interrupt)}
        PROVE  OneOperation'
    BY <1>1, <1>3 DEF OneOperation, HasOperation, NewOperation
  <1>4. ASSUME NEW p \in ops, ops' = ops \ {p} PROVE OneOperation'
    BY <1>1, <1>4 DEF OneOperation
  <1>5. ASSUME NEW o \in ops, ops' = (ops \ {o}) \union {[o EXCEPT !.action = "cancel"]} PROVE OneOperation'
    BY <1>1, <1>5 DEF OneOperation, Operation
  <1> QED
    BY <1>2, <1>3, <1>4, <1>5, ShapeOfOps DEF OpsShape

\* An operation that outlives the step and still names the current task of its row
\* names a row the step did not touch.
LEMMA OperationUntouched ==
    ASSUME Inv, Shape, NEW o \in ops, o \in ops' \/ \E q \in ops : TakenOver(q), o.action # "stop-seeding",
           job'[o.job].task = o.task
    PROVE  /\ job[o.job].task = o.task
           /\ job'[o.job].state = job[o.job].state
           /\ task'[o.task] = task[o.task]
  <1> USE ConstantsAssumption
  <1>1. /\ TypeOK
        /\ \A j \in Job : JobLinked(j)
        /\ OperationLinked(o)
        /\ OperationCurrent(o)
        /\ OneOperation
    BY DEF Inv, RowsLinked, OperationsCurrent
  <1>2. o.task \in TaskId /\ o.job \in Job /\ o.task \notin UnusedTask
    BY <1>1 DEF TypeOK, Operation, OperationLinked, UnusedTask
  <1> DEFINE Goal == /\ job[o.job].task = o.task
                     /\ job'[o.job].state = job[o.job].state
                     /\ task'[o.task] = task[o.task]
  <1>3. CASE RowsKept
    BY <1>2, <1>3 DEF RowsKept, RowKept
  <1>4. ASSUME NEW j \in Job, NEW s \in JobState, Moved(j, s), job[j].state # "STOPPING" PROVE Goal
    <2>1. job[o.job].task = o.task
      BY <1>2, <1>4 DEF Moved, RowKept
    <2>2. o.job # j
      BY <1>1, <1>4, <2>1 DEF OperationCurrent
    <2> QED BY <1>1, <1>2, <1>4, <2>1, <2>2, DistinctTasks DEF Moved, RowKept, Inv, OperationCurrent
  <1>5. ASSUME NEW j \in Job, NEW a \in AttemptId, Claimed(j, a) PROVE Goal
    <2>1. job[o.job].task = o.task
      BY <1>2, <1>5 DEF Claimed, RowKept
    <2>2. o.job # j
      BY <1>1, <1>5, <2>1 DEF OperationCurrent, Claimed
    <2> QED BY <1>1, <1>2, <1>5, <2>1, <2>2, DistinctTasks DEF Claimed, RowKept, Inv, OperationCurrent
  <1>6. ASSUME NEW j \in Job, NEW s \in JobState, NEW p \in ops, o \in ops', Released(j, s, p) PROVE Goal
    <2>1. o.task # job[j].task
      BY <1>1, <1>6 DEF Released, OneOperation
    <2> QED BY <1>2, <1>6, <2>1 DEF Released, Moved, RowKept
  <1>7. ASSUME NEW j \in Job, NEW u \in TaskId, Requeued(j, u) PROVE Goal
    BY <1>2, <1>7 DEF Requeued, Renewed, RowKept
  <1>8. ASSUME NEW j \in Job, NEW k \in Job, NEW u \in TaskId, NEW p \in ops, o \in ops', Succeeded(j, k, u, p)
        PROVE  Goal
    <2>1. o.task # job[j].task
      BY <1>1, <1>8 DEF Succeeded, OneOperation
    <2> QED BY <1>2, <1>8, <2>1 DEF Succeeded, Renewed, RowKept
  <1> QED
    BY <1>3, <1>4, <1>5, <1>6, <1>7, <1>8
    DEF Shape, Quiet, Advance, Stopped, SeedingStop, SeedingStopped, TakenOver, JobState, Terminal

\* An unfinished stop goes on matching the row it stopped.
LEMMA OperationsCurrentShape ==
    ASSUME Inv, TypeOK', Shape
    PROVE  OperationsCurrent'
  <1> USE ConstantsAssumption
  <1>1. /\ TypeOK
        /\ \A j \in Job : JobLinked(j)
        /\ \A o \in ops : OperationLinked(o) /\ OperationCurrent(o)
    BY DEF Inv, RowsLinked, OperationsCurrent
  \* An operation that stays.
  <1>2. ASSUME NEW o \in ops, o \in ops' PROVE OperationCurrent(o)'
    BY <1>1, <1>2, OperationUntouched DEF OperationCurrent, AttemptOf
  \* The operation of a stop.
  <1>3. ASSUME NEW j \in Job, NEW action \in Action, NEW target, NEW exhausted, NEW interrupt,
               Stopped(j, action, target, exhausted, interrupt),
               NEW o, o = NewOperation(j, action, target, exhausted, interrupt)
        PROVE  OperationCurrent(o)'
    <2>1. /\ o.job = j
          /\ o.task = job[j].task
          /\ o.attempt = task[job[j].task].attempt
          /\ o.generation = task[job[j].task].generation
      BY <1>3 DEF NewOperation, AttemptOf
    <2>2. task[job[j].task].status # "STOPPING"
      BY <1>1, <1>3 DEF JobLinked, Stopped
    <2> QED BY <1>3, <2>1, <2>2 DEF Stopped, Moved, OperationCurrent, AttemptOf
  \* Ending the seeding is no stop of a row.
  <1>4. ASSUME NEW j \in Job, NEW target, NEW exhausted, NEW interrupt,
               NEW o, o = NewOperation(j, "stop-seeding", target, exhausted, interrupt)
        PROVE  OperationCurrent(o)'
    BY <1>4 DEF NewOperation, OperationCurrent
  \* A cancel that takes a replacement over keeps its snapshot.
  <1>5. ASSUME NEW q \in ops, TakenOver(q), NEW o, o = [q EXCEPT !.action = "cancel"]
        PROVE  OperationCurrent(o)'
    <2>1. /\ o.job = q.job /\ o.task = q.task /\ o.attempt = q.attempt /\ o.generation = q.generation
          /\ q \in Operation
      BY <1>1, <1>5 DEF TypeOK, Operation
    <2> QED BY <1>1, <1>5, <2>1 DEF TakenOver, RowsKept, RowKept, OperationCurrent, AttemptOf, Operation
  <1> SUFFICES ASSUME NEW o \in ops' PROVE OperationCurrent(o)'
    BY DEF OperationsCurrent
  <1>6. CASE ops' \subseteq ops
    BY <1>2, <1>6
  <1> QED
    BY ZenonT(60), <1>2, <1>3, <1>4, <1>5, <1>6
    DEF Shape, Quiet, Advance, Claimed, Stopped, Released, Requeued, Succeeded, SeedingStop, SeedingStopped, TakenOver

\* No row stays STOPPING without an operation that releases it.
LEMMA StoppingHasOperationShape ==
    ASSUME Inv, TypeOK', Shape
    PROVE  StoppingHasOperation'
  <1> USE ConstantsAssumption
  <1>1. /\ TypeOK
        /\ OneOperation
        /\ RowsLinked
        /\ \A j \in Job : JobLinked(j)
        /\ StoppingHasOperation
    BY DEF Inv, RowsLinked
  <1> DEFINE Goal(i) == \E o \in ops' : o.task = job'[i].task /\ o.action # "stop-seeding"
  <1> SUFFICES ASSUME NEW i \in Job, job'[i].state = "STOPPING" PROVE Goal(i)
    BY DEF StoppingHasOperation
  \* The row was STOPPING before, and its operation is not the one that ends.
  <1>2. ASSUME job[i].state = "STOPPING", job'[i].task = job[i].task, ops \subseteq ops' PROVE Goal(i)
    BY <1>1, <1>2 DEF StoppingHasOperation
  <1>3. ASSUME RowKept(i), NEW j \in Job \ {i}, NEW p \in ops, p.task = job[j].task,
               job[j].state # "NONE", ops' = ops \ {p}
        PROVE  Goal(i)
    <2>1. PICK o \in ops : o.task = job[i].task /\ o.action # "stop-seeding"
      BY <1>1, <1>3 DEF StoppingHasOperation, RowKept
    <2>2. o # p
      BY <1>1, <1>3, <2>1, DistinctTasks
    <2> QED BY <1>3, <2>1, <2>2 DEF RowKept
  <1>4. CASE Quiet
    BY <1>2, <1>4 DEF Quiet, RowsKept, RowKept
  <1>5. ASSUME NEW j \in Job, NEW s \in JobState, Advance(j, s) PROVE Goal(i)
    BY <1>2, <1>5 DEF Advance, Moved, RowKept
  <1>6. ASSUME NEW j \in Job, NEW a \in AttemptId, Claimed(j, a) PROVE Goal(i)
    BY <1>2, <1>6 DEF Claimed, RowKept
  <1>7. ASSUME NEW j \in Job, NEW action \in Action, NEW target, NEW exhausted, NEW interrupt,
               Stopped(j, action, target, exhausted, interrupt)
        PROVE  Goal(i)
    <2>1. CASE i = j
      <3>1. NewOperation(j, action, target, exhausted, interrupt) \in ops'
        BY <1>7 DEF Stopped
      <3>2. /\ NewOperation(j, action, target, exhausted, interrupt).task = job[j].task
            /\ NewOperation(j, action, target, exhausted, interrupt).action = action
        BY DEF NewOperation
      <3> QED BY <1>7, <2>1, <3>1, <3>2 DEF Stopped, Moved
    <2>2. CASE i # j
      BY <1>2, <1>7, <2>2 DEF Stopped, Moved, RowKept
    <2> QED BY <2>1, <2>2
  <1>8. ASSUME NEW j \in Job, NEW s \in JobState, NEW p \in ops, Released(j, s, p) PROVE Goal(i)
    <2>1. i # j
      BY <1>8 DEF Released, Moved
    <2> QED BY <1>3, <1>8, <2>1 DEF Released, Moved
  <1>9. ASSUME NEW j \in Job, NEW u \in TaskId, Requeued(j, u) PROVE Goal(i)
    BY <1>2, <1>9 DEF Requeued, Renewed, RowKept
  <1>10. ASSUME NEW j \in Job, NEW k \in Job, NEW u \in TaskId, NEW p \in ops, Succeeded(j, k, u, p)
         PROVE  Goal(i)
    <2>1. i # j /\ i # k
      BY <1>10 DEF Succeeded, Renewed
    <2> QED BY <1>3, <1>10, <2>1 DEF Succeeded
  <1>11. ASSUME NEW j \in Job, SeedingStop(j) PROVE Goal(i)
    BY <1>2, <1>11 DEF SeedingStop, RowsKept, RowKept
  <1>12. ASSUME NEW p \in ops, SeedingStopped(p) PROVE Goal(i)
    <2>1. PICK o \in ops : o.task = job[i].task /\ o.action # "stop-seeding"
      BY <1>1, <1>12 DEF StoppingHasOperation, SeedingStopped, RowsKept, RowKept
    <2> QED BY <1>12, <2>1 DEF SeedingStopped, RowsKept, RowKept
  <1>13. ASSUME NEW q \in ops, TakenOver(q) PROVE Goal(i)
    <2>1. PICK o \in ops : o.task = job[i].task /\ o.action # "stop-seeding"
      BY <1>1, <1>13 DEF StoppingHasOperation, TakenOver, RowsKept, RowKept
    <2>2. q \in Operation
      BY <1>1 DEF TypeOK
    <2>3. CASE o = q
      <3>1. [q EXCEPT !.action = "cancel"] \in ops'
        BY <1>13 DEF TakenOver
      <3>2. /\ [q EXCEPT !.action = "cancel"].task = o.task
            /\ [q EXCEPT !.action = "cancel"].action # "stop-seeding"
        BY <2>2, <2>3 DEF Operation
      <3> QED BY <1>13, <2>1, <3>1, <3>2 DEF TakenOver, RowsKept, RowKept
    <2>4. CASE o # q
      BY <1>13, <2>1, <2>4 DEF TakenOver, RowsKept, RowKept
    <2> QED BY <2>3, <2>4
  <1> QED
    BY <1>4, <1>5, <1>6, <1>7, <1>8, <1>9, <1>10, <1>11, <1>12, <1>13 DEF Shape

-----------------------------------------------------------------------------
(* Every action has one of the shapes and keeps the types. *)

Actors ==
    /\ worker \in Execution(WorkerPc)
    /\ poller \in Execution(PollerPc)
    /\ stopper \in [pc : StopperPc, op : Operation \union {None}]
    /\ ExecutionLinked(worker)
    /\ ExecutionLinked(poller)
    /\ stopper.pc # "idle" => stopper.op \in Operation

Step == TypeOK' /\ Shape /\ Actors'

\* Row j is written: its state becomes s, and it keeps its task.
RowWritten(j, s) ==
    /\ job' \in [Job -> JobRow]
    /\ \A i \in Job \ {j} : job'[i] = job[i]
    /\ job'[j].state = s
    /\ job'[j].task = job[j].task

\* A row is given a state, and is told whether a failure is permanent.
LEMMA StateWritten ==
    ASSUME Inv, NEW j \in Job, NEW s \in JobState, NEW permanent \in BOOLEAN,
           job' = [job EXCEPT ![j].state = s, ![j].permanent = permanent]
    PROVE  RowWritten(j, s)
  <1>1. job \in [Job -> JobRow] /\ job[j] \in JobRow
    BY DEF Inv, TypeOK
  <1> DEFINE r == [job[j] EXCEPT !.state = s, !.permanent = permanent]
  <1>2. r \in JobRow /\ r.state = s /\ r.task = job[j].task
    BY <1>1 DEF JobRow
  <1>3. job' = [job EXCEPT ![j] = r]
    BY <1>1
  <1> HIDE DEF r
  <1> QED BY <1>1, <1>2, <1>3 DEF RowWritten

\* The same for a row whose failure is forgotten.
LEMMA StateReset ==
    ASSUME Inv, NEW j \in Job, NEW s \in JobState,
           job' = [job EXCEPT ![j].state = s, ![j].permanent = FALSE]
    PROVE  RowWritten(j, s)
  <1>1. PICK permanent \in BOOLEAN : permanent = FALSE
    OBVIOUS
  <1>2. job' = [job EXCEPT ![j].state = s, ![j].permanent = permanent]
    BY <1>1
  <1> QED BY <1>2, StateWritten

\* The same for a row whose state alone changes.
LEMMA StateMoved ==
    ASSUME Inv, NEW j \in Job, NEW s \in JobState, job' = [job EXCEPT ![j].state = s]
    PROVE  RowWritten(j, s)
  <1>1. job \in [Job -> JobRow] /\ job[j] \in JobRow
    BY DEF Inv, TypeOK
  <1> DEFINE r == [job[j] EXCEPT !.state = s]
  <1>2. r \in JobRow /\ r.state = s /\ r.task = job[j].task
    BY <1>1 DEF JobRow
  <1>3. job' = [job EXCEPT ![j] = r]
    BY <1>1
  <1> HIDE DEF r
  <1> QED BY <1>1, <1>2, <1>3 DEF RowWritten

\* The states by name.
LEMMA States == {"PAUSED", "PENDING", "STOPPING", "CANCELLED", "COMPLETED", "FAILED", "DOWNLOADING"} \subseteq JobState
  BY DEF JobState, Terminal

\* Executions that do not move stay linked.
LEMMA ActorsKept ==
    ASSUME Inv, AttemptsKept, UNCHANGED <<worker, poller, stopper>>
    PROVE  Actors'
  <1>1. TypeOK /\ ExecutionLinked(worker) /\ ExecutionLinked(poller) /\ (stopper.pc # "idle" => stopper.op \in Operation)
    BY DEF Inv, RowsLinked
  <1> QED BY <1>1 DEF TypeOK, Actors, ExecutionLinked, AttemptsKept, AttemptKept

\* What is known of the current execution of a row.
LEMMA CurrentAttempt ==
    ASSUME Inv, NEW j \in Job, job[j].state # "NONE"
    PROVE  /\ job[j].task \in TaskId
           /\ task[job[j].task].status = job[j].state
           /\ AttemptOf(j) \in AttemptId \union {None}
           /\ AttemptOf(j) # None => attempt[AttemptOf(j)].status # "NONE" /\ attempt[AttemptOf(j)].task = job[j].task
  BY DEF Inv, TypeOK, TaskRow, RowsLinked, JobLinked, TaskLinked, AttemptOf

\* A state written through the triggers moves the row.
LEMMA SetStateMoves ==
    ASSUME Inv, NEW j \in Job, NEW s \in JobState \ {"NONE"}, job[j].state # "NONE",
           RowWritten(j, s), SetState(j, s)
    PROVE  /\ Moved(j, s)
           /\ AttemptsKept
           /\ s \in Occupying => SlotFree(j)
           /\ task' \in [TaskId -> TaskRow]
           /\ attempt' \in [AttemptId -> AttemptRow]
           /\ leased' \subseteq AttemptId
  <1> USE ConstantsAssumption
  <1>1. TypeOK
    BY DEF Inv
  <1>2. /\ task' \in [TaskId -> TaskRow]
        /\ attempt' \in [AttemptId -> AttemptRow]
        /\ leased' \subseteq AttemptId
        /\ \A t \in TaskId : t # job[j].task => task'[t] = task[t]
        /\ task'[job[j].task] = Mirror(task[job[j].task], s)
        /\ \A a \in AttemptId : attempt'[a] = IF a = AttemptOf(j) THEN Record(attempt[a], s) ELSE attempt[a]
    BY <1>1, SetStateLemma, CurrentAttempt
  <1>3. Moved(j, s)
    BY <1>1, <1>2, MirrorLemma, CurrentAttempt DEF Moved, RowWritten, RowKept, TypeOK
  <1>4. AttemptsKept
    BY <1>1, <1>2, RecordLemma, CurrentAttempt DEF AttemptsKept, AttemptKept, TypeOK
  <1> QED BY <1>2, <1>3, <1>4 DEF SetState

\* A row that is not stopped moves on: the common part of most actions.
LEMMA AdvanceStep ==
    ASSUME Inv, NEW j \in Job, NEW s \in JobState \ {"NONE", "STOPPING"},
           job[j].state \notin {"NONE", "STOPPING", "CANCELLED"},
           RowWritten(j, s), SetState(j, s), ops' = ops, up' \in BOOLEAN,
           s \in {"DOWNLOADING", "WAITING_TORRENT"} => AttemptOf(j) # None,
           artifact' \in [Job -> AttemptId \union {None}],
           AttemptsKept => Actors'
    PROVE  Step
  <1>1. Moved(j, s) /\ AttemptsKept /\ (s \in Occupying => SlotFree(j))
    BY SetStateMoves
  <1>2. TypeOK'
    BY <1>1, SetStateMoves DEF Inv, TypeOK, RowWritten, Actors
  <1>3. Advance(j, s)
    BY <1>1 DEF Advance
  <1> QED BY <1>1, <1>2, <1>3 DEF Step, Shape

\* The operation of an existing row is a proper one.
LEMMA NewOperationType ==
    ASSUME Inv, NEW j \in Job, job[j].state # "NONE", NEW action \in Action, NEW target \in Provider \union {None},
           NEW exhausted \in BOOLEAN, NEW interrupt \in BOOLEAN
    PROVE  NewOperation(j, action, target, exhausted, interrupt) \in Operation
  <1>1. TypeOK /\ job[j].task \in TaskId /\ AttemptOf(j) \in AttemptId \union {None}
    BY CurrentAttempt DEF Inv
  <1>2. task[job[j].task].generation \in Nat
    BY <1>1 DEF TypeOK, TaskRow
  <1> QED BY <1>1, <1>2 DEF NewOperation, Operation

\* A row is stopped: the common part of every stop barrier.
LEMMA StoppedStep ==
    ASSUME Inv, NEW j \in Job, job[j].state \notin {"NONE", "STOPPING"},
           RowWritten(j, "STOPPING"), SetState(j, "STOPPING"), ~HasOperation(job[j].task),
           NEW action \in Action \ {"stop-seeding"}, NEW target \in Provider \union {None},
           NEW exhausted \in BOOLEAN, NEW interrupt \in BOOLEAN,
           action = "switch-source" => target \in Provider,
           ops' = ops \union {NewOperation(j, action, target, exhausted, interrupt)},
           up' \in BOOLEAN, artifact' \in [Job -> AttemptId \union {None}], AttemptsKept => Actors'
    PROVE  Step
  <1>1. /\ Moved(j, "STOPPING") /\ AttemptsKept /\ SlotFree(j)
        /\ task' \in [TaskId -> TaskRow]
        /\ attempt' \in [AttemptId -> AttemptRow]
        /\ leased' \subseteq AttemptId
    BY SetStateMoves DEF JobState, Occupying, Terminal
  <1>2. ops' \subseteq Operation
    <2>1. NewOperation(j, action, target, exhausted, interrupt) \in Operation
      BY NewOperationType
    <2>2. ops \subseteq Operation
      BY DEF Inv, TypeOK
    <2> QED BY <2>1, <2>2
  <1>3. TypeOK'
    BY <1>1, <1>2 DEF TypeOK, RowWritten, Actors
  <1>4. Stopped(j, action, target, exhausted, interrupt)
    BY <1>1 DEF Stopped
  <1> QED BY <1>1, <1>3, <1>4 DEF Step, Shape

-----------------------------------------------------------------------------
(* Commands. *)

\* A row that is queued again as a new task.
LEMMA RequeuedStep ==
    ASSUME Inv, NEW j \in Job, NEW u \in UnusedTask, NEW d \in Details, NEW n \in Nat,
           job[j].state \in Terminal \union {"NONE"}, SlotFree(j), Requeue(j, u, d, n),
           task' = [task EXCEPT ![u] = FreshTask(j, NextGeneration(j))],
           UNCHANGED <<attempt, artifact, ops, leased, up, worker, poller, stopper>>
    PROVE  Step
  <1> USE ConstantsAssumption
  <1>1. TypeOK /\ u \in TaskId
    BY DEF Inv, UnusedTask
  <1>2. NextGeneration(j) \in Nat
    BY <1>1, CurrentAttempt DEF NextGeneration, TypeOK, TaskRow
  <1>3. FreshTask(j, NextGeneration(j)) \in TaskRow
    BY <1>2 DEF FreshTask, TaskRow, JobState
  <1>4. [state |-> "PENDING", task |-> u, details |-> d, recovery |-> n, permanent |-> FALSE] \in JobRow
    BY <1>1 DEF JobRow, JobState
  <1>5. job' \in [Job -> JobRow] /\ task' \in [TaskId -> TaskRow]
    BY <1>1, <1>3, <1>4 DEF TypeOK, Requeue
  <1>6. TypeOK'
    BY <1>1, <1>5 DEF TypeOK
  <1>7. Requeued(j, u)
    <2>1. Renewed(j, u)
      BY <1>1 DEF Renewed, Requeue, FreshTask, TypeOK
    <2>2. AttemptsKept
      BY DEF AttemptsKept, AttemptKept
    <2> QED BY <1>1, <2>1, <2>2 DEF Requeued, Requeue, RowKept, TypeOK
  <1> QED BY <1>1, <1>6, <1>7, ActorsKept DEF Step, Shape, Requeued

\* Enqueueing requeues a row under a fresh task.
LEMMA EnqueueStep == ASSUME Inv, NEW j \in Job, Enqueue(j) PROVE Step
  <1> USE ConstantsAssumption
  <1> DEFINE bound == j[2] \in BoundAtEnqueue
  <1>1. InitialDetails(j) \in Details /\ job[j].recovery \in Nat
    <2>1. bound \in BOOLEAN /\ InitialDetails(j) = [EmptyDetails EXCEPT !.account = bound]
      BY DEF InitialDetails
    <2> HIDE DEF bound
    <2>2. EmptyDetails \in Details
      BY DEF EmptyDetails, Details
    <2>3. [EmptyDetails EXCEPT !.account = bound] \in Details
      BY <2>1, <2>2 DEF Details
    <2> QED BY <2>1, <2>3 DEF Inv, TypeOK, JobRow
  <1> QED BY <1>1, RequeuedStep DEF Enqueue

\* A queued row is paused.
LEMMA PauseStep == ASSUME Inv, NEW j \in Job, Pause(j) PROVE Step
  <1>1. RowWritten(j, "PAUSED")
    <2>1. job' = [job EXCEPT ![j].state = "PAUSED", ![j].permanent = FALSE]
      BY DEF Pause
    <2> QED BY <2>1, States, StateReset
  <1>2. up' \in BOOLEAN /\ artifact' \in [Job -> AttemptId \union {None}]
    BY DEF Pause, Inv, TypeOK
  <1> QED BY <1>1, <1>2, AdvanceStep, ActorsKept DEF Pause, JobState

\* A paused row is queued; no other row of its work took the slot.
LEMMA ResumeStep == ASSUME Inv, NEW j \in Job, Resume(j) PROVE Step
  <1>1. RowWritten(j, "PENDING")
    <2>1. job' = [job EXCEPT ![j].state = "PENDING", ![j].permanent = FALSE]
      BY DEF Resume
    <2> QED BY <2>1, States, StateReset
  <1>2. up' \in BOOLEAN /\ artifact' \in [Job -> AttemptId \union {None}]
    BY DEF Resume, Inv, TypeOK
  <1> QED BY <1>1, <1>2, AdvanceStep, ActorsKept DEF Resume, JobState

\* Dropping the account of a finished round leaves proper details.
LEMMA StripAccountType ==
    ASSUME Inv, NEW j \in Job
    PROVE  StripAccount(j, job[j].details) \in Details
  <1>1. job[j].details \in Details
    BY DEF Inv, TypeOK, JobRow
  <1> DEFINE b == IF j[2] \in Pooled \ BoundAtEnqueue THEN FALSE ELSE job[j].details.account
  <1>2. b \in BOOLEAN
    BY <1>1 DEF Details
  <1>3. StripAccount(j, job[j].details) = [job[j].details EXCEPT !.replaced = 0, !.account = b]
    BY DEF StripAccount
  <1>4. 0 \in 0..PoolSize
    BY ConstantsAssumption
  <1> HIDE DEF b
  <1>5. [job[j].details EXCEPT !.replaced = 0, !.account = b] \in Details
    BY <1>1, <1>2, <1>4 DEF Details
  <1> QED BY <1>3, <1>5

\* A paused row goes on, a finished one gets a fresh task.
LEMMA RetryQueuedStep == ASSUME Inv, NEW j \in Job, RetryQueued(j) PROVE Step
  <1>1. CASE job[j].state = "PAUSED"
    <2> DEFINE d == StripAccount(j, job[j].details)
               r == [state |-> "PENDING", task |-> job[j].task, details |-> d, recovery |-> 0, permanent |-> FALSE]
    <2>0. job' = [job EXCEPT ![j] = r] /\ d \in Details
      BY <1>1, StripAccountType DEF RetryQueued, Requeue
    <2>1. RowWritten(j, "PENDING")
      <3> HIDE DEF d
      <3>1. r \in JobRow /\ r.state = "PENDING" /\ r.task = job[j].task
        BY <1>1, <2>0, CurrentAttempt DEF JobRow, JobState
      <3> HIDE DEF r
      <3> QED BY <2>0, <3>1 DEF RowWritten, Inv, TypeOK
    <2>2. up' \in BOOLEAN /\ artifact' \in [Job -> AttemptId \union {None}]
      BY DEF RetryQueued, Inv, TypeOK
    <2> QED BY <1>1, <2>1, <2>2, AdvanceStep, ActorsKept DEF RetryQueued, JobState
  <1>2. CASE job[j].state # "PAUSED"
    BY <1>2, RequeuedStep, StripAccountType DEF RetryQueued
  <1> QED BY <1>1, <1>2

\* A torrent that may still run is stopped instead.
LEMMA RetryBarrierStep == ASSUME Inv, NEW j \in Job, RetryBarrier(j) PROVE Step
  <1> DEFINE d == StripAccount(j, job[j].details)
             r == [job[j] EXCEPT !.state = "STOPPING", !.recovery = 0, !.permanent = FALSE, !.details = d]
  <1>0. job' = [job EXCEPT ![j] = r] /\ d \in Details
    <2>1. job' = [job EXCEPT ![j] = r]
      BY DEF RetryBarrier
    <2>2. d \in Details
      BY StripAccountType
    <2> QED BY <2>1, <2>2
  <1>1. RowWritten(j, "STOPPING")
    <2> HIDE DEF d
    <2>1. r \in JobRow /\ r.state = "STOPPING" /\ r.task = job[j].task
      BY <1>0 DEF Inv, TypeOK, JobRow, JobState
    <2> HIDE DEF r
    <2> QED BY <1>0, <2>1 DEF RowWritten, Inv, TypeOK
  <1>2. up' \in BOOLEAN /\ artifact' \in [Job -> AttemptId \union {None}]
    BY DEF RetryBarrier, Inv, TypeOK
  <1>3. AttemptsKept => Actors'
    BY ActorsKept DEF RetryBarrier
  <1>4. job[j].state \notin {"NONE", "STOPPING"} /\ SetState(j, "STOPPING") /\ ~HasOperation(job[j].task)
    BY DEF RetryBarrier, Terminal
  <1>5. ops' = ops \union {NewOperation(j, "retry", None, FALSE, TRUE)}
    BY DEF RetryBarrier
  <1>6. "retry" \in Action \ {"stop-seeding"} /\ None \in Provider \union {None}
    BY DEF Action
  <1> QED BY <1>1, <1>2, <1>3, <1>4, <1>5, <1>6, StoppedStep

\* Queued work is cancelled at once.
LEMMA CancelQueuedStep == ASSUME Inv, NEW j \in Job, CancelQueued(j) PROVE Step
  <1>1. RowWritten(j, "CANCELLED")
    <2>1. job' = [job EXCEPT ![j].state = "CANCELLED"]
      BY DEF CancelQueued
    <2> QED BY <2>1, States, StateMoved
  <1>2. up' \in BOOLEAN /\ artifact' \in [Job -> AttemptId \union {None}]
    BY DEF CancelQueued, Inv, TypeOK
  <1> QED BY <1>1, <1>2, AdvanceStep, ActorsKept DEF CancelQueued, JobState, Terminal

\* What ran is stopped.
LEMMA CancelBarrierStep == ASSUME Inv, NEW j \in Job, CancelBarrier(j) PROVE Step
  <1>1. RowWritten(j, "STOPPING")
    <2>1. job' = [job EXCEPT ![j].state = "STOPPING"]
      BY DEF CancelBarrier
    <2> QED BY <2>1, States, StateMoved
  <1>2. up' \in BOOLEAN /\ artifact' \in [Job -> AttemptId \union {None}]
    BY DEF CancelBarrier, Inv, TypeOK
  <1>3. AttemptsKept => Actors'
    BY ActorsKept DEF CancelBarrier
  <1>4. job[j].state \notin {"NONE", "STOPPING"} /\ SetState(j, "STOPPING") /\ ~HasOperation(job[j].task)
    BY DEF CancelBarrier
  <1>5. ops' = ops \union {NewOperation(j, "cancel", None, FALSE, TRUE)}
    BY DEF CancelBarrier
  <1>6. "cancel" \in Action \ {"stop-seeding"} /\ None \in Provider \union {None}
    BY DEF Action
  <1> QED BY <1>1, <1>2, <1>3, <1>4, <1>5, <1>6, StoppedStep

\* The row is stopped for the sake of its successor.
LEMMA SwitchSourceStep == ASSUME Inv, NEW j \in Job, NEW p \in Provider, SwitchSource(j, p) PROVE Step
  <1>1. RowWritten(j, "STOPPING")
    <2>1. job' = [job EXCEPT ![j].state = "STOPPING"]
      BY DEF SwitchSource
    <2> QED BY <2>1, States, StateMoved
  <1>2. up' \in BOOLEAN /\ artifact' \in [Job -> AttemptId \union {None}]
    BY DEF SwitchSource, Inv, TypeOK
  <1> QED BY <1>1, <1>2, StoppedStep, ActorsKept DEF SwitchSource, Action


\* The row is stopped for another account.
LEMMA ReplaceStoppedAccountStep == ASSUME Inv, NEW j \in Job, ReplaceStoppedAccount(j) PROVE Step
  \* A row that is already STOPPING has its operation.
  <1>1. job[j].state # "STOPPING"
    BY DEF ReplaceStoppedAccount, Inv, StoppingHasOperation, HasOperation
  <1>2. RowWritten(j, "STOPPING")
    <2>1. job' = [job EXCEPT ![j].state = "STOPPING", ![j].permanent = FALSE]
      BY DEF ReplaceStoppedAccount
    <2> QED BY <2>1, States, StateReset
  <1>3. up' \in BOOLEAN /\ artifact' \in [Job -> AttemptId \union {None}]
    BY DEF ReplaceStoppedAccount, Inv, TypeOK
  <1>4. AttemptsKept => Actors'
    BY ActorsKept DEF ReplaceStoppedAccount
  <1>5. job[j].state # "NONE" /\ SetState(j, "STOPPING") /\ ~HasOperation(job[j].task)
    BY DEF ReplaceStoppedAccount, Occupying
  <1>6. ops' = ops \union {NewOperation(j, "replace-account", None, FALSE, TRUE)}
    BY DEF ReplaceStoppedAccount
  <1>7. "replace-account" \in Action \ {"stop-seeding"} /\ None \in Provider \union {None}
    BY DEF Action
  <1> QED BY <1>1, <1>2, <1>3, <1>4, <1>5, <1>6, <1>7, StoppedStep

\* A step that leaves the rows and the past of the executions alone.
LEMMA UntouchedRows ==
    ASSUME UNCHANGED <<job, task, attempt>>
    PROVE  RowsKept /\ AttemptsKept
  BY DEF RowsKept, RowKept, AttemptsKept, AttemptKept

\* The operation leaves the finished row as it is.
LEMMA StopSeedingStep == ASSUME Inv, NEW j \in Job, StopSeeding(j) PROVE Step
  <1>1. NewOperation(j, "stop-seeding", None, FALSE, TRUE) \in Operation
    <2>1. job[j].state # "NONE" /\ "stop-seeding" \in Action /\ None \in Provider \union {None}
      BY DEF StopSeeding, Action
    <2> QED BY <2>1, NewOperationType
  <1>2. TypeOK'
    BY <1>1 DEF StopSeeding, Inv, TypeOK
  <1>3. SeedingStop(j)
    BY UntouchedRows DEF StopSeeding, SeedingStop
  <1> QED BY <1>2, <1>3, ActorsKept, UntouchedRows DEF StopSeeding, Step, Shape

\* The operation is renamed and keeps its snapshot.
LEMMA CancelReplacementStep == ASSUME Inv, NEW j \in Job, CancelReplacement(j) PROVE Step
  <1>1. PICK o \in ops : /\ o.action = "replace-account"
                         /\ ops' = (ops \ {o}) \union {[o EXCEPT !.action = "cancel"]}
    BY DEF CancelReplacement
  <1>2. [o EXCEPT !.action = "cancel"] \in Operation
    BY DEF Inv, TypeOK, Operation, Action
  <1>3. TypeOK'
    BY <1>1, <1>2 DEF CancelReplacement, Inv, TypeOK
  <1>4. TakenOver(o)
    BY <1>1, UntouchedRows DEF CancelReplacement, TakenOver
  <1> QED BY <1>3, <1>4, ActorsKept, UntouchedRows DEF CancelReplacement, Step, Shape

\* The administrator can do nothing else.
LEMMA CommandStep == ASSUME Inv, NEW j \in Job, Command(j) PROVE Step
  BY EnqueueStep, PauseStep, ResumeStep, RetryQueuedStep, RetryBarrierStep, CancelQueuedStep, CancelBarrierStep,
     CancelReplacementStep, SwitchSourceStep, StopSeedingStep, ReplaceStoppedAccountStep
  DEF Command

-----------------------------------------------------------------------------
(* The worker. *)

\* The worker takes a step.
LEMMA WorkerGoes ==
    ASSUME Inv, AttemptsKept, UNCHANGED <<poller, stopper>>, worker.pc # "idle",
           NEW pc \in WorkerPc, WorkerTo(pc)
    PROVE  Actors'
  <1>1. /\ worker \in Execution(WorkerPc)
        /\ poller \in Execution(PollerPc)
        /\ stopper \in [pc : StopperPc, op : Operation \union {None}]
        /\ ExecutionLinked(worker) /\ ExecutionLinked(poller)
        /\ stopper.pc # "idle" => stopper.op \in Operation
    BY DEF Inv, TypeOK, RowsLinked
  <1>2. worker' \in Execution(WorkerPc) /\ worker'.attempt = worker.attempt
    BY <1>1 DEF WorkerTo, Execution
  <1>3. ExecutionLinked(worker)' /\ ExecutionLinked(poller)'
    BY <1>1, <1>2 DEF ExecutionLinked, AttemptsKept, AttemptKept
  <1> QED BY <1>1, <1>2, <1>3 DEF Actors

\* The worker is done with its execution.
LEMMA WorkerLeaves ==
    ASSUME Inv, AttemptsKept, UNCHANGED <<poller, stopper>>, worker' = Idle
    PROVE  Actors'
  <1>1. /\ poller \in Execution(PollerPc)
        /\ stopper \in [pc : StopperPc, op : Operation \union {None}]
        /\ ExecutionLinked(poller)
        /\ stopper.pc # "idle" => stopper.op \in Operation
    BY DEF Inv, TypeOK, RowsLinked
  <1>2. worker' \in Execution(WorkerPc) /\ worker'.pc = "idle"
    BY DEF Idle, Execution, WorkerPc
  <1>3. ExecutionLinked(worker)' /\ ExecutionLinked(poller)'
    BY <1>1, <1>2 DEF ExecutionLinked, AttemptsKept, AttemptKept
  <1> QED BY <1>1, <1>2, <1>3 DEF Actors

\* A commit of an execution that is still valid writes the row of its own task.
LEMMA ValidExecution ==
    ASSUME Inv, NEW x, x.pc # "idle", ExecutionLinked(x), Valid(x)
    PROVE  /\ x.attempt \in AttemptId
           /\ TaskOf(x) \in TaskId
           /\ JobOf(x) \in Job
           /\ job[JobOf(x)].task = TaskOf(x)
           /\ job[JobOf(x)].state \notin {"NONE", "STOPPING", "CANCELLED"}
           /\ AttemptOf(JobOf(x)) = x.attempt
           /\ x.attempt # None
  <1>1. x.attempt \in AttemptId /\ attempt[x.attempt].status # "NONE"
    BY DEF ExecutionLinked
  <1>2. TaskOf(x) \in TaskId /\ JobOf(x) \in Job
    BY <1>1 DEF Inv, RowsLinked, AttemptLinked, TaskOf, JobOf
  <1>3. job[JobOf(x)].task = TaskOf(x) /\ task[TaskOf(x)].attempt = x.attempt
        /\ task[TaskOf(x)].status \notin {"STOPPING", "CANCELLED"}
    BY DEF Valid, TaskOf, JobOf
  <1>4. job[JobOf(x)].state \notin {"NONE", "STOPPING", "CANCELLED"}
    BY <1>2, <1>3, ConstantsAssumption DEF Inv, RowsLinked, JobLinked
  <1> QED BY <1>1, <1>2, <1>3, <1>4, ConstantsAssumption DEF AttemptOf

\* A step that leaves rows, executions and operations alone has a shape.
LEMMA QuietStep ==
    ASSUME Inv, RowsKept, AttemptsKept, ops' = ops, TypeOK', Actors'
    PROVE  Step
  BY DEF Step, Shape, Quiet

\* A queued row gets an execution with a new identity.
LEMMA ClaimStep == ASSUME Inv, NEW j \in Job, Claim(j) PROVE Step
  <1> USE ConstantsAssumption
  <1>1. TypeOK /\ job[j].state = "PENDING" /\ job[j].task \in TaskId /\ worker.pc = "idle"
    BY CurrentAttempt DEF Inv, Claim, WorkerAt
  <1> DEFINE t == job[j].task
  <1>2. PICK a \in UnusedAttempt :
            /\ job' = [job EXCEPT ![j].state = "DOWNLOADING"]
            /\ task' = [task EXCEPT ![t] = [Mirror(@, "DOWNLOADING") EXCEPT !.attempt = a]]
            /\ attempt' = [attempt EXCEPT ![a] = FreshAttempt(t, task[t].generation)]
            /\ leased' = leased \union {a}
            /\ worker' = [pc |-> "claimed", attempt |-> a, generation |-> task[t].generation, cancelled |-> FALSE]
    BY DEF Claim
  <1>3. a \in AttemptId /\ task[t] \in TaskRow /\ task[t].generation \in Nat
    BY <1>1 DEF UnusedAttempt, TypeOK, TaskRow
  <1>4. RowWritten(j, "DOWNLOADING")
    BY <1>1, <1>2 DEF RowWritten, TypeOK, JobRow, JobState
  <1>5. /\ task'[t] \in TaskRow
        /\ task'[t].job = task[t].job
        /\ task'[t].status = "DOWNLOADING"
        /\ task'[t].attempt = a
        /\ task'[t].generation = task[t].generation
    <2> DEFINE m == Mirror(task[t], "DOWNLOADING")
    <2>1. m \in TaskRow /\ m.job = task[t].job /\ m.status = "DOWNLOADING" /\ m.generation = task[t].generation
      BY <1>3, MirrorLemma DEF JobState
    <2>2. task'[t] = [m EXCEPT !.attempt = a]
      BY <1>1, <1>2 DEF TypeOK
    <2> HIDE DEF m
    <2> QED BY <1>3, <2>1, <2>2 DEF TaskRow
  <1>6. FreshAttempt(t, task[t].generation) \in AttemptRow
        /\ FreshAttempt(t, task[t].generation).task = t
        /\ FreshAttempt(t, task[t].generation).status = "DOWNLOADING"
    BY <1>1, <1>3 DEF FreshAttempt, NoAttempt, AttemptRow, JobState, Resource
  <1>7. worker' \in Execution(WorkerPc) /\ worker'.attempt = a
    BY <1>2, <1>3 DEF Execution, WorkerPc
  <1>8. TypeOK'
    BY <1>1, <1>2, <1>3, <1>4, <1>5, <1>6, <1>7 DEF TypeOK, RowWritten, Claim
  <1>9. /\ \A b \in AttemptId \ {a} : attempt'[b] = attempt[b]
        /\ attempt'[a] = FreshAttempt(t, task[t].generation)
    BY <1>1, <1>2, <1>3 DEF TypeOK
  <1>10. Claimed(j, a)
    BY <1>1, <1>2, <1>3, <1>4, <1>5, <1>6, <1>9 DEF Claimed, RowWritten, RowKept, AttemptKept, TypeOK, Claim
  <1>11. Actors'
    <2>1. ExecutionLinked(poller)
      BY DEF Inv, RowsLinked
    <2>2. ExecutionLinked(poller)' /\ ExecutionLinked(worker)'
      BY <1>3, <1>6, <1>7, <1>9, <2>1 DEF ExecutionLinked, Claim
    <2> QED BY <1>8, <2>2 DEF Actors, Claim, Inv, RowsLinked, TypeOK
  <1> QED BY <1>3, <1>8, <1>10, <1>11 DEF Step, Shape

\* Writing the remote resource of an execution leaves its history alone.
LEMMA ResourceWritten ==
    ASSUME Inv, NEW a \in AttemptId, attempt[a].status # "NONE", NEW r \in Resource,
           attempt' = [attempt EXCEPT ![a].resource = r]
    PROVE  attempt' \in [AttemptId -> AttemptRow] /\ AttemptsKept
  <1>1. attempt \in [AttemptId -> AttemptRow]
    BY DEF Inv, TypeOK
  <1>2. /\ attempt' \in [AttemptId -> AttemptRow]
        /\ \A b \in AttemptId \ {a} : attempt'[b] = attempt[b]
        /\ attempt'[a].task = attempt[a].task
        /\ attempt'[a].status = attempt[a].status
        /\ attempt'[a].finished = attempt[a].finished
    BY <1>1 DEF AttemptRow
  <1> QED BY <1>2 DEF AttemptsKept, AttemptKept

\* No row is touched.
LEMMA RegisterStep == ASSUME Inv, Register PROVE Step
  <1>1. Actors'
    BY UntouchedRows, WorkerGoes DEF Register, WorkerAt, WorkerPc, tables
  <1>2. TypeOK'
    BY <1>1 DEF Inv, TypeOK, Register, tables, Actors
  <1> QED BY <1>1, <1>2, UntouchedRows, QuietStep DEF Register, tables

\* The execution starts, or leaves because it is not valid.
LEMMA BeginStep == ASSUME Inv, Begin PROVE Step
  <1>1. RowsKept /\ AttemptsKept
    BY UntouchedRows DEF Begin, tables
  <1>2. Actors'
    <2>1. CASE Valid(worker)
      BY <1>1, <2>1, WorkerGoes DEF Begin, WorkerAt, WorkerTo, WorkerPc
    <2>2. CASE ~Valid(worker)
      BY <1>1, <2>2, WorkerLeaves DEF Begin
    <2> QED BY <2>1, <2>2
  <1>3. TypeOK'
    BY <1>2 DEF Inv, TypeOK, Begin, tables, Actors
  <1> QED BY <1>1, <1>2, <1>3, QuietStep DEF Begin, tables

\* The case of the worker.
LEMMA WorkerValid ==
    ASSUME Inv, worker.pc # "idle", Valid(worker)
    PROVE  /\ worker.attempt \in AttemptId
           /\ attempt[worker.attempt].status # "NONE"
           /\ TaskOf(worker) \in TaskId
           /\ JobOf(worker) \in Job
           /\ job[JobOf(worker)].task = TaskOf(worker)
           /\ job[JobOf(worker)].state \notin {"NONE", "STOPPING", "CANCELLED"}
           /\ AttemptOf(JobOf(worker)) = worker.attempt
           /\ worker.attempt # None
  <1>1. ExecutionLinked(worker)
    BY DEF Inv, RowsLinked
  <1> QED BY <1>1, ValidExecution DEF ExecutionLinked

\* Only the details of the row change.
LEMMA SelectAccountStep == ASSUME Inv, SelectAccount PROVE Step
  <1> DEFINE j == JobOf(worker)
  <1>1. j \in Job
    BY WorkerValid DEF SelectAccount, WorkerAt
  <1>2. job \in [Job -> JobRow] /\ job' = [job EXCEPT ![j].details.account = TRUE]
    BY DEF Inv, TypeOK, SelectAccount
  <1>3. /\ job' \in [Job -> JobRow]
        /\ \A i \in Job \ {j} : job'[i] = job[i]
        /\ job'[j].state = job[j].state
        /\ job'[j].task = job[j].task
    <2> HIDE DEF j
    <2> QED BY <1>1, <1>2 DEF JobRow, Details
  <1>4. RowsKept /\ AttemptsKept
    BY <1>3 DEF RowsKept, RowKept, SelectAccount, AttemptsKept, AttemptKept
  <1>5. TypeOK'
    BY <1>3 DEF Inv, TypeOK, SelectAccount
  <1> QED BY <1>4, <1>5, ActorsKept, QuietStep DEF SelectAccount

\* A row finishes or parks: the fields its state does not need are reset.
LEMMA RecordArtifactStep == ASSUME Inv, RecordArtifact PROVE Step
  <1> DEFINE j == JobOf(worker)
  <1>1. /\ j \in Job /\ worker.attempt \in AttemptId
        /\ job[j].state \notin {"NONE", "STOPPING", "CANCELLED"}
    BY WorkerValid DEF RecordArtifact, WorkerAt
  <1>2. artifact' \in [Job -> AttemptId \union {None}]
    BY <1>1 DEF Inv, TypeOK, RecordArtifact, SaveArtifact
  <1>3. CASE j[2] \in Delegated
    <2>1. RowsKept /\ AttemptsKept
      BY <1>3, UntouchedRows DEF RecordArtifact
    <2>2. Actors'
      BY <1>3, <2>1, WorkerGoes DEF RecordArtifact, WorkerAt, WorkerPc
    <2>3. TypeOK'
      BY <1>2, <1>3, <2>2 DEF RecordArtifact, Inv, TypeOK, Actors
    <2> QED BY <2>1, <2>2, <2>3, QuietStep DEF RecordArtifact
  <1>4. CASE j[2] \notin Delegated
    <2>1. job' = [job EXCEPT ![j].state = "COMPLETED", ![j].permanent = FALSE] /\ SetState(j, "COMPLETED")
      BY <1>4 DEF RecordArtifact
    <2>2. RowWritten(j, "COMPLETED")
      <3> HIDE DEF j
      <3> QED BY <1>1, <2>1, States, StateReset
    <2>3. AttemptsKept => Actors'
      BY <1>4, WorkerGoes DEF RecordArtifact, WorkerAt, WorkerPc
    <2>4. ops' = ops /\ up' \in BOOLEAN
      BY DEF RecordArtifact, Inv, TypeOK
    <2>5. "COMPLETED" \in JobState \ {"NONE", "STOPPING"}
      BY DEF JobState, Terminal
    <2> HIDE DEF j
    <2> QED BY <1>1, <1>2, <2>1, <2>2, <2>3, <2>4, <2>5, AdvanceStep
  <1> QED BY <1>3, <1>4

\* The row of a delegated source finishes.
LEMMA CompleteJobStep == ASSUME Inv, CompleteJob PROVE Step
  <1> DEFINE j == JobOf(worker)
  <1>1. j \in Job /\ job[j].state \notin {"NONE", "STOPPING", "CANCELLED"}
    BY WorkerValid DEF CompleteJob, WorkerAt
  <1>2. job' = [job EXCEPT ![j].state = "COMPLETED", ![j].permanent = FALSE] /\ SetState(j, "COMPLETED")
    BY DEF CompleteJob
  <1>3. RowWritten(j, "COMPLETED")
    <2> HIDE DEF j
    <2> QED BY <1>1, <1>2, States, StateReset
  <1>4. AttemptsKept => Actors'
    BY WorkerGoes DEF CompleteJob, WorkerAt, WorkerPc
  <1>5. ops' = ops /\ up' \in BOOLEAN /\ artifact' \in [Job -> AttemptId \union {None}]
    BY DEF CompleteJob, Inv, TypeOK
  <1>6. "COMPLETED" \in JobState \ {"NONE", "STOPPING"}
    BY DEF JobState, Terminal
  <1> HIDE DEF j
  <1> QED BY <1>1, <1>2, <1>3, <1>4, <1>5, <1>6, AdvanceStep

\* Only the resource of the execution is written.
LEMMA PushIntentStep == ASSUME Inv, PushIntent PROVE Step
  <1>1. worker.attempt \in AttemptId /\ attempt[worker.attempt].status # "NONE"
    BY WorkerValid DEF PushIntent, WorkerAt
  <1>2. attempt' \in [AttemptId -> AttemptRow] /\ AttemptsKept
    BY <1>1, ResourceWritten DEF PushIntent, Resource
  <1>3. Actors'
    BY <1>2, WorkerGoes DEF PushIntent, WorkerAt, WorkerPc
  <1>4. TypeOK'
    BY <1>2, <1>3 DEF Inv, TypeOK, PushIntent, Actors
  <1> QED BY <1>2, <1>3, <1>4, QuietStep DEF PushIntent, RowsKept, RowKept

\* The answer is written even for a revoked execution; its history stays.
LEMMA PushOutcomeStep == ASSUME Inv, PushOutcome PROVE Step
  <1>1. PICK answer \in {<<"STOP_CONFIRMED", "failing">>, <<"REGISTERED", "pushed">>,
                         <<"INTENDED", "pushed">>, <<"INTENDED", "failing">>} :
            /\ attempt' = [attempt EXCEPT ![worker.attempt].resource = answer[1]]
            /\ WorkerTo(answer[2])
    BY DEF PushOutcome
  <1>2. worker.attempt \in AttemptId /\ attempt[worker.attempt].status # "NONE" /\ worker.pc # "idle"
    BY DEF PushOutcome, WorkerAt, Inv, RowsLinked, ExecutionLinked
  <1>3. answer[1] \in Resource /\ answer[2] \in WorkerPc
    BY DEF Resource, WorkerPc
  <1>4. attempt' \in [AttemptId -> AttemptRow] /\ AttemptsKept
    BY <1>1, <1>2, <1>3, ResourceWritten
  <1>5. Actors'
    BY <1>1, <1>2, <1>3, <1>4, WorkerGoes DEF PushOutcome
  <1>6. TypeOK'
    BY <1>4, <1>5 DEF Inv, TypeOK, PushOutcome, Actors
  <1> QED BY <1>4, <1>5, <1>6, QuietStep DEF PushOutcome, RowsKept, RowKept

\* The row is parked with its execution.
LEMMA ParkStep == ASSUME Inv, Park PROVE Step
  <1> DEFINE j == JobOf(worker)
  <1>1. j \in Job /\ job[j].state \notin {"NONE", "STOPPING", "CANCELLED"} /\ AttemptOf(j) # None
    BY WorkerValid DEF Park, WorkerAt
  <1>2. /\ job' = [job EXCEPT ![j].state = "WAITING_TORRENT", ![j].permanent = FALSE, ![j].details.hash = TRUE]
        /\ SetState(j, "WAITING_TORRENT")
    BY DEF Park
  <1>3. RowWritten(j, "WAITING_TORRENT")
    <2> HIDE DEF j
    <2>1. job \in [Job -> JobRow] /\ job[j] \in JobRow /\ job[j].details \in Details
      BY <1>1 DEF Inv, TypeOK, JobRow
    <2> DEFINE d == [job[j].details EXCEPT !.hash = TRUE]
               r == [job[j] EXCEPT !.state = "WAITING_TORRENT", !.permanent = FALSE, !.details = d]
    <2>2. job' = [job EXCEPT ![j] = r]
      BY <1>1, <1>2, <2>1
    <2>3. d \in Details
      BY <2>1 DEF Details
    <2> HIDE DEF d
    <2>4. r \in JobRow /\ r.state = "WAITING_TORRENT" /\ r.task = job[j].task
      BY <2>1, <2>3 DEF JobRow, JobState
    <2> HIDE DEF r
    <2> QED BY <1>1, <2>1, <2>2, <2>4 DEF RowWritten
  <1>4. AttemptsKept => Actors'
    BY WorkerGoes DEF Park, WorkerAt, WorkerPc
  <1>5. ops' = ops /\ up' \in BOOLEAN /\ artifact' \in [Job -> AttemptId \union {None}]
    BY DEF Park, Inv, TypeOK
  <1>6. "WAITING_TORRENT" \in JobState \ {"NONE", "STOPPING"}
    BY DEF JobState
  <1> HIDE DEF j
  <1> QED BY <1>1, <1>2, <1>3, <1>4, <1>5, <1>6, AdvanceStep

\* The row stays as it is.
LEMMA WorkerExitStep == ASSUME Inv, WorkerExit PROVE Step
  <1>1. RowsKept /\ AttemptsKept
    BY UntouchedRows DEF WorkerExit, tables
  <1>2. Actors'
    BY <1>1, WorkerLeaves DEF WorkerExit
  <1>3. TypeOK'
    BY <1>2 DEF Inv, TypeOK, WorkerExit, tables, Actors
  <1> QED BY <1>1, <1>2, <1>3, QuietStep DEF WorkerExit, tables

\* A failure that ends in STOPPING counts as one stop.
LEMMA FailedStoppedStep ==
    ASSUME Inv, NEW j \in Job, job[j].state \notin {"NONE", "STOPPING"}, AttemptOf(j) # None,
           RowWritten(j, "STOPPING"), SetFailedThenStopping(j), ~HasOperation(job[j].task),
           NEW action \in {"replace-account", "cancel"},
           ops' = ops \union {NewOperation(j, action, None, FALSE, FALSE)},
           up' \in BOOLEAN, artifact' \in [Job -> AttemptId \union {None}], AttemptsKept => Actors'
    PROVE  Step
  <1> USE ConstantsAssumption
  <1> DEFINE t == job[j].task
             r == Mirror(task[t], "FAILED")
  <1>1. /\ TypeOK
        /\ t \in TaskId
        /\ task[t].status = job[j].state
        /\ AttemptOf(j) \in AttemptId
        /\ attempt[AttemptOf(j)].status # "NONE"
        /\ task[t] \in TaskRow
    BY CurrentAttempt DEF Inv, TypeOK
  <1>2. /\ r \in TaskRow /\ r.job = task[t].job /\ r.attempt = task[t].attempt
        /\ r.status = "FAILED" /\ r.generation = task[t].generation
    BY <1>1, MirrorLemma DEF JobState, Terminal
  <1>3. /\ Mirror(r, "STOPPING") \in TaskRow
        /\ Mirror(r, "STOPPING").job = task[t].job
        /\ Mirror(r, "STOPPING").attempt = task[t].attempt
        /\ Mirror(r, "STOPPING").status = "STOPPING"
        /\ Mirror(r, "STOPPING").generation = task[t].generation + 1
    <2> HIDE DEF r
    <2> QED BY <1>2, MirrorLemma DEF JobState
  <1>4. /\ task' = [task EXCEPT ![t] = Mirror(r, "STOPPING")]
        /\ attempt' = [attempt EXCEPT ![AttemptOf(j)] = Record(attempt[AttemptOf(j)], "FAILED")]
        /\ leased' = leased \ {AttemptOf(j)}
        /\ SlotFree(j)
    BY DEF SetFailedThenStopping
  <1>5. Moved(j, "STOPPING") /\ task' \in [TaskId -> TaskRow]
    <2> HIDE DEF r
    <2> QED BY <1>1, <1>3, <1>4 DEF Moved, RowWritten, RowKept, TypeOK
  <1>6. AttemptsKept /\ attempt' \in [AttemptId -> AttemptRow]
    <2>1. /\ Record(attempt[AttemptOf(j)], "FAILED") \in AttemptRow
          /\ Record(attempt[AttemptOf(j)], "FAILED").task = attempt[AttemptOf(j)].task
          /\ Record(attempt[AttemptOf(j)], "FAILED").status # "NONE"
          /\ attempt[AttemptOf(j)].finished =>
                /\ Record(attempt[AttemptOf(j)], "FAILED").finished
                /\ Record(attempt[AttemptOf(j)], "FAILED").status = attempt[AttemptOf(j)].status
      BY <1>1, RecordLemma DEF TypeOK, JobState, Terminal
    <2> QED BY <1>1, <1>4, <2>1 DEF AttemptsKept, AttemptKept, TypeOK
  <1>7. ops' \subseteq Operation
    <2>1. action \in Action /\ None \in Provider \union {None}
      BY DEF Action
    <2>2. NewOperation(j, action, None, FALSE, FALSE) \in Operation
      BY <2>1, NewOperationType
    <2> QED BY <1>1, <2>2 DEF TypeOK
  <1>8. TypeOK'
    BY <1>1, <1>4, <1>5, <1>6, <1>7 DEF TypeOK, RowWritten, Actors
  <1>9. Stopped(j, action, None, FALSE, FALSE)
    BY <1>4, <1>5, <1>6 DEF Stopped
  <1>10. action \in Action /\ None \in Provider \union {None}
    BY DEF Action
  <1> QED BY <1>6, <1>8, <1>9, <1>10 DEF Step, Shape

\* The row fails, or fails and is stopped in one transaction.
LEMMA FailJobStep == ASSUME Inv, FailJob PROVE Step
  <1> DEFINE j == JobOf(worker)
  <1>1. j \in Job /\ job[j].state \notin {"NONE", "STOPPING", "CANCELLED"} /\ AttemptOf(j) # None
    BY WorkerValid DEF FailJob
  <1>2. AttemptsKept => Actors'
    BY WorkerGoes DEF FailJob, WorkerPc
  <1>3. up' \in BOOLEAN /\ artifact' \in [Job -> AttemptId \union {None}]
    BY DEF FailJob, Inv, TypeOK
  <1>4. PICK permanent \in BOOLEAN :
          \/ /\ job' = [job EXCEPT ![j].state = "FAILED", ![j].permanent = permanent]
             /\ SetState(j, "FAILED")
             /\ UNCHANGED ops
          \/ \E action \in {"replace-account", "cancel"} :
                /\ ~HasOperation(job[j].task)
                /\ ops' = ops \union {NewOperation(j, action, None, FALSE, FALSE)}
                /\ job' = [job EXCEPT ![j].state = "STOPPING", ![j].permanent = permanent]
                /\ SetFailedThenStopping(j)
    BY DEF FailJob
  <1> HIDE DEF j
  <1>5. ASSUME NEW s \in {"FAILED", "STOPPING"}, job' = [job EXCEPT ![j].state = s, ![j].permanent = permanent]
        PROVE  RowWritten(j, s)
    <2>1. s \in JobState
      BY States
    <2> QED BY <1>1, <1>5, <2>1, StateWritten
  <1>6. CASE /\ job' = [job EXCEPT ![j].state = "FAILED", ![j].permanent = permanent]
             /\ SetState(j, "FAILED")
             /\ UNCHANGED ops
    <2>1. "FAILED" \in JobState \ {"NONE", "STOPPING"}
      BY DEF JobState, Terminal
    <2> QED BY <1>1, <1>2, <1>3, <1>5, <1>6, <2>1, AdvanceStep
  <1>7. ASSUME NEW action \in {"replace-account", "cancel"},
               ~HasOperation(job[j].task),
               ops' = ops \union {NewOperation(j, action, None, FALSE, FALSE)},
               job' = [job EXCEPT ![j].state = "STOPPING", ![j].permanent = permanent],
               SetFailedThenStopping(j)
        PROVE  Step
    BY <1>1, <1>2, <1>3, <1>5, <1>7, FailedStoppedStep
  <1> QED BY <1>4, <1>6, <1>7

\* Every step of the worker has a shape.
LEMMA WorkerStepStep == ASSUME Inv, WorkerStep PROVE Step
  BY ClaimStep, RegisterStep, BeginStep, SelectAccountStep, RecordArtifactStep, CompleteJobStep,
     PushIntentStep, PushOutcomeStep, ParkStep, FailJobStep, WorkerExitStep
  DEF WorkerStep

-----------------------------------------------------------------------------
(* The poller. *)

\* The poller takes a step.
LEMMA PollerAdvances ==
    ASSUME Inv, AttemptsKept, UNCHANGED <<worker, stopper>>, poller.pc # "idle", NEW pc \in PollerPc, PollerTo(pc)
    PROVE  Actors'
  <1>1. /\ worker \in Execution(WorkerPc)
        /\ poller \in Execution(PollerPc)
        /\ stopper \in [pc : StopperPc, op : Operation \union {None}]
        /\ ExecutionLinked(worker) /\ ExecutionLinked(poller)
        /\ stopper.pc # "idle" => stopper.op \in Operation
    BY DEF Inv, TypeOK, RowsLinked
  <1>2. poller' \in Execution(PollerPc) /\ poller'.attempt = poller.attempt
    BY <1>1 DEF PollerTo, Execution
  <1>3. ExecutionLinked(worker)' /\ ExecutionLinked(poller)'
    BY <1>1, <1>2 DEF ExecutionLinked, AttemptsKept, AttemptKept
  <1> QED BY <1>1, <1>2, <1>3 DEF Actors

\* The poller is done with its execution.
LEMMA PollerLeaves ==
    ASSUME Inv, AttemptsKept, UNCHANGED <<worker, stopper>>, poller' = Idle
    PROVE  Actors'
  <1>1. /\ worker \in Execution(WorkerPc)
        /\ stopper \in [pc : StopperPc, op : Operation \union {None}]
        /\ ExecutionLinked(worker)
        /\ stopper.pc # "idle" => stopper.op \in Operation
    BY DEF Inv, TypeOK, RowsLinked
  <1>2. poller' \in Execution(PollerPc) /\ poller'.pc = "idle"
    BY DEF Idle, Execution, PollerPc
  <1>3. ExecutionLinked(worker)' /\ ExecutionLinked(poller)'
    BY <1>1, <1>2 DEF ExecutionLinked, AttemptsKept, AttemptKept
  <1> QED BY <1>1, <1>2, <1>3 DEF Actors

\* The poller takes the execution of a parked row.
LEMMA PollReadStep == ASSUME Inv, NEW j \in Job, PollRead(j) PROVE Step
  <1>1. RowsKept /\ AttemptsKept
    BY UntouchedRows DEF PollRead, tables
  <1>2. /\ job[j].task \in TaskId
        /\ AttemptOf(j) \in AttemptId
        /\ attempt[AttemptOf(j)].status # "NONE"
        /\ task[job[j].task].generation \in Nat
    <2>1. job[j].task \in TaskId /\ task[job[j].task].status = "WAITING_TORRENT" /\ AttemptOf(j) \in AttemptId \union {None}
      BY CurrentAttempt DEF PollRead
    <2>2. AttemptOf(j) # None
      BY <2>1 DEF Inv, RowsLinked, TaskLinked, AttemptOf
    <2> QED BY <2>1, <2>2, CurrentAttempt DEF PollRead, Inv, TypeOK, TaskRow
  <1>3. /\ poller' \in Execution(PollerPc)
        /\ poller'.attempt = AttemptOf(j)
    BY <1>2 DEF PollRead, Execution, PollerPc
  <1>4. Actors'
    BY <1>2, <1>3 DEF Actors, ExecutionLinked, PollRead, tables, Inv, TypeOK, RowsLinked
  <1>5. TypeOK'
    BY <1>3 DEF Inv, TypeOK, PollRead, tables
  <1> QED BY <1>1, <1>4, <1>5, QuietStep DEF PollRead, tables

\* The child task starts, or leaves because it is not valid.
LEMMA PollBeginStep == ASSUME Inv, PollBegin PROVE Step
  <1>1. RowsKept /\ AttemptsKept
    BY UntouchedRows DEF PollBegin, tables
  <1>2. Actors'
    <2>1. CASE Valid(poller)
      BY <1>1, <2>1, PollerAdvances DEF PollBegin, PollerAt, PollerTo, PollerPc
    <2>2. CASE ~Valid(poller)
      BY <1>1, <2>2, PollerLeaves DEF PollBegin
    <2> QED BY <2>1, <2>2
  <1>3. TypeOK'
    BY <1>2 DEF Inv, TypeOK, PollBegin, tables, Actors
  <1> QED BY <1>1, <1>2, <1>3, QuietStep DEF PollBegin, tables

\* The case of the poller.
LEMMA PollerValid ==
    ASSUME Inv, poller.pc # "idle", Valid(poller)
    PROVE  /\ poller.attempt \in AttemptId
           /\ attempt[poller.attempt].status # "NONE"
           /\ TaskOf(poller) \in TaskId
           /\ JobOf(poller) \in Job
           /\ job[JobOf(poller)].task = TaskOf(poller)
           /\ job[JobOf(poller)].state \notin {"NONE", "STOPPING", "CANCELLED"}
           /\ AttemptOf(JobOf(poller)) = poller.attempt
           /\ poller.attempt # None
  <1>1. ExecutionLinked(poller)
    BY DEF Inv, RowsLinked
  <1> QED BY <1>1, ValidExecution DEF ExecutionLinked

\* Only the resource of the execution is written.
LEMMA PollObserveStep == ASSUME Inv, PollObserve PROVE Step
  <1>1. poller.attempt \in AttemptId /\ attempt[poller.attempt].status # "NONE"
    BY PollerValid DEF PollObserve, PollerAt
  <1>2. attempt' \in [AttemptId -> AttemptRow] /\ AttemptsKept
    BY <1>1, ResourceWritten DEF PollObserve, Resource
  <1>3. Actors'
    <2>1. CASE poller' = Idle
      BY <1>2, <2>1, PollerLeaves DEF PollObserve
    <2>2. CASE poller' = [poller EXCEPT !.pc = "delivered"]
      BY <1>2, <2>2, PollerAdvances DEF PollObserve, PollerAt, PollerTo, PollerPc
    <2> QED BY <2>1, <2>2 DEF PollObserve
  <1>4. TypeOK'
    BY <1>2, <1>3 DEF Inv, TypeOK, PollObserve, Actors
  <1> QED BY <1>2, <1>3, <1>4, QuietStep DEF PollObserve, RowsKept, RowKept

\* Only the resource of the execution is written.
LEMMA PollDetachStep == ASSUME Inv, PollDetach PROVE Step
  <1>1. poller.attempt \in AttemptId /\ attempt[poller.attempt].status # "NONE"
    BY PollerValid DEF PollDetach, PollerAt
  <1>2. attempt' \in [AttemptId -> AttemptRow] /\ AttemptsKept
    BY <1>1, ResourceWritten DEF PollDetach, Resource
  <1>3. Actors'
    BY <1>2, PollerAdvances DEF PollDetach, PollerAt, PollerPc
  <1>4. TypeOK'
    BY <1>2, <1>3 DEF Inv, TypeOK, PollDetach, Actors
  <1> QED BY <1>2, <1>3, <1>4, QuietStep DEF PollDetach, RowsKept, RowKept

\* Only the details of the row change.
LEMMA PollUnseedStep == ASSUME Inv, PollUnseed PROVE Step
  <1> DEFINE j == JobOf(poller)
  <1>1. j \in Job
    BY PollerValid DEF PollUnseed, PollerAt
  <1>2. job \in [Job -> JobRow] /\ job' = [job EXCEPT ![j].details.seeding = FALSE]
    BY DEF Inv, TypeOK, PollUnseed
  <1>3. /\ job' \in [Job -> JobRow]
        /\ \A i \in Job \ {j} : job'[i] = job[i]
        /\ job'[j].state = job[j].state
        /\ job'[j].task = job[j].task
    <2> HIDE DEF j
    <2> QED BY <1>1, <1>2 DEF JobRow, Details
  <1>4. RowsKept /\ AttemptsKept
    BY <1>3 DEF RowsKept, RowKept, PollUnseed, AttemptsKept, AttemptKept
  <1>5. Actors'
    BY <1>4, PollerLeaves DEF PollUnseed
  <1>6. TypeOK'
    BY <1>3, <1>5 DEF Inv, TypeOK, PollUnseed, Actors
  <1> QED BY <1>4, <1>5, <1>6, QuietStep DEF PollUnseed

\* No row is touched.
LEMMA PollErrorStep == ASSUME Inv, PollError PROVE Step
  <1>1. RowsKept /\ AttemptsKept
    BY UntouchedRows DEF PollError, tables
  <1>2. Actors'
    BY <1>1, PollerAdvances DEF PollError, PollerPc
  <1>3. TypeOK'
    BY <1>2 DEF Inv, TypeOK, PollError, tables, Actors
  <1> QED BY <1>1, <1>2, <1>3, QuietStep DEF PollError, tables

\* No row is touched.
LEMMA PollExitStep == ASSUME Inv, PollExit PROVE Step
  <1>1. RowsKept /\ AttemptsKept
    BY UntouchedRows DEF PollExit, tables
  <1>2. Actors'
    BY <1>1, PollerLeaves DEF PollExit
  <1>3. TypeOK'
    BY <1>2 DEF Inv, TypeOK, PollExit, tables, Actors
  <1> QED BY <1>1, <1>2, <1>3, QuietStep DEF PollExit, tables

\* The mirrored task of a row that is written.
LEMMA MirrorMoves ==
    ASSUME Inv, NEW j \in Job, NEW s \in JobState, job[j].state # "NONE",
           RowWritten(j, s), task' = [task EXCEPT ![job[j].task] = Mirror(@, s)]
    PROVE  Moved(j, s) /\ task' \in [TaskId -> TaskRow]
  <1> DEFINE t == job[j].task
  <1>1. TypeOK /\ t \in TaskId /\ task[t] \in TaskRow
    BY CurrentAttempt DEF Inv, TypeOK
  <1>2. /\ \A u \in TaskId \ {t} : task'[u] = task[u]
        /\ task'[t] = Mirror(task[t], s)
    BY <1>1 DEF TypeOK
  <1>3. Mirror(task[t], s) \in TaskRow
    BY <1>1, MirrorLemma
  <1>4. task' \in [TaskId -> TaskRow]
    BY <1>1, <1>3 DEF TypeOK
  <1> QED BY <1>1, <1>2, <1>4, MirrorLemma DEF Moved, RowWritten, RowKept

\* The row finishes together with the payloads of its task.
LEMMA PollCompleteStep == ASSUME Inv, PollComplete PROVE Step
  <1> DEFINE j == JobOf(poller)
             t == TaskOf(poller)
  <1>1. /\ j \in Job /\ t \in TaskId /\ poller.attempt \in AttemptId
        /\ job[j].task = t
        /\ job[j].state \notin {"NONE", "STOPPING", "CANCELLED"}
        /\ poller.pc # "idle"
    BY PollerValid DEF PollComplete, PollerAt
  <1>2. /\ job' = [job EXCEPT ![j].state = "COMPLETED", ![j].permanent = FALSE, ![j].details.seeding = TRUE]
        /\ task' = [task EXCEPT ![t] = Mirror(@, "COMPLETED")]
        /\ attempt' = [a \in AttemptId |->
                      LET r == attempt[a] IN
                      IF r.task # t THEN r
                      ELSE [(IF a = poller.attempt THEN Record(r, "COMPLETED") ELSE r)
                               EXCEPT !.payload = r.resource # "NONE"]]
        /\ artifact' = [artifact EXCEPT ![j] = poller.attempt]
        /\ ops' = ops /\ leased' = leased /\ up' = up
    BY DEF PollComplete, SaveArtifact
  <1>3. RowWritten(j, "COMPLETED")
    <2> HIDE DEF j
    <2>1. job \in [Job -> JobRow] /\ job[j] \in JobRow /\ job[j].details \in Details
      BY <1>1 DEF Inv, TypeOK, JobRow
    <2> DEFINE d == [job[j].details EXCEPT !.seeding = TRUE]
               r == [job[j] EXCEPT !.state = "COMPLETED", !.permanent = FALSE, !.details = d]
    <2>2. job' = [job EXCEPT ![j] = r]
      BY <1>1, <1>2, <2>1
    <2>3. d \in Details
      BY <2>1 DEF Details
    <2> HIDE DEF d
    <2>4. r \in JobRow /\ r.state = "COMPLETED" /\ r.task = job[j].task
      BY <2>1, <2>3 DEF JobRow, JobState, Terminal
    <2> HIDE DEF r
    <2> QED BY <1>1, <2>1, <2>2, <2>4 DEF RowWritten
  <1>4. attempt' \in [AttemptId -> AttemptRow] /\ AttemptsKept
    <2> SUFFICES ASSUME NEW a \in AttemptId
                 PROVE  attempt'[a] \in AttemptRow /\ AttemptKept(a)
      BY <1>2 DEF AttemptsKept
    <2>1. attempt[a] \in AttemptRow
      BY DEF Inv, TypeOK
    <2>2. CASE attempt[a].task # t
      BY <1>2, <2>1, <2>2 DEF AttemptKept
    <2>3. CASE attempt[a].task = t
      <3>1. attempt[a].status # "NONE"
        BY <1>1, <2>3, ConstantsAssumption DEF Inv, RowsLinked, AttemptLinked, NoAttempt
      <3> DEFINE q == IF a = poller.attempt THEN Record(attempt[a], "COMPLETED") ELSE attempt[a]
                 b == attempt[a].resource # "NONE"
      <3>2. attempt'[a] = [q EXCEPT !.payload = b] /\ b \in BOOLEAN
        BY <1>2, <2>3
      <3>3. /\ q \in AttemptRow /\ q.task = attempt[a].task /\ q.status # "NONE"
            /\ attempt[a].finished => q.finished /\ q.status = attempt[a].status
        <4>1. "COMPLETED" \in JobState /\ "COMPLETED" # "NONE"
          BY DEF JobState, Terminal
        <4> QED BY <2>1, <3>1, <4>1, RecordLemma
      <3> HIDE DEF q, b
      <3>4. /\ [q EXCEPT !.payload = b] \in AttemptRow
            /\ [q EXCEPT !.payload = b].task = q.task
            /\ [q EXCEPT !.payload = b].status = q.status
            /\ [q EXCEPT !.payload = b].finished = q.finished
        BY <3>2, <3>3 DEF AttemptRow
      <3> QED BY <3>1, <3>2, <3>3, <3>4 DEF AttemptKept
    <2> QED BY <2>2, <2>3
  <1>5. artifact' \in [Job -> AttemptId \union {None}]
    <2> HIDE DEF j
    <2> QED BY <1>1, <1>2 DEF Inv, TypeOK
  <1>6. Actors'
    BY <1>1, <1>4, PollerAdvances DEF PollComplete, PollerPc
  <1>7. Moved(j, "COMPLETED") /\ task' \in [TaskId -> TaskRow]
    <2>1. "COMPLETED" \in JobState
      BY DEF JobState, Terminal
    <2> HIDE DEF j, t
    <2> QED BY <1>1, <1>2, <1>3, <2>1, MirrorMoves
  <1> HIDE DEF j, t
  <1>8. TypeOK'
    BY <1>2, <1>3, <1>4, <1>5, <1>6, <1>7 DEF Inv, TypeOK, RowWritten, Actors
  <1>9. Advance(j, "COMPLETED")
    BY <1>1, <1>2, <1>4, <1>7 DEF Advance, Occupying, Terminal
  <1>10. "COMPLETED" \in JobState
    BY DEF JobState, Terminal
  <1> QED BY <1>1, <1>6, <1>8, <1>9, <1>10 DEF Step, Shape

\* The row fails, or fails and is stopped in one transaction.
LEMMA PollFailStep == ASSUME Inv, PollFail PROVE Step
  <1> DEFINE j == JobOf(poller)
  <1>1. j \in Job /\ job[j].state \notin {"NONE", "STOPPING", "CANCELLED"} /\ AttemptOf(j) # None
    BY PollerValid DEF PollFail, PollerAt
  <1>2. AttemptsKept => Actors'
    BY PollerLeaves DEF PollFail
  <1>3. up' \in BOOLEAN /\ artifact' \in [Job -> AttemptId \union {None}]
    BY DEF PollFail, Inv, TypeOK
  <1>4. PICK permanent \in BOOLEAN :
          \/ /\ job' = [job EXCEPT ![j].state = "FAILED", ![j].permanent = permanent]
             /\ SetState(j, "FAILED")
             /\ UNCHANGED ops
          \/ /\ ~HasOperation(job[j].task)
             /\ ops' = ops \union {NewOperation(j, "cancel", None, FALSE, FALSE)}
             /\ job' = [job EXCEPT ![j].state = "STOPPING", ![j].permanent = permanent]
             /\ SetFailedThenStopping(j)
    BY DEF PollFail
  <1> HIDE DEF j
  <1>5. ASSUME NEW s \in {"FAILED", "STOPPING"}, job' = [job EXCEPT ![j].state = s, ![j].permanent = permanent]
        PROVE  RowWritten(j, s)
    <2>1. s \in JobState
      BY States
    <2> QED BY <1>1, <1>5, <2>1, StateWritten
  <1>6. CASE /\ job' = [job EXCEPT ![j].state = "FAILED", ![j].permanent = permanent]
             /\ SetState(j, "FAILED")
             /\ UNCHANGED ops
    <2>1. "FAILED" \in JobState \ {"NONE", "STOPPING"}
      BY DEF JobState, Terminal
    <2> QED BY <1>1, <1>2, <1>3, <1>5, <1>6, <2>1, AdvanceStep
  <1>7. CASE /\ ~HasOperation(job[j].task)
             /\ ops' = ops \union {NewOperation(j, "cancel", None, FALSE, FALSE)}
             /\ job' = [job EXCEPT ![j].state = "STOPPING", ![j].permanent = permanent]
             /\ SetFailedThenStopping(j)
    BY <1>1, <1>2, <1>3, <1>5, <1>7, FailedStoppedStep
  <1> QED BY <1>4, <1>6, <1>7

\* Every step of the poller has a shape.
LEMMA PollerStepStep == ASSUME Inv, PollerStep PROVE Step
  BY PollReadStep, PollBeginStep, PollObserveStep, PollCompleteStep, PollDetachStep, PollUnseedStep,
     PollErrorStep, PollFailStep, PollExitStep
  DEF PollerStep

-----------------------------------------------------------------------------
(* The operation processor. *)

\* The local part of a stop touches what the executions hold, never a row.
LEMMA ProceedFromLocalActors ==
    ASSUME Inv, UNCHANGED <<attempt, worker>>, NEW o \in Operation, ProceedFromLocal(o)
    PROVE  Actors'
  <1> USE ConstantsAssumption
  <1>1. /\ worker \in Execution(WorkerPc)
        /\ poller \in Execution(PollerPc)
        /\ ExecutionLinked(worker) /\ ExecutionLinked(poller)
    BY DEF Inv, TypeOK, RowsLinked
  <1>2. poller' \in Execution(PollerPc) /\ poller'.attempt = poller.attempt /\ poller'.pc = poller.pc
    BY <1>1 DEF ProceedFromLocal, Execution
  <1>3. stopper' \in [pc : StopperPc, op : Operation \union {None}] /\ stopper'.op = o
    BY DEF ProceedFromLocal, StopperPc
  <1>4. ExecutionLinked(worker)' /\ ExecutionLinked(poller)'
    BY <1>1, <1>2 DEF ExecutionLinked
  <1> QED BY <1>1, <1>2, <1>3, <1>4 DEF Actors

\* An operation is taken up; the execution is told to stop.
LEMMA StopPickStep == ASSUME Inv, NEW o \in ops, StopPick(o) PROVE Step
  <1>1. RowsKept /\ AttemptsKept
    BY UntouchedRows DEF StopPick, tables
  <1>2. o \in Operation
    BY DEF Inv, TypeOK
  <1>3. Actors'
    <2>1. CASE WorkerHandle(o.task)
      <3>1. /\ worker \in Execution(WorkerPc)
            /\ poller \in Execution(PollerPc)
            /\ ExecutionLinked(worker) /\ ExecutionLinked(poller)
        BY DEF Inv, TypeOK, RowsLinked
      <3>2. worker' \in Execution(WorkerPc) /\ worker'.attempt = worker.attempt /\ worker'.pc = worker.pc
        BY <2>1, <3>1 DEF StopPick, Execution
      <3>3. stopper' \in [pc : StopperPc, op : Operation \union {None}] /\ stopper'.op = o
        BY <1>2, <2>1 DEF StopPick, StopperPc
      <3>4. ExecutionLinked(worker)' /\ ExecutionLinked(poller)'
        BY <2>1, <3>1, <3>2 DEF ExecutionLinked, StopPick, tables
      <3> QED BY <1>2, <2>1, <3>1, <3>2, <3>3, <3>4 DEF Actors, StopPick
    <2>2. CASE ~WorkerHandle(o.task)
      BY <1>2, <2>2, ProceedFromLocalActors DEF StopPick, tables
    <2> QED BY <2>1, <2>2
  <1>4. TypeOK'
    BY <1>3 DEF Inv, TypeOK, StopPick, tables, Actors
  <1> QED BY <1>1, <1>3, <1>4, QuietStep DEF StopPick, tables

\* The local execution has ended.
LEMMA StopLocalStep == ASSUME Inv, StopLocal PROVE Step
  <1>1. RowsKept /\ AttemptsKept
    BY UntouchedRows DEF StopLocal, tables
  <1>2. stopper.op \in Operation
    BY DEF StopLocal, StopperAt, Inv, RowsLinked
  <1>3. Actors'
    BY <1>2, ProceedFromLocalActors DEF StopLocal, tables
  <1>4. TypeOK'
    BY <1>3 DEF Inv, TypeOK, StopLocal, tables, Actors
  <1> QED BY <1>1, <1>3, <1>4, QuietStep DEF StopLocal, tables

\* A resource belongs to an execution that exists.
LEMMA StopResourceStep == ASSUME Inv, NEW a \in AttemptId, StopResource(a) PROVE Step
  <1>1. attempt[a].status # "NONE"
    BY DEF StopResource, Unresolved, Inv, RowsLinked, AttemptLinked, NoAttempt
  <1>2. attempt' \in [AttemptId -> AttemptRow] /\ AttemptsKept
    BY <1>1, ResourceWritten DEF StopResource, Resource
  <1>3. Actors'
    BY <1>2, ActorsKept DEF StopResource
  <1>4. TypeOK'
    BY <1>2 DEF Inv, TypeOK, StopResource
  <1> QED BY <1>2, <1>3, <1>4, QuietStep DEF StopResource, RowsKept, RowKept

\* The processor's own progress.
LEMMA StopperGoes ==
    ASSUME Inv, AttemptsKept, UNCHANGED <<worker, poller>>,
           stopper' \in [pc : StopperPc, op : Operation \union {None}],
           stopper'.pc # "idle" => stopper'.op \in Operation
    PROVE  Actors'
  <1>1. /\ worker \in Execution(WorkerPc)
        /\ poller \in Execution(PollerPc)
        /\ ExecutionLinked(worker) /\ ExecutionLinked(poller)
    BY DEF Inv, TypeOK, RowsLinked
  <1>2. ExecutionLinked(worker)' /\ ExecutionLinked(poller)'
    BY <1>1 DEF ExecutionLinked, AttemptsKept, AttemptKept
  <1> QED BY <1>1, <1>2 DEF Actors

\* The processor puts its operation down.
LEMMA StopperStops ==
    ASSUME Inv, AttemptsKept, UNCHANGED <<worker, poller>>, stopper' = NoStop
    PROVE  Actors'
  BY StopperGoes DEF NoStop, StopperPc

\* Only the processor moves.
LEMMA StopRemoteStep == ASSUME Inv, StopRemote PROVE Step
  <1>1. RowsKept /\ AttemptsKept
    BY UntouchedRows DEF StopRemote, tables
  <1>2. stopper \in [pc : StopperPc, op : Operation \union {None}] /\ stopper.op \in Operation
    BY DEF StopRemote, StopperAt, Inv, TypeOK, RowsLinked
  <1>3. stopper' \in [pc : StopperPc, op : Operation \union {None}] /\ stopper'.op = stopper.op
    BY <1>2 DEF StopRemote, StopperTo, StopperPc
  <1>4. Actors'
    BY <1>1, <1>2, <1>3, StopperGoes DEF StopRemote
  <1>5. TypeOK'
    BY <1>4 DEF Inv, TypeOK, StopRemote, tables, Actors
  <1> QED BY <1>1, <1>4, <1>5, QuietStep DEF StopRemote, tables

\* Only the processor moves.
LEMMA StopErrorStep == ASSUME Inv, StopError PROVE Step
  <1>1. RowsKept /\ AttemptsKept
    BY UntouchedRows DEF StopError, tables
  <1>2. Actors'
    BY <1>1, StopperStops DEF StopError
  <1>3. TypeOK'
    BY <1>2 DEF Inv, TypeOK, StopError, tables, Actors
  <1> QED BY <1>1, <1>2, <1>3, QuietStep DEF StopError, tables

\* An operation that finishes finds its row STOPPING.
LEMMA FinishingRow ==
    ASSUME Inv, NEW p \in ops, Finishing(p), p.action # "stop-seeding"
    PROVE  /\ p.job \in Job
           /\ job[p.job].task = p.task
           /\ p.task \in TaskId
           /\ job[p.job].state = "STOPPING"
           /\ ops' = ops \ {p}
           /\ ops' \subseteq Operation
           /\ stopper' = NoStop
  <1> USE ConstantsAssumption
  <1>1. p \in Operation /\ ops \subseteq Operation
    BY DEF Inv, TypeOK
  <1>2. p.job \in Job /\ p.task \in TaskId
    BY <1>1 DEF Operation
  <1>3. job[p.job].task = p.task /\ task[p.task].status = "STOPPING" /\ ops' = ops \ {p} /\ stopper' = NoStop
    BY DEF Finishing
  <1>4. job[p.job].state = "STOPPING"
    BY <1>2, <1>3 DEF Inv, RowsLinked, JobLinked
  <1> QED BY <1>1, <1>2, <1>3, <1>4

\* The row is released: it keeps its task.
LEMMA ReleasedStep ==
    ASSUME Inv, NEW p \in ops, Finishing(p), p.action # "stop-seeding",
           NEW s \in {"CANCELLED", "FAILED", "PENDING"},
           RowWritten(p.job, s), Moved(p.job, s), AttemptsKept,
           task' \in [TaskId -> TaskRow], attempt' \in [AttemptId -> AttemptRow], leased' \subseteq AttemptId,
           UNCHANGED <<artifact, up, worker, poller>>
    PROVE  Step
  <1>1. /\ p.job \in Job /\ job[p.job].task = p.task /\ job[p.job].state = "STOPPING"
        /\ ops' = ops \ {p} /\ ops' \subseteq Operation /\ stopper' = NoStop
    BY FinishingRow
  <1>2. Actors'
    BY <1>1, StopperStops
  <1>3. TypeOK'
    BY <1>1, <1>2 DEF Inv, TypeOK, RowWritten, Actors
  <1>4. Released(p.job, s, p)
    BY <1>1 DEF Released
  <1>5. s \in JobState
    BY DEF JobState, Terminal
  <1> QED BY <1>1, <1>2, <1>3, <1>4, <1>5 DEF Step, Shape

\* A stopped row is cancelled.
LEMMA CancelWithStep == ASSUME Inv, NEW p \in ops, p.action # "stop-seeding", CancelWith(p) PROVE Step
  <1>1. Finishing(p) /\ SetState(p.job, "CANCELLED") /\ UNCHANGED <<artifact, up, worker, poller>>
    BY DEF CancelWith
  <1>2. p.job \in Job /\ job[p.job].state = "STOPPING"
    BY <1>1, FinishingRow
  <1>3. RowWritten(p.job, "CANCELLED")
    BY <1>2 DEF CancelWith, RowWritten, Inv, TypeOK, JobRow, JobState, Terminal
  <1>4. "CANCELLED" \in JobState \ {"NONE"} /\ "CANCELLED" \in {"CANCELLED", "FAILED", "PENDING"}
    BY DEF JobState, Terminal
  <1>5. /\ Moved(p.job, "CANCELLED") /\ AttemptsKept
        /\ task' \in [TaskId -> TaskRow]
        /\ attempt' \in [AttemptId -> AttemptRow]
        /\ leased' \subseteq AttemptId
    BY <1>1, <1>2, <1>3, <1>4, SetStateMoves
  <1> QED BY <1>1, <1>3, <1>4, <1>5, ReleasedStep

\* A stopped row fails.
LEMMA FinishExhaustedStep == ASSUME Inv, NEW p \in ops, FinishExhausted(p) PROVE Step
  <1>1. /\ Finishing(p) /\ SetState(p.job, "FAILED") /\ UNCHANGED <<artifact, up, worker, poller>>
        /\ p.action # "stop-seeding"
    BY DEF FinishExhausted
  <1>2. p.job \in Job /\ job[p.job].state = "STOPPING"
    BY <1>1, FinishingRow
  <1>3. RowWritten(p.job, "FAILED")
    BY <1>2 DEF FinishExhausted, RowWritten, Inv, TypeOK, JobRow, JobState, Terminal
  <1>4. "FAILED" \in JobState \ {"NONE"} /\ "FAILED" \in {"CANCELLED", "FAILED", "PENDING"}
    BY DEF JobState, Terminal
  <1>5. /\ Moved(p.job, "FAILED") /\ AttemptsKept
        /\ task' \in [TaskId -> TaskRow]
        /\ attempt' \in [AttemptId -> AttemptRow]
        /\ leased' \subseteq AttemptId
    BY <1>1, <1>2, <1>3, <1>4, SetStateMoves
  <1> QED BY <1>1, <1>3, <1>4, <1>5, ReleasedStep

\* What a stop leaves of the execution that is given up.
LEMMA AttemptCancelled ==
    ASSUME Inv, NEW j \in Job, job[j].state # "NONE",
           attempt' = IF AttemptOf(j) = None THEN attempt
                      ELSE [attempt EXCEPT ![AttemptOf(j)] = Record(@, "CANCELLED")]
    PROVE  attempt' \in [AttemptId -> AttemptRow] /\ AttemptsKept
  <1>1. attempt \in [AttemptId -> AttemptRow]
    BY DEF Inv, TypeOK
  <1>2. CASE AttemptOf(j) = None
    BY <1>1, <1>2 DEF AttemptsKept, AttemptKept
  <1>3. CASE AttemptOf(j) # None
    <2> DEFINE a == AttemptOf(j)
    <2>1. a \in AttemptId /\ attempt[a] \in AttemptRow /\ attempt[a].status # "NONE"
      BY <1>1, <1>3, CurrentAttempt
    <2> DEFINE r == Record(attempt[a], "CANCELLED")
    <2>2. /\ r \in AttemptRow /\ r.task = attempt[a].task /\ r.status # "NONE"
          /\ attempt[a].finished => r.finished /\ r.status = attempt[a].status
      <3>1. "CANCELLED" \in JobState /\ "CANCELLED" # "NONE"
        BY DEF JobState, Terminal
      <3> QED BY <2>1, <3>1, RecordLemma
    <2>3. attempt' = [attempt EXCEPT ![a] = r]
      BY <1>3
    <2> HIDE DEF a, r
    <2> QED BY <1>1, <2>1, <2>2, <2>3 DEF AttemptsKept, AttemptKept
  <1> QED BY <1>2, <1>3

\* What a fresh task is.
LEMMA FreshTaskType ==
    ASSUME NEW k \in Job, NEW g \in Nat
    PROVE  /\ FreshTask(k, g) \in TaskRow
           /\ FreshTask(k, g).job = k
           /\ FreshTask(k, g).status = "PENDING"
           /\ FreshTask(k, g).attempt = None
  BY DEF FreshTask, TaskRow, JobState

\* A stopped row is followed by a row of the same work under a new task.
LEMMA SucceededStep ==
    ASSUME Inv, NEW p \in ops, Finishing(p), p.action # "stop-seeding", NEW k \in Job, NEW u \in UnusedTask,
           WorkOf(k) = WorkOf(p.job), NEW g \in Nat,
           job' \in [Job -> JobRow],
           job'[k].state = "PENDING" /\ job'[k].task = u,
           k # p.job => job'[p.job].state = "CANCELLED" /\ job'[p.job].task = job[p.job].task,
           \A i \in Job \ {p.job, k} : job'[i] = job[i],
           task' = [task EXCEPT ![p.task] = Mirror(task[p.task], "CANCELLED"), ![u] = FreshTask(k, g)],
           attempt' = IF AttemptOf(p.job) = None THEN attempt
                      ELSE [attempt EXCEPT ![AttemptOf(p.job)] = Record(@, "CANCELLED")],
           leased' = leased \ {AttemptOf(p.job)},
           UNCHANGED <<artifact, up, worker, poller>>
    PROVE  Step
  <1> DEFINE j == p.job
             t == p.task
  <1>1. /\ j \in Job /\ job[j].task = t /\ t \in TaskId /\ job[j].state = "STOPPING"
        /\ ops' = ops \ {p} /\ ops' \subseteq Operation /\ stopper' = NoStop
    BY FinishingRow
  <1>2. TypeOK /\ task[t] \in TaskRow /\ u \in TaskId /\ u # t
    BY <1>1, DistinctTasks DEF Inv, TypeOK, UnusedTask
  <1>3. Mirror(task[t], "CANCELLED") \in TaskRow
    BY <1>2, MirrorLemma DEF JobState, Terminal
  <1>4. /\ task' \in [TaskId -> TaskRow]
        /\ task'[u] = FreshTask(k, g)
        /\ task'[t] = Mirror(task[t], "CANCELLED")
        /\ \A v \in TaskId \ {u, t} : task'[v] = task[v]
    BY <1>1, <1>2, <1>3, FreshTaskType DEF TypeOK
  <1>5. attempt' \in [AttemptId -> AttemptRow] /\ AttemptsKept
    <2>1. job[j].state # "NONE"
      BY <1>1
    <2> QED BY <1>1, <2>1, AttemptCancelled
  <1>6. leased' \subseteq AttemptId
    BY <1>2 DEF TypeOK
  <1>7. Actors'
    BY <1>1, <1>5, StopperStops
  <1>8. TypeOK'
    BY <1>1, <1>2, <1>4, <1>5, <1>6, <1>7 DEF TypeOK, Actors
  <1>9. Renewed(k, u)
    BY <1>4, FreshTaskType DEF Renewed
  <1>10. Succeeded(j, k, u, p)
    BY <1>1, <1>4, <1>5, <1>9 DEF Succeeded, RowKept
  <1> QED BY <1>1, <1>2, <1>7, <1>8, <1>10 DEF Step, Shape

\* A stopped row goes on as a fresh task.
LEMMA FinishRetryStep == ASSUME Inv, NEW p \in ops, FinishRetry(p) PROVE Step
  <1> DEFINE j == p.job
             old == Mirror(task[p.task], "CANCELLED")
  <1>1. Finishing(p) /\ p.action # "stop-seeding"
    BY DEF FinishRetry
  <1>2. j \in Job /\ p.task \in TaskId
    BY <1>1, FinishingRow
  <1>3. PICK u \in UnusedTask :
          /\ Requeue(j, u, EmptyDetails, job[j].recovery)
          /\ task' = [task EXCEPT ![p.task] = old, ![u] = FreshTask(j, old.generation + 1)]
    BY DEF FinishRetry
  <1>4. old.generation + 1 \in Nat
    <2>1. task[p.task] \in TaskRow
      BY <1>2 DEF Inv, TypeOK
    <2>2. old \in TaskRow
      BY <2>1, MirrorLemma DEF JobState, Terminal
    <2> HIDE DEF old
    <2> QED BY <2>2 DEF TaskRow
  <1>5. /\ job' \in [Job -> JobRow]
        /\ job'[j].state = "PENDING" /\ job'[j].task = u
        /\ \A i \in Job \ {j} : job'[i] = job[i]
    <2> DEFINE r == [state |-> "PENDING", task |-> u, details |-> EmptyDetails,
                     recovery |-> job[j].recovery, permanent |-> FALSE]
    <2>1. job \in [Job -> JobRow] /\ job[j].recovery \in Nat /\ u \in TaskId
      BY <1>2 DEF Inv, TypeOK, JobRow, UnusedTask
    <2>2. EmptyDetails \in Details
      BY ConstantsAssumption DEF EmptyDetails, Details
    <2>3. r \in JobRow /\ r.state = "PENDING" /\ r.task = u
      BY <2>1, <2>2 DEF JobRow, JobState
    <2>4. job' = [job EXCEPT ![j] = r]
      BY <1>3 DEF Requeue
    <2> HIDE DEF r
    <2> QED BY <1>2, <2>1, <2>3, <2>4
  <1>6. /\ attempt' = IF AttemptOf(j) = None THEN attempt
                      ELSE [attempt EXCEPT ![AttemptOf(j)] = Record(@, "CANCELLED")]
        /\ leased' = leased \ {AttemptOf(j)}
        /\ UNCHANGED <<artifact, up, worker, poller>>
    BY DEF FinishRetry
  <1> DEFINE g == old.generation + 1
  <1>7. g \in Nat /\ task' = [task EXCEPT ![p.task] = Mirror(task[p.task], "CANCELLED"), ![u] = FreshTask(j, g)]
    BY <1>3, <1>4
  <1> HIDE DEF g
  <1> QED BY <1>1, <1>2, <1>5, <1>6, <1>7, SucceededStep

\* A stopped row is followed by the row of the other source, possibly itself.
LEMMA FinishSwitchStep == ASSUME Inv, NEW p \in ops, FinishSwitch(p) PROVE Step
  <1> DEFINE j == p.job
             k == <<WorkOf(j), p.target>>
             old == Mirror(task[p.task], "CANCELLED")
             g == IF k = j THEN old.generation + 1 ELSE NextGeneration(k)
  <1>1. Finishing(p) /\ p.action # "stop-seeding"
    BY DEF FinishSwitch
  <1>2. j \in Job /\ p.task \in TaskId /\ job[j].task = p.task /\ job[j].state = "STOPPING"
    BY <1>1, FinishingRow
  <1>3. p.target \in Provider
    BY DEF FinishSwitch, Inv, RowsLinked, OperationLinked
  <1>4. k \in Job /\ WorkOf(k) = WorkOf(j)
    BY <1>2, <1>3 DEF Job, WorkOf
  <1>5. PICK u \in UnusedTask :
          /\ job' = [[job EXCEPT ![j].state = "CANCELLED"] EXCEPT
                        ![k] = [state |-> "PENDING", task |-> u, details |-> EmptyDetails,
                                recovery |-> @.recovery, permanent |-> FALSE]]
          /\ task' = [task EXCEPT ![p.task] = old, ![u] = FreshTask(k, g)]
    BY DEF FinishSwitch
  <1>6. g \in Nat
    <2>1. task[p.task] \in TaskRow
      BY <1>2 DEF Inv, TypeOK
    <2>2. old \in TaskRow
      BY <2>1, MirrorLemma DEF JobState, Terminal
    <2>3. old.generation + 1 \in Nat
      <3> HIDE DEF old
      <3> QED BY <2>2 DEF TaskRow
    <2>4. NextGeneration(k) \in Nat
      <3> HIDE DEF k
      <3>1. job[k].state # "NONE" => task[job[k].task].generation \in Nat
        BY <1>4, CurrentAttempt DEF Inv, TypeOK, TaskRow
      <3> QED BY <3>1 DEF NextGeneration
    <2> QED BY <2>3, <2>4
  <1>7. /\ job' \in [Job -> JobRow]
        /\ job'[k].state = "PENDING" /\ job'[k].task = u
        /\ k # j => job'[j].state = "CANCELLED" /\ job'[j].task = job[j].task
        /\ \A i \in Job \ {j, k} : job'[i] = job[i]
    <2> HIDE DEF j, k
    <2> DEFINE c == [job[j] EXCEPT !.state = "CANCELLED"]
               half == [job EXCEPT ![j] = c]
               r == [state |-> "PENDING", task |-> u, details |-> EmptyDetails,
                     recovery |-> half[k].recovery, permanent |-> FALSE]
    <2>1. job \in [Job -> JobRow] /\ job[j] \in JobRow /\ u \in TaskId
      BY <1>2 DEF Inv, TypeOK, UnusedTask
    <2>2. c \in JobRow /\ c.state = "CANCELLED" /\ c.task = job[j].task
      BY <2>1 DEF JobRow, JobState, Terminal
    <2>3. job' = [half EXCEPT ![k] = r]
      BY <1>5
    <2> HIDE DEF c
    <2>4. /\ half \in [Job -> JobRow] /\ half[j] = c
          /\ \A i \in Job \ {j} : half[i] = job[i]
      BY <1>2, <2>1, <2>2
    <2> HIDE DEF half
    <2>5. half[k].recovery \in Nat
      BY <1>4, <2>4 DEF JobRow
    <2>6. EmptyDetails \in Details
      BY ConstantsAssumption DEF EmptyDetails, Details
    <2>7. r \in JobRow /\ r.state = "PENDING" /\ r.task = u
      BY <2>1, <2>5, <2>6 DEF JobRow, JobState
    <2> HIDE DEF r
    <2> QED BY <1>2, <1>4, <2>2, <2>3, <2>4, <2>7
  <1>8. /\ attempt' = IF AttemptOf(j) = None THEN attempt
                      ELSE [attempt EXCEPT ![AttemptOf(j)] = Record(@, "CANCELLED")]
        /\ leased' = leased \ {AttemptOf(j)}
        /\ UNCHANGED <<artifact, up, worker, poller>>
    BY DEF FinishSwitch
  <1>9. task' = [task EXCEPT ![p.task] = Mirror(task[p.task], "CANCELLED"), ![u] = FreshTask(k, g)]
    BY <1>5
  <1> HIDE DEF g, k
  <1> QED BY <1>1, <1>4, <1>6, <1>7, <1>8, <1>9, SucceededStep

\* A stopped row is queued with the next account, or fails.
LEMMA FinishReplacementStep == ASSUME Inv, NEW p \in ops, FinishReplacement(p) PROVE Step
  <1> DEFINE j == p.job
             a == p.attempt
  <1>1. /\ Finishing(p) /\ p.action # "stop-seeding"
        /\ a = task[p.task].attempt
        /\ attempt' = [attempt EXCEPT ![a] = Record(@, "CANCELLED")]
        /\ leased' = leased \ {a}
        /\ UNCHANGED <<artifact, up, worker, poller>>
    BY DEF FinishReplacement
  <1>2. j \in Job /\ job[j].task = p.task /\ job[j].state = "STOPPING"
    BY <1>1, FinishingRow
  <1>3. PICK s \in {"PENDING", "FAILED"}, permanent \in BOOLEAN :
          /\ task' = [task EXCEPT ![p.task] = Mirror(@, s)]
          /\ \/ /\ s = "PENDING"
                /\ PoolLeft(j)
                /\ job' = [job EXCEPT ![j] = [job[j] EXCEPT !.state = "PENDING", !.permanent = FALSE,
                                                            !.details = NextAccount(job[j].details)]]
             \/ /\ s = "FAILED"
                /\ job' = [job EXCEPT ![j].state = "FAILED", ![j].permanent = permanent]
    BY DEF FinishReplacement
  <1>4. RowWritten(j, s)
    <2> HIDE DEF j
    <2>1. job \in [Job -> JobRow] /\ job[j] \in JobRow /\ job[j].details \in Details
      BY <1>2 DEF Inv, TypeOK, JobRow
    <2>2. ASSUME PoolLeft(j),
                 job' = [job EXCEPT ![j] = [job[j] EXCEPT !.state = "PENDING", !.permanent = FALSE,
                                                          !.details = NextAccount(job[j].details)]]
          PROVE  RowWritten(j, "PENDING")
      <3> DEFINE n == job[j].details.replaced + 1
                 d == [job[j].details EXCEPT !.account = TRUE, !.replaced = n]
                 r == [job[j] EXCEPT !.state = "PENDING", !.permanent = FALSE, !.details = d]
      <3>1. n \in 0..PoolSize
        BY <2>1, <2>2, ConstantsAssumption DEF PoolLeft, Details
      <3>2. job' = [job EXCEPT ![j] = r]
        BY <2>2 DEF NextAccount
      <3> HIDE DEF n
      <3>3. d \in Details
        BY <2>1, <3>1 DEF Details
      <3> HIDE DEF d
      <3>4. r \in JobRow /\ r.state = "PENDING" /\ r.task = job[j].task
        BY <2>1, <3>3 DEF JobRow, JobState
      <3> HIDE DEF r
      <3> QED BY <1>2, <2>1, <3>2, <3>4 DEF RowWritten
    <2>3. ASSUME NEW lasting \in BOOLEAN, job' = [job EXCEPT ![j].state = "FAILED", ![j].permanent = lasting]
          PROVE  RowWritten(j, "FAILED")
      BY <1>2, <2>3, States, StateWritten
    <2> QED BY <1>3, <2>2, <2>3
  <1>5. s \in JobState /\ s # "NONE"
    BY DEF JobState, Terminal
  <1>6. a = AttemptOf(j) /\ a \in AttemptId \union {None}
    BY <1>1, <1>2, CurrentAttempt DEF AttemptOf
  <1>7. attempt' \in [AttemptId -> AttemptRow] /\ AttemptsKept
    <2> HIDE DEF a, j
    <2>1. attempt' = IF AttemptOf(j) = None THEN attempt
                     ELSE [attempt EXCEPT ![AttemptOf(j)] = Record(@, "CANCELLED")]
      <3>1. CASE a = None
        <4>1. attempt \in [AttemptId -> AttemptRow] /\ a \notin AttemptId
          BY <3>1, ConstantsAssumption DEF Inv, TypeOK
        <4> QED BY <1>1, <1>6, <3>1, <4>1
      <3>2. CASE a # None
        BY <1>1, <1>6, <3>2
      <3> QED BY <3>1, <3>2
    <2> QED BY <1>2, <2>1, AttemptCancelled
  <1>8. leased' \subseteq AttemptId
    BY <1>1 DEF Inv, TypeOK
  <1>9. Moved(j, s) /\ task' \in [TaskId -> TaskRow]
    BY <1>2, <1>3, <1>4, <1>5, MirrorMoves
  <1> QED BY <1>1, <1>4, <1>7, <1>8, <1>9, ReleasedStep

\* Only the details of the finished row change.
LEMMA FinishSeedingStep == ASSUME Inv, NEW p \in ops, FinishSeeding(p) PROVE Step
  <1> DEFINE j == p.job
  <1>1. /\ j \in Job /\ p.action = "stop-seeding" /\ ops' = ops \ {p} /\ stopper' = NoStop
        /\ UNCHANGED <<task, attempt, artifact, leased, up, worker, poller>>
    BY DEF FinishSeeding, Finishing, Inv, TypeOK, Operation
  <1>2. job \in [Job -> JobRow] /\ job' = [job EXCEPT ![j].details.seeding = FALSE]
    BY DEF Inv, TypeOK, FinishSeeding
  <1>3. /\ job' \in [Job -> JobRow]
        /\ \A i \in Job \ {j} : job'[i] = job[i]
        /\ job'[j].state = job[j].state
        /\ job'[j].task = job[j].task
    <2> HIDE DEF j
    <2> QED BY <1>1, <1>2 DEF JobRow, Details
  <1>4. RowsKept /\ AttemptsKept
    BY <1>1, <1>3 DEF RowsKept, RowKept, AttemptsKept, AttemptKept
  <1>5. Actors'
    BY <1>1, <1>4, StopperStops
  <1>6. TypeOK'
    BY <1>1, <1>3, <1>5 DEF Inv, TypeOK, Actors
  <1>7. SeedingStopped(p)
    BY <1>1, <1>4 DEF SeedingStopped
  <1> QED BY <1>5, <1>6, <1>7 DEF Step, Shape

\* Every step of the operation processor has a shape.
LEMMA StopperStepStep == ASSUME Inv, StopperStep PROVE Step
  <1>1. ASSUME NEW p \in ops, Complete(p) \/ FinishForbidden(p) PROVE Step
    BY <1>1, CancelWithStep, FinishRetryStep, FinishExhaustedStep, FinishSwitchStep, FinishReplacementStep,
       FinishSeedingStep
    DEF Complete, FinishCancel, FinishForbidden
  <1> QED
    BY <1>1, StopPickStep, StopLocalStep, StopResourceStep, StopRemoteStep, StopErrorStep DEF StopperStep

-----------------------------------------------------------------------------
(* Reclaim, and the life of the process. *)

\* An orphaned row is queued, fails, or is stopped.
LEMMA ReclaimStep == ASSUME Inv, NEW j \in Job, Reclaim(j) PROVE Step
  <1> USE ConstantsAssumption
  <1> DEFINE a == AttemptOf(j)
             exhausted == job[j].recovery + 1 > MaxRecoveries
             interrupted == IF attempt[a].finished THEN attempt[a]
                            ELSE [attempt[a] EXCEPT !.status = "INTERRUPTED", !.finished = TRUE]
  <1>1. job[j].state = "DOWNLOADING" /\ UNCHANGED <<artifact, leased, up, worker, poller, stopper>>
        /\ attempt' = [attempt EXCEPT ![a] = interrupted]
    BY DEF Reclaim
  <1>2. a \in AttemptId /\ attempt[a].status # "NONE" /\ attempt[a] \in AttemptRow
    <2>1. AttemptOf(j) # None
      BY <1>1, CurrentAttempt DEF Inv, RowsLinked, TaskLinked, AttemptOf
    <2> QED BY <1>1, <2>1, CurrentAttempt DEF Inv, TypeOK
  <1>3. PICK s \in JobState :
          /\ IF NeedsRemoteStop(j)
             THEN /\ s = "STOPPING"
                  /\ ~HasOperation(job[j].task)
                  /\ ops' = ops \union {NewOperation(j, "retry", None, exhausted, TRUE)}
             ELSE /\ s = IF exhausted THEN "FAILED" ELSE "PENDING"
                  /\ UNCHANGED ops
          /\ job' = [job EXCEPT ![j] = [job[j] EXCEPT !.state = s, !.recovery = job[j].recovery + 1]]
          /\ task' = [task EXCEPT ![job[j].task] = Mirror(@, s)]
    BY Zenon DEF Reclaim
  <1>4. RowWritten(j, s)
    <2> DEFINE r == [job[j] EXCEPT !.state = s, !.recovery = job[j].recovery + 1]
    <2>1. job \in [Job -> JobRow] /\ job[j] \in JobRow
      BY DEF Inv, TypeOK
    <2>2. job[j].recovery + 1 \in Nat
      BY <2>1 DEF JobRow
    <2>3. r \in JobRow /\ r.state = s /\ r.task = job[j].task
      BY <2>1, <2>2 DEF JobRow
    <2>4. job' = [job EXCEPT ![j] = r]
      BY <1>3
    <2> HIDE DEF r
    <2> QED BY <2>1, <2>3, <2>4 DEF RowWritten
  <1>5. attempt' \in [AttemptId -> AttemptRow] /\ AttemptsKept
    <2>1. /\ interrupted \in AttemptRow /\ interrupted.task = attempt[a].task /\ interrupted.status # "NONE"
          /\ attempt[a].finished => interrupted.finished /\ interrupted.status = attempt[a].status
      BY <1>2 DEF AttemptRow
    <2> HIDE DEF a, interrupted
    <2> QED BY <1>1, <1>2, <2>1 DEF Inv, TypeOK, AttemptsKept, AttemptKept
  <1>6. Moved(j, s) /\ task' \in [TaskId -> TaskRow]
    BY <1>1, <1>3, <1>4, MirrorMoves
  <1>7. Actors'
    BY <1>1, <1>5, ActorsKept
  <1>8. SlotFree(j)
    BY <1>1, OccupyingSlotFree DEF Inv, Occupying, JobState, Terminal
  <1>9. exhausted \in BOOLEAN /\ "retry" \in Action /\ None \in Provider \union {None}
    BY DEF Action
  <1>10. CASE NeedsRemoteStop(j)
    <2> HIDE DEF exhausted
    <2>1. /\ s = "STOPPING" /\ ~HasOperation(job[j].task)
          /\ ops' = ops \union {NewOperation(j, "retry", None, exhausted, TRUE)}
      BY <1>3, <1>10
    <2>2. NewOperation(j, "retry", None, exhausted, TRUE) \in Operation
      <3>1. job[j].state # "NONE"
        BY <1>1
      <3> QED BY <1>9, <3>1, NewOperationType
    <2>3. TypeOK'
      BY <1>1, <1>4, <1>5, <1>6, <2>1, <2>2 DEF Inv, TypeOK, RowWritten
    <2>4. Stopped(j, "retry", None, exhausted, TRUE)
      BY <1>1, <1>5, <1>6, <1>8, <2>1 DEF Stopped
    <2> QED BY ZenonT(60), <1>7, <1>9, <2>3, <2>4 DEF Step, Shape
  <1>11. CASE ~NeedsRemoteStop(j)
    <2>1. s \in {"FAILED", "PENDING"} /\ ops' = ops
      BY <1>3, <1>11
    <2>2. TypeOK'
      BY <1>1, <1>4, <1>5, <1>6, <2>1 DEF Inv, TypeOK, RowWritten
    <2>3. Advance(j, s)
      BY <1>1, <1>5, <1>6, <1>8, <2>1 DEF Advance
    <2> QED BY <1>7, <2>2, <2>3 DEF Step, Shape
  <1> QED BY <1>10, <1>11

\* No row is touched.
LEMMA LeaseExpireStep == ASSUME Inv, NEW a \in AttemptId, LeaseExpire(a) PROVE Step
  <1>1. RowsKept /\ AttemptsKept
    BY UntouchedRows DEF LeaseExpire
  <1>2. Actors'
    BY <1>1, ActorsKept DEF LeaseExpire
  <1>3. TypeOK'
    BY DEF Inv, TypeOK, LeaseExpire
  <1> QED BY <1>1, <1>2, <1>3, QuietStep DEF LeaseExpire

\* The executions are gone and the rows stay.
LEMMA CrashStep == ASSUME Inv, Crash PROVE Step
  <1>1. RowsKept /\ AttemptsKept
    BY UntouchedRows DEF Crash
  <1>2. Idle \in Execution(WorkerPc) /\ Idle \in Execution(PollerPc) /\ Idle.pc = "idle"
        /\ NoStop \in [pc : StopperPc, op : Operation \union {None}] /\ NoStop.pc = "idle"
    BY DEF Idle, NoStop, Execution, WorkerPc, PollerPc, StopperPc
  <1>3. Actors'
    BY <1>2 DEF Actors, ExecutionLinked, Crash
  <1>4. TypeOK'
    BY <1>2 DEF Inv, TypeOK, Crash
  <1> QED BY <1>1, <1>3, <1>4, QuietStep DEF Crash

\* No row is touched.
LEMMA RestartStep == ASSUME Inv, Restart PROVE Step
  <1>1. RowsKept /\ AttemptsKept
    BY UntouchedRows DEF Restart, tables
  <1>2. Actors'
    BY <1>1, ActorsKept DEF Restart
  <1>3. TypeOK'
    BY DEF Inv, TypeOK, Restart, tables
  <1> QED BY <1>1, <1>2, <1>3, QuietStep DEF Restart, tables

\* Every step of the specification has a shape and keeps the types.
LEMMA NextStep == ASSUME Inv, [Next]_vars PROVE Step
  <1>1. CASE UNCHANGED vars
    <2>1. RowsKept /\ AttemptsKept
      BY <1>1, UntouchedRows DEF vars
    <2>2. Actors'
      BY <1>1, <2>1, ActorsKept DEF vars
    <2>3. TypeOK'
      BY <1>1 DEF Inv, TypeOK, vars
    <2> QED BY <1>1, <2>1, <2>2, <2>3, QuietStep DEF vars
  <1> QED
    BY <1>1, CommandStep, WorkerStepStep, PollerStepStep, StopperStepStep, ReclaimStep, LeaseExpireStep,
       CrashStep, RestartStep
    DEF Next, ProcessStep

-----------------------------------------------------------------------------
(* The theorems. *)

\* The empty queue satisfies the invariant.
LEMMA InitInv == Init => Inv
  <1> SUFFICES ASSUME Init PROVE Inv
    OBVIOUS
  <1> USE ConstantsAssumption
  <1>1. NoJob \in JobRow /\ NoTask \in TaskRow /\ NoAttempt \in AttemptRow
    <2>1. EmptyDetails \in Details
      BY DEF EmptyDetails, Details
    <2> QED BY <2>1 DEF NoJob, NoTask, NoAttempt, JobRow, TaskRow, AttemptRow, JobState, Resource
  <1>2. Idle \in Execution(WorkerPc) /\ Idle \in Execution(PollerPc)
        /\ NoStop \in [pc : StopperPc, op : Operation \union {None}]
    BY DEF Idle, NoStop, Execution, WorkerPc, PollerPc, StopperPc
  <1>3. TypeOK
    BY <1>1, <1>2 DEF Init, TypeOK
  <1>4. RowsLinked
    BY DEF Init, RowsLinked, JobLinked, AttemptLinked, TaskLinked, ExecutionLinked, NoJob, NoTask, NoAttempt,
           Idle, NoStop
  <1>5. SlotUnique
    BY DEF Init, SlotUnique, NoJob, Occupying
  <1>6. OneOperation /\ OperationsCurrent /\ StoppingHasOperation
    BY DEF Init, OneOperation, OperationsCurrent, StoppingHasOperation, NoJob
  <1> QED BY <1>3, <1>4, <1>5, <1>6 DEF Inv

\* The invariant is inductive: it holds over the shapes, and every step has one.
LEMMA Inductive == Inv /\ [Next]_vars => Inv'
  <1> SUFFICES ASSUME Inv, [Next]_vars PROVE Inv'
    OBVIOUS
  <1>1. TypeOK' /\ Shape /\ Actors'
    BY NextStep DEF Step
  <1>2. RowsLinked'
    <2>1. /\ \A j \in Job : JobLinked(j)'
          /\ \A a \in AttemptId : AttemptLinked(a)'
          /\ \A t \in TaskId : TaskLinked(t)'
          /\ \A o \in ops' : OperationLinked(o)'
      BY <1>1, JobsLinkedShape, AttemptsLinkedShape, TasksLinkedShape, OperationsLinkedShape
    <2>2. ExecutionLinked(worker)' /\ ExecutionLinked(poller)' /\ (stopper'.pc # "idle" => stopper'.op \in Operation)
      BY <1>1 DEF Actors
    <2> QED BY <2>1, <2>2 DEF RowsLinked
  <1>3. SlotUnique' /\ OneOperation' /\ OperationsCurrent' /\ StoppingHasOperation'
    BY <1>1, SlotUniqueShape, OneOperationShape, OperationsCurrentShape, StoppingHasOperationShape
  <1> QED BY <1>1, <1>2, <1>3 DEF Inv

\* Hence it holds of every reachable state.
LEMMA Invariance == Spec => []Inv
  BY InitInv, Inductive, PTL DEF Spec

\* Types: every row keeps the shape the schema gives it and no round takes more accounts
\* than its frozen pool holds, whatever the actors do.
THEOREM TypesHold == Spec => []TypeOK
  <1>1. Inv => TypeOK
    BY DEF Inv
  <1> QED BY <1>1, Invariance, PTL

\* The download_jobs row, its queue_tasks row and its queue_attempts row stay one
\* consistent record under every interleaving of commands, executions, stops and crashes.
THEOREM RowsStayLinked == Spec => []RowsLinked
  <1>1. Inv => RowsLinked
    BY DEF Inv
  <1> QED BY <1>1, Invariance, PTL

\* No two sources of a work are ever queued, running, parked, paused or being stopped
\* at the same time.
THEOREM SlotIsUnique == Spec => []SlotUnique
  <1>1. Inv => SlotUnique
    BY DEF Inv
  <1> QED BY <1>1, Invariance, PTL

\* A row is STOPPING exactly while an operation that will release it is unfinished, and
\* that operation holds the snapshot which finish_operation compares.
THEOREM StopBarrierHolds == Spec => []StopBarrier
  <1>1. Inv => StopBarrier
    <2> SUFFICES ASSUME Inv, NEW j \in Job
                 PROVE  job[j].state = "STOPPING" <=>
                          \E o \in ops : /\ o.job = j
                                         /\ o.action # "stop-seeding"
                                         /\ o.task = job[j].task
                                         /\ o.attempt = AttemptOf(j)
                                         /\ o.generation + 1 = task[o.task].generation
      BY DEF StopBarrier
    <2>1. ASSUME NEW o \in ops, o.action # "stop-seeding", o.task = job[j].task, job[j].state # "NONE"
          PROVE  /\ o.job = j
                 /\ job[j].state = "STOPPING"
                 /\ o.attempt = AttemptOf(j)
                 /\ o.generation + 1 = task[o.task].generation
      BY <2>1 DEF Inv, RowsLinked, JobLinked, OperationLinked, OperationsCurrent, OperationCurrent
    <2>2. ASSUME NEW o \in ops, o.task = job[j].task PROVE job[j].state # "NONE"
      BY <2>2, ConstantsAssumption DEF Inv, TypeOK, Operation, RowsLinked, JobLinked
    <2> QED BY <2>1, <2>2 DEF Inv, StoppingHasOperation
  <1> QED BY <1>1, Invariance, PTL

\* What a finished execution ended as is never rewritten by the later life of its task.
THEOREM AttemptsStayFrozen == Spec => FrozenAttempts
  <1> DEFINE Frozen == \A a \in AttemptId : attempt[a].finished =>
                          /\ attempt'[a].status = attempt[a].status
                          /\ attempt'[a].finished
  <1>1. ASSUME Inv, [Next]_vars PROVE Frozen
    <2>1. Shape
      BY <1>1, NextStep DEF Step
    <2>2. CASE AttemptsKept
      BY <2>2, <1>1 DEF AttemptsKept, AttemptKept, Inv, RowsLinked, AttemptLinked, NoAttempt
    <2>3. ASSUME NEW j \in Job, NEW a \in AttemptId, Claimed(j, a) PROVE Frozen
      <3>1. ~attempt[a].finished
        BY <2>3, <1>1 DEF Claimed, UnusedAttempt, Inv, RowsLinked, AttemptLinked, NoAttempt
      <3>2. \A b \in AttemptId \ {a} : AttemptKept(b)
        BY <2>3 DEF Claimed
      <3> QED BY <3>1, <3>2, <1>1 DEF AttemptKept, Inv, RowsLinked, AttemptLinked, NoAttempt
    <2> QED BY <2>1, <2>2, <2>3
      DEF Shape, Quiet, Advance, Stopped, Released, Requeued, Succeeded, SeedingStop, SeedingStopped, TakenOver
  <1> QED BY <1>1, Invariance, PTL DEF Spec, FrozenAttempts
=============================================================================
