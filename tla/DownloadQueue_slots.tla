-------------------------- MODULE DownloadQueue_slots --------------------------
(***************************************************************************)
(* The theorems about what goes on behind the rows of the download queue:  *)
(* the executions, the operation under way and the transfers at the        *)
(* torrent client.  Inv of DownloadQueue_proofs knows only the rows.       *)
(*                                                                         *)
(* Always says what each actor may rely on at each of its steps; Promptly  *)
(* adds what holds while no claim outlives its lease.  A step is described *)
(* by what becomes of every task (Fate) and by how the worker, the poller  *)
(* and the operation processor move (Move); every action is such a step,   *)
(* and every such step keeps the invariant.                                *)
(* What it does to the rows of a work (SlotsMove) makes it a step of       *)
(* WorkSlot.                                                               *)
(***************************************************************************)
EXTENDS DownloadQueue_proofs, FiniteSetTheorems

-----------------------------------------------------------------------------
(* The invariant. *)

Remote(a) == attempt[a].resource \in {"INTENDED", "REGISTERED"}
Loading(a) == Remote(a) /\ ~attempt[a].payload
NothingRemote(t) == \A a \in AttemptId : attempt[a].task = t => ~Remote(a)
Current(t) == job[task[t].job].task = t

\* The worker before it has settled its job, and while it produces; the poller while it
\* downloads; the operation processor once the local execution has ended.
Early == {"claimed", "registered", "running", "pushing", "pushed", "artifact", "failing"}
Makes == {"running", "pushing", "pushed", "artifact", "failing"}
Looks == {"read", "polling", "delivered"}
Polls == {"polling", "delivered"}
Cleans == {"cleanup", "detached"}
Past == {"remote", "prepare", "confirmed"}

\* An unused identity is blank, and any other belongs to a row.
Owned == \A t \in TaskId : IF task[t].status = "NONE" THEN task[t] = NoTask ELSE task[t].job \in Job

\* The generation an execution was claimed with is never ahead of its task's, and a stop
\* has taken the task past it.
Aged(x) ==
    x.pc # "idle" =>
        /\ x.generation <= task[TaskOf(x)].generation
        /\ x.generation = task[TaskOf(x)].generation => task[TaskOf(x)].status \notin {"STOPPING", "CANCELLED"}

\* The execution the worker has not settled was never parked, so the poller has another
\* one; its task is not completed, and nobody ends its seeding.
WorkerApart ==
    worker.pc \in Early =>
        /\ poller.pc # "idle" => poller.attempt # worker.attempt
        /\ task[TaskOf(worker)].attempt = worker.attempt =>
              /\ task[TaskOf(worker)].status \notin {"WAITING_TORRENT", "COMPLETED"}
              /\ \A o \in ops : o.task = TaskOf(worker) => o.action # "stop-seeding"

\* What the worker has done so far.
WorkerDoes ==
    /\ worker.pc \in {"pushing", "pushed"} => Remote(worker.attempt) /\ IsTorrent(JobOf(worker))
    /\ worker.pc \in {"artifact", "completed"} => ~IsTorrent(JobOf(worker))
    /\ worker.pc = "artifact" => artifact[JobOf(worker)] = worker.attempt

\* The poller looks after torrents that were parked; as long as it is valid its row shows
\* what it has done.
PollerSees ==
    poller.pc # "idle" =>
        /\ IsTorrent(JobOf(poller))
        /\ Valid(poller) =>
              /\ poller.pc \in Looks => task[TaskOf(poller)].status = "WAITING_TORRENT"
              /\ poller.pc \in Cleans => task[TaskOf(poller)].status = "COMPLETED"
              /\ task[TaskOf(poller)].status \in {"WAITING_TORRENT", "COMPLETED"}

\* While it downloads, the row is its own, parked or being stopped.
PollerHolds ==
    poller.pc \in Polls =>
        /\ Current(TaskOf(poller))
        /\ task[TaskOf(poller)].attempt = poller.attempt
        /\ task[TaskOf(poller)].status \in {"WAITING_TORRENT", "STOPPING"}
        /\ Remote(poller.attempt)

\* The operation under way is still there, or was taken over by a cancel.
StopperHas ==
    stopper.pc # "idle" => \E p \in ops :
        /\ p.task = stopper.op.task /\ p.job = stopper.op.job
        /\ p.action = stopper.op.action \/ (p.action = "cancel" /\ stopper.op.action = "replace-account")

\* Past the local stop nothing produces here for the task, except a poller that is told to end.
StopperClears ==
    stopper.pc \in Past =>
        /\ worker.pc \in Makes => TaskOf(worker) # stopper.op.task
        /\ poller.pc \in Polls /\ TaskOf(poller) = stopper.op.task => stopper.pc = "remote" /\ poller.cancelled

\* A replacement, and a confirmed stop, leave nothing behind at the client.
StopperConfirms ==
    /\ \A o \in ops : o.action = "replace-account" => NothingRemote(o.task)
    /\ stopper.pc # "idle" =>
          (stopper.op.action = "replace-account" \/ stopper.pc = "confirmed" => NothingRemote(stopper.op.task))
    /\ stopper.pc = "prepare" => stopper.op.action = "replace-account"

\* Rows, operations and transfers.
SeedingDone == \A o \in ops : o.action = "stop-seeding" /\ Current(o.task) =>
    task[o.task].status \in {"COMPLETED", "FAILED"}
TorrentsOnly == \A a \in AttemptId : attempt[a].resource # "NONE" => IsTorrent(task[attempt[a].task].job)
ParkedRemote == \A t \in TaskId : task[t].status = "WAITING_TORRENT" /\ Current(t) => Remote(task[t].attempt)
OneLoading == \A a, b \in AttemptId : Loading(a) /\ Loading(b) => attempt[a].task = attempt[b].task

\* What holds whether or not dispatch stalls.
Always ==
    /\ Owned /\ Aged(worker) /\ Aged(poller)
    /\ WorkerApart /\ WorkerDoes
    /\ PollerSees /\ PollerHolds
    /\ StopperHas /\ StopperClears /\ StopperConfirms
    /\ SeedingDone /\ TorrentsOnly /\ ParkedRemote /\ OneLoading
    /\ CompletedHasArtifact

\* What holds as long as no claim outlives its lease: a valid execution that is not settled
\* has its row DOWNLOADING and cannot be reclaimed, ...
WorkerRuns ==
    worker.pc # "idle" =>
        /\ Valid(worker) =>
              /\ worker.pc \in Early => task[TaskOf(worker)].status = "DOWNLOADING"
              /\ worker.pc = "claimed" => worker.attempt \in leased
              /\ worker.pc = "completed" => task[TaskOf(worker)].status = "COMPLETED"
        /\ worker.pc \in Makes =>
              /\ Current(TaskOf(worker))
              /\ task[TaskOf(worker)].attempt = worker.attempt
              /\ task[TaskOf(worker)].status \in {"DOWNLOADING", "STOPPING"}
\* ... and an unfinished torrent has a row that runs, is parked or is being stopped.
LoadingHolds ==
    \A a \in AttemptId : Loading(a) =>
        /\ Current(attempt[a].task)
        /\ task[attempt[a].task].status \in {"DOWNLOADING", "WAITING_TORRENT", "STOPPING"}
Promptly == ~DispatchStall => WorkerRuns /\ LoadingHolds

Whole == Inv /\ Always /\ Promptly

-----------------------------------------------------------------------------
(* Steps. *)

Ages(t) ==
    /\ task'[t].job = task[t].job
    /\ task'[t].generation >= task[t].generation
    /\ task'[t].generation = task[t].generation /\ task[t].status \notin {"STOPPING", "CANCELLED"} =>
          task'[t].status \notin {"STOPPING", "CANCELLED"}

\* What becomes of a task that exists.  It is left alone, ...
Stays(t) == task'[t] = task[t] /\ (Current(t)' <=> Current(t))
\* ... it is left behind by its row, ...
Dropped(t) == task'[t] = task[t] /\ task[t].status \in Terminal /\ ~Current(t)'
\* ... or it moves under its row:
Goes(t, from, to) ==
    /\ Current(t) /\ Current(t)'
    /\ task'[t].attempt = task[t].attempt
    /\ task[t].status \in from
    /\ task'[t].status \in to
\* it is stopped, for the sake of the only operation it has;
Halted(t) == Goes(t, JobState \ {"NONE", "STOPPING"}, {"STOPPING"}) /\ ~HasOperation(t)
\* it waits, or is cancelled, before it runs;
Queues(t) == Goes(t, {"PENDING", "PAUSED"}, {"PENDING", "PAUSED", "CANCELLED"})
\* it is claimed with a new execution;
Taken(t) ==
    /\ Current(t) /\ Current(t)'
    /\ task[t].status = "PENDING" /\ task'[t].status = "DOWNLOADING"
    /\ task'[t].attempt \in UnusedAttempt
\* an orphaned claim is given back;
Orphaned(t) ==
    /\ Goes(t, {"DOWNLOADING"}, {"PENDING", "FAILED"})
    /\ ~Active(task[t].attempt) /\ task[t].attempt \notin leased
    /\ NothingRemote(t)
\* the worker parks, completes or fails it;
ByWorker(t) ==
    /\ Goes(t, JobState \ {"NONE", "STOPPING", "CANCELLED"}, {"WAITING_TORRENT", "COMPLETED", "FAILED"})
    /\ worker.pc \in Makes \union {"completed"} /\ Valid(worker) /\ TaskOf(worker) = t
    /\ task'[t].status = "COMPLETED" =>
          /\ worker'.pc = "completed"
          /\ ~IsTorrent(JobOf(worker))
          /\ artifact'[JobOf(worker)] = worker.attempt
          /\ task[t].status \notin {"WAITING_TORRENT", "COMPLETED"}
    /\ task'[t].status = "WAITING_TORRENT" =>
          /\ worker'.pc = "exiting"
          /\ Remote(worker.attempt)
          /\ task[t].status \notin {"WAITING_TORRENT", "COMPLETED"}
    /\ task'[t].status = "FAILED" => worker'.pc = "exiting" /\ NothingRemote(t)
\* the poller completes or fails it;
ByPoller(t) ==
    /\ Goes(t, {"WAITING_TORRENT", "COMPLETED"}, {"COMPLETED", "FAILED"})
    /\ poller.pc # "idle" /\ Valid(poller) /\ TaskOf(poller) = t
    /\ task'[t].status = "COMPLETED" =>
          /\ task[t].status = "WAITING_TORRENT"
          /\ poller'.pc = "cleanup"
          /\ artifact'[JobOf(poller)] = poller.attempt
          /\ \A a \in AttemptId : attempt[a].task = t => ~Loading(a)'
    /\ task'[t].status = "FAILED" => poller'.pc = "idle" /\ NothingRemote(t)
\* or its stop is confirmed.
Ended(t) ==
    /\ task[t].status = "STOPPING" /\ task'[t].status \in {"CANCELLED", "FAILED", "PENDING"}
    /\ Current(t)
    /\ task'[t].attempt = task[t].attempt
    /\ stopper.pc \in {"prepare", "confirmed"} /\ stopper.op.task = t /\ stopper'.pc = "idle"

Fate(t) ==
    \/ Stays(t) \/ Dropped(t) \/ Halted(t) \/ Queues(t) \/ Taken(t)
    \/ Orphaned(t) \/ ByWorker(t) \/ ByPoller(t) \/ Ended(t)

Fated ==
    \A t \in TaskId :
        IF task[t].status = "NONE"
        THEN \/ task'[t] = task[t]
             \/ task'[t].job \in Job /\ task'[t].status = "PENDING" /\ task'[t].attempt = None
        ELSE Ages(t) /\ Fate(t)

\* What becomes of the operations.
Operated ==
    /\ \A o \in ops' : o.action = "stop-seeding" =>
          o \in ops \/ (Current(o.task) /\ task[o.task].status = "COMPLETED" /\ UNCHANGED task)
    /\ \A o \in ops' : o.action = "replace-account" => o \in ops \/ NothingRemote(o.task)'
    /\ \A p \in ops :
          \/ p \in ops'
          \/ stopper'.pc = "idle"
          \/ p.action = "replace-account" /\ [p EXCEPT !.action = "cancel"] \in ops'

\* What becomes of the transfers: the worker intends one, and three actors see one end.
Intends(a) ==
    /\ a = worker.attempt /\ worker.pc = "running" /\ worker'.pc = "pushing" /\ Valid(worker)
    /\ IsTorrent(JobOf(worker)) /\ ~StrangerHoldsRemote(TaskOf(worker))
    /\ UNCHANGED <<job, task, ops, stopper, poller>>
Loses(a) ==
    /\ UNCHANGED <<job, task, ops>>
    /\ \/ a = worker.attempt /\ worker.pc = "pushing" /\ worker'.pc = "failing" /\ UNCHANGED poller
       \/ a = poller.attempt /\ poller.pc = "cleanup" /\ Valid(poller) /\ UNCHANGED <<worker, stopper>>
       \/ /\ stopper.pc = "remote" /\ PollerGone /\ attempt[a].task = stopper.op.task
          /\ UNCHANGED <<worker, poller, stopper>>
Transferred ==
    \A a \in AttemptId :
        /\ attempt[a].status = "NONE" \/ attempt'[a].task = attempt[a].task
        /\ attempt'[a].resource # "NONE" =>
              attempt[a].resource # "NONE" \/ Intends(a) \/ (poller.pc = "cleanup" /\ a = poller.attempt)
        /\ Remote(a)' => Remote(a) \/ Intends(a)
        /\ Loading(a)' => Loading(a) \/ Intends(a)
        /\ Remote(a) => Remote(a)' \/ Loses(a)

Archived ==
    \A j \in Job :
        \/ artifact'[j] = artifact[j]
        \/ /\ worker.pc = "running" /\ worker'.pc \in {"artifact", "completed"} /\ Valid(worker)
           /\ JobOf(worker) = j /\ artifact'[j] = worker.attempt
        \/ /\ poller.pc = "delivered" /\ Valid(poller)
           /\ JobOf(poller) = j /\ artifact'[j] = poller.attempt

LeasesKept ==
    \A a \in leased :
        \/ a \in leased'
        \/ worker'.pc = "idle"
        \/ Unrenewed(a)
        \/ \E t \in TaskId : task[t].status # "NONE" /\ task[t].attempt = a /\ task'[t].status # "DOWNLOADING"

\* How the worker moves.
WorkerClaims ==
    \E t \in TaskId :
        /\ worker.pc = "idle" /\ worker'.pc = "claimed"
        /\ task[t].status = "PENDING" /\ Current(t) /\ task'[t].status = "DOWNLOADING"
        /\ worker'.attempt \in UnusedAttempt /\ worker'.generation = task[t].generation
        /\ attempt'[worker'.attempt].task = t /\ worker'.attempt \in leased'
        /\ UNCHANGED <<ops, poller, stopper>>
WorkerProceeds ==
    /\ worker.pc # "idle"
    /\ worker'.attempt = worker.attempt /\ worker'.generation = worker.generation
    /\ worker'.pc \in Early => worker.pc \in Early
    /\ worker'.pc = "claimed" => worker.pc = "claimed"
    /\ worker'.pc \in Makes => worker.pc \in Makes \/ Valid(worker)
    /\ worker'.pc \in {"pushing", "pushed"} =>
          worker.pc = worker'.pc \/ (IsTorrent(JobOf(worker)) /\ Remote(worker.attempt)')
    /\ worker'.pc \in {"artifact", "completed"} => worker.pc = worker'.pc \/ ~IsTorrent(JobOf(worker))
    /\ worker'.pc = "artifact" => worker.pc = "artifact" \/ artifact'[JobOf(worker)] = worker.attempt
    /\ worker'.pc = "completed" => worker.pc = "completed" \/ task'[TaskOf(worker)].status = "COMPLETED"
WorkerMoves == worker'.pc = "idle" \/ WorkerClaims \/ WorkerProceeds

\* How the poller moves.
PollerReads ==
    \E t \in TaskId :
        /\ poller'.pc = "read"
        /\ task[t].status = "WAITING_TORRENT" /\ Current(t) /\ IsTorrent(task[t].job)
        /\ poller'.attempt = task[t].attempt /\ poller'.generation = task[t].generation
        /\ UNCHANGED <<tables, worker, stopper>>
PollerProceeds ==
    /\ poller.pc # "idle"
    /\ poller'.attempt = poller.attempt /\ poller'.generation = poller.generation
    /\ poller'.pc \in Looks => poller.pc \in Looks
    /\ poller'.pc \in Cleans => poller.pc \in Cleans \/ task'[TaskOf(poller)].status = "COMPLETED"
    /\ poller'.pc \in Polls => poller.pc \in Polls \/ (poller.pc = "read" /\ Valid(poller))
    /\ poller.cancelled => poller'.cancelled
PollerMoves == poller'.pc = "idle" \/ PollerReads \/ PollerProceeds

\* How the operation processor moves.
Proceeds(o) ==
    /\ stopper'.op = o /\ stopper'.pc \in Past
    /\ ~WorkerHandle(o.task)
    /\ stopper'.pc = "prepare" <=> o.action = "replace-account"
    /\ stopper'.pc = "confirmed" => ~IsTorrent(o.job)
    /\ stopper'.pc = "remote" /\ PollerHandle(o.task) => poller'.cancelled
    /\ poller'.pc = poller.pc /\ poller'.attempt = poller.attempt
    /\ UNCHANGED <<tables, worker>>
StopperMoves ==
    \/ stopper'.pc = "idle"
    \/ UNCHANGED stopper
    \/ \E o \in ops : stopper'.pc = "local" /\ stopper'.op = o /\ UNCHANGED <<tables, poller>>
    \/ \E o \in ops : Proceeds(o)
    \/ stopper.pc = "local" /\ Proceeds(stopper.op)
    \/ /\ stopper.pc = "remote" /\ stopper'.pc = "confirmed" /\ stopper'.op = stopper.op
       /\ PollerGone /\ Unresolved(stopper.op.task) = {}
       /\ UNCHANGED <<tables, worker, poller>>

\* How the slots move.  Nothing starts, and whatever goes on for other tasks is spared, ...
WorkerRests == worker'.pc \in Makes => worker.pc \in Makes
PollerRests == poller'.pc \in Polls => poller.pc \in Polls
Spares(t) ==
    /\ WorkerRests /\ PollerRests
    /\ worker.pc \in Makes => TaskOf(worker) = t \/ worker' = worker
    /\ poller.pc \in Polls => TaskOf(poller) = t \/ poller' = poller
    /\ \A a \in AttemptId : Loading(a) => attempt[a].task = t \/ Loading(a)'
\* ... while one row changes its state, ...
RowGoes(j) ==
    /\ job[j].state # "NONE"
    /\ job'[j].task = job[j].task
    /\ \A i \in Job \ {j} : RowKept(i)
    /\ Spares(job[j].task)
\* ... or a row that is finished, or whose stop is confirmed, goes on as a new task.
RowRenews(j, k, u) ==
    /\ u \in UnusedTask
    /\ job'[k].task = u /\ job'[k].state = "PENDING"
    /\ WorkOf(k) = WorkOf(j)
    /\ k # j => job'[j].state \notin Occupying
    /\ \A i \in Job \ {j, k} : RowKept(i)
    /\ \/ job[j].state \notin Occupying /\ SlotFree(j) /\ k = j
       \/ job[j].state = "STOPPING" /\ stopper.pc \in {"prepare", "confirmed"} /\ stopper.op.task = job[j].task
    /\ Spares(u)
\* Only a valid execution starts to produce.
SlotStarts ==
    /\ UNCHANGED tables
    /\ \/ /\ worker.pc = "registered" /\ worker'.pc = "running" /\ Valid(worker)
          /\ worker'.attempt = worker.attempt /\ UNCHANGED poller
       \/ /\ poller.pc = "read" /\ poller'.pc = "polling" /\ Valid(poller)
          /\ poller'.attempt = poller.attempt /\ UNCHANGED worker
SlotsMove ==
    \/ (\A i \in Job : RowKept(i)) /\ WorkerRests /\ PollerRests
    \/ \E j \in Job : RowGoes(j)
    \/ \E j, k \in Job, u \in TaskId : RowRenews(j, k, u)
    \/ SlotStarts

Move ==
    /\ Fated /\ Operated /\ Transferred /\ Archived /\ LeasesKept
    /\ WorkerMoves /\ PollerMoves /\ StopperMoves
    /\ SlotsMove

-----------------------------------------------------------------------------
(* What the shapes say of every task. *)

\* Two facts about rows that every proof below uses.
LEMMA RowOfCurrent ==
    ASSUME Inv, Owned, NEW t \in TaskId, task[t].status # "NONE", Current(t)
    PROVE  task[t].job \in Job /\ job[task[t].job].task = t /\ job[task[t].job].state = task[t].status
  BY ConstantsAssumption DEF Inv, RowsLinked, JobLinked, Owned, Current

\* The task of an existing row mirrors it and is current.
LEMMA CurrentOfRow ==
    ASSUME Inv, NEW j \in Job, job[j].state # "NONE" \/ job[j].task # None
    PROVE  /\ job[j].task \in TaskId
           /\ task[job[j].task].job = j
           /\ task[job[j].task].status = job[j].state
           /\ job[j].state # "NONE"
           /\ Current(job[j].task)
  BY DEF Inv, RowsLinked, JobLinked, Current

\* A row that moves takes its task with it and leaves every other alone.
LEMMA MovedFate ==
    ASSUME Inv, Owned, NEW j \in Job, NEW s \in JobState \ {"NONE"}, job[j].state # "NONE", Moved(j, s),
           NEW t \in TaskId, task[t].status # "NONE"
    PROVE  /\ Ages(t)
           /\ t # job[j].task => Stays(t)
           /\ t = job[j].task => Goes(t, {job[j].state}, {s})
  <1>1. task[t].generation \in Nat
    BY DEF Inv, TypeOK, TaskRow
  <1>2. CASE t # job[j].task
    <2>1. task'[t] = task[t]
      BY <1>2 DEF Moved
    <2>2. Current(t)' <=> Current(t)
      BY <1>2, <2>1 DEF Moved, RowKept, Current, Owned
    <2> QED BY <1>1, <1>2, <2>1, <2>2 DEF Ages, Stays
  <1>3. CASE t = job[j].task
    <2>1. Current(t) /\ Current(t)'
      BY <1>3, CurrentOfRow DEF Moved, Current
    <2>2. task[t].status = job[j].state
      BY <1>3, CurrentOfRow
    <2> QED BY <1>1, <1>3, <2>1, <2>2 DEF Moved, Ages, Goes
  <1> QED BY <1>2, <1>3

\* A task goes on under its row, ...
Advanced(t) ==
    /\ Goes(t, JobState \ {"NONE", "STOPPING", "CANCELLED"}, JobState \ {"NONE", "STOPPING"})
    /\ task'[t].status = task[t].status => task'[t] = task[t]
\* ... or the operation that stopped it is over.
Left(t) ==
    /\ task[t].status = "STOPPING" /\ task'[t].status \in {"CANCELLED", "FAILED", "PENDING"}
    /\ Current(t) /\ task'[t].attempt = task[t].attempt
    /\ \E p \in ops : p.task = t /\ ops' = ops \ {p}

\* Every shape gives every task one of six fates.
LEMMA ShapeFate ==
    ASSUME Inv, Owned, TypeOK', Shape, NEW t \in TaskId, task[t].status # "NONE"
    PROVE  /\ Ages(t)
           /\ Stays(t) \/ Dropped(t) \/ Halted(t) \/ Taken(t) \/ Advanced(t) \/ Left(t)
  <1> USE ConstantsAssumption
  <1> DEFINE Goal == /\ Ages(t)
                     /\ Stays(t) \/ Dropped(t) \/ Halted(t) \/ Taken(t) \/ Advanced(t) \/ Left(t)
  <1>1. task[t] \in TaskRow /\ task'[t] \in TaskRow /\ task[t].job \in Job /\ task[t].status \in JobState
    BY DEF Inv, TypeOK, Owned, TaskRow
  <1>2. task[t].generation \in Nat
    BY <1>1 DEF TaskRow
  <1>3. CASE RowsKept
    BY <1>1, <1>2, <1>3 DEF RowsKept, RowKept, Stays, Ages, Current
  <1>4. ASSUME NEW j \in Job, NEW s \in JobState, Advance(j, s) PROVE Goal
    <2>1. job[j].state \in JobState /\ s \in JobState \ {"NONE"} /\ Moved(j, s) /\ job[j].state # "NONE"
      BY <1>4 DEF Advance, Inv, TypeOK, JobRow
    <2>2. Ages(t) /\ (t # job[j].task => Stays(t)) /\ (t = job[j].task => Goes(t, {job[j].state}, {s}))
      BY <2>1, MovedFate
    <2>3. CASE t = job[j].task
      <3>1. s = task[t].status => task'[t] = task[t]
        BY <1>1, <2>1, <2>3 DEF Moved, TaskRow
      <3> QED BY <1>4, <2>1, <2>2, <2>3, <3>1 DEF Advance, Advanced, Goes
    <2> QED BY <2>2, <2>3
  <1>5. ASSUME NEW j \in Job, NEW a \in AttemptId, Claimed(j, a) PROVE Goal
    <2>0. job[j].state # "NONE"
      BY <1>5 DEF Claimed
    <2>1. CASE t = job[j].task
      <3>1. Current(t) /\ Current(t)'
        BY <1>5, <2>0, <2>1, CurrentOfRow DEF Claimed, Current
      <3>2. task[t].status = "PENDING"
        BY <1>5, <2>0, <2>1, CurrentOfRow DEF Claimed
      <3>3. Taken(t)
        BY <1>5, <2>1, <3>1, <3>2 DEF Claimed, Taken
      <3>4. task'[t].generation >= task[t].generation
        BY <1>2, <1>5, <2>1 DEF Claimed
      <3> QED BY <1>5, <2>1, <3>3, <3>4 DEF Claimed, Ages
    <2>2. CASE t # job[j].task
      <3>1. task'[t] = task[t]
        BY <1>5, <2>2 DEF Claimed
      <3>2. Current(t)' <=> Current(t)
        BY <1>1, <1>5, <2>2, <3>1 DEF Claimed, RowKept, Current
      <3> QED BY <1>2, <3>1, <3>2 DEF Ages, Stays
    <2> QED BY <2>1, <2>2
  <1>6. ASSUME NEW j \in Job, NEW action \in Action, NEW target \in Provider \union {None},
               NEW exhausted \in BOOLEAN, NEW interrupt \in BOOLEAN,
               Stopped(j, action, target, exhausted, interrupt)
        PROVE  Goal
    <2>1. Moved(j, "STOPPING") /\ job[j].state # "NONE" /\ job[j].state # "STOPPING" /\ ~HasOperation(job[j].task)
      BY <1>6 DEF Stopped
    <2>2. job[j].state \in JobState /\ "STOPPING" \in JobState \ {"NONE"}
      BY DEF Inv, TypeOK, JobRow, JobState
    <2>3. Ages(t) /\ (t # job[j].task => Stays(t)) /\ (t = job[j].task => Goes(t, {job[j].state}, {"STOPPING"}))
      BY <2>1, <2>2, MovedFate
    <2> QED BY <2>1, <2>2, <2>3 DEF Halted, Goes
  <1>7. ASSUME NEW j \in Job, NEW s \in JobState, NEW p \in ops, Released(j, s, p) PROVE Goal
    <2>1. /\ Moved(j, s) /\ job[j].state = "STOPPING" /\ s \in {"CANCELLED", "FAILED", "PENDING"}
          /\ s \in JobState \ {"NONE"} /\ p.task = job[j].task /\ ops' = ops \ {p}
      BY <1>7 DEF Released
    <2>2. Ages(t) /\ (t # job[j].task => Stays(t)) /\ (t = job[j].task => Goes(t, {job[j].state}, {s}))
      BY <2>1, MovedFate
    <2> QED BY <2>1, <2>2 DEF Goes, Left
  <1>8. ASSUME NEW j \in Job, NEW u \in TaskId, Requeued(j, u) PROVE Goal
    <2>1. task'[t] = task[t] /\ t # u
      BY <1>8 DEF Requeued, Renewed, UnusedTask
    <2>2. CASE task[t].job # j
      BY <1>1, <1>2, <1>8, <2>1, <2>2 DEF Requeued, RowKept, Current, Stays, Ages
    <2>3. CASE task[t].job = j
      <3>1. ~Current(t)'
        BY <1>8, <2>1, <2>3 DEF Requeued, Renewed, Current
      <3>2. Current(t) => task[t].status \in Terminal
        BY <1>8, <2>3, RowOfCurrent DEF Requeued, Terminal
      <3> QED BY <1>2, <2>1, <3>1, <3>2 DEF Stays, Dropped, Ages
    <2> QED BY <2>2, <2>3
  <1>9. ASSUME NEW j \in Job, NEW k \in Job, NEW u \in TaskId, NEW p \in ops, Succeeded(j, k, u, p) PROVE Goal
    <2>1. /\ t # u /\ job[j].state = "STOPPING" /\ p.task = job[j].task /\ ops' = ops \ {p}
          /\ job[j].task \in TaskId /\ task[job[j].task].job = j /\ task[job[j].task].status = "STOPPING"
          /\ Current(job[j].task)
      BY <1>9, CurrentOfRow DEF Succeeded, Renewed, UnusedTask
    <2>2. CASE t = job[j].task
      <3>1. task'[t] = Mirror(task[t], "CANCELLED")
        BY <1>9, <2>2 DEF Succeeded
      <3>2. /\ task'[t].job = task[t].job /\ task'[t].attempt = task[t].attempt
            /\ task'[t].status = "CANCELLED" /\ task'[t].generation = task[t].generation + 1
        BY <1>1, <2>1, <2>2, <3>1, MirrorLemma DEF JobState, Terminal
      <3> QED BY <1>2, <2>1, <2>2, <3>2 DEF Ages, Left
    <2>3. CASE t # job[j].task
      <3>1. task'[t] = task[t]
        BY <1>9, <2>1, <2>3 DEF Succeeded
      <3>2. CASE task[t].job \notin {j, k}
        BY <1>1, <1>2, <1>9, <3>1, <3>2 DEF Succeeded, RowKept, Current, Stays, Ages
      <3>3. CASE task[t].job = k
        <4>1. ~Current(t)'
          BY <1>9, <2>1, <3>1, <3>3 DEF Succeeded, Renewed, Current
        \* The other row of the work cannot occupy the slot.
        <4>2. Current(t) => task[t].status \in Terminal
          <5> SUFFICES ASSUME Current(t) PROVE task[t].status \in Terminal
            OBVIOUS
          <5>1. job[k].task = t /\ job[k].state = task[t].status /\ k # j
            BY <2>1, <2>3, <3>3, RowOfCurrent
          <5>2. job[k].state \notin Occupying
            BY <1>9, <5>1 DEF Succeeded, Inv, SlotUnique, Occupying, JobState, Terminal
          <5> QED BY <1>1, <5>1, <5>2 DEF Occupying
        <4> QED BY <1>2, <3>1, <4>1, <4>2 DEF Stays, Dropped, Ages
      <3>4. CASE task[t].job = j /\ k # j
        <4>1. ~Current(t)' /\ ~Current(t)
          BY <1>9, <2>3, <3>1, <3>4 DEF Succeeded, Current
        <4> QED BY <1>2, <3>1, <4>1 DEF Stays, Ages
      <3> QED BY <3>2, <3>3, <3>4
    <2> QED BY <2>2, <2>3
  <1>10. (\/ Quiet
          \/ \E j \in Job : SeedingStop(j)
          \/ \E p \in ops : SeedingStopped(p)
          \/ \E o \in ops : TakenOver(o)) => RowsKept
    BY DEF Quiet, SeedingStop, SeedingStopped, TakenOver
  <1>11. CASE ~RowsKept
    <2> HIDE DEF Goal
    <2>1. CASE \E j \in Job, s \in JobState : Advance(j, s)
      <3>1. Goal
        BY <1>4, <2>1
      <3> QED BY <3>1 DEF Goal
    <2>2. CASE \E j \in Job, a \in AttemptId : Claimed(j, a)
      <3>1. Goal
        BY <1>5, <2>2
      <3> QED BY <3>1 DEF Goal
    <2>3. CASE \E j \in Job, action \in Action, target \in Provider \union {None}, exhausted, interrupt \in BOOLEAN :
                 Stopped(j, action, target, exhausted, interrupt)
      <3>1. Goal
        BY <1>6, <2>3
      <3> QED BY <3>1 DEF Goal
    <2>4. CASE \E j \in Job, s \in JobState, p \in ops : Released(j, s, p)
      <3>1. Goal
        BY <1>7, <2>4
      <3> QED BY <3>1 DEF Goal
    <2>5. CASE \E j \in Job, u \in TaskId : Requeued(j, u)
      <3>1. Goal
        BY <1>8, <2>5
      <3> QED BY <3>1 DEF Goal
    <2>6. CASE \E j, k \in Job, u \in TaskId, p \in ops : Succeeded(j, k, u, p)
      <3>1. Goal
        BY <1>9, <2>6
      <3> QED BY <3>1 DEF Goal
    <2> QED BY <1>10, <1>11, <2>1, <2>2, <2>3, <2>4, <2>5, <2>6, Zenon DEF Shape
  <1> QED BY <1>3, <1>11

\* An unused identity stays blank, or becomes the task of a queued row.
LEMMA UnusedFate ==
    ASSUME Inv, Owned, Shape, NEW t \in TaskId, task[t].status = "NONE"
    PROVE  \/ task'[t] = task[t]
           \/ task'[t].job \in Job /\ task'[t].status = "PENDING" /\ task'[t].attempt = None
  <1> DEFINE Goal == \/ task'[t] = task[t]
                     \/ task'[t].job \in Job /\ task'[t].status = "PENDING" /\ task'[t].attempt = None
  <1>1. ASSUME NEW j \in Job, NEW s \in JobState, Moved(j, s), job[j].state # "NONE" PROVE Goal
    BY <1>1, CurrentOfRow DEF Moved
  <1>2. ASSUME NEW j \in Job, NEW a \in AttemptId, Claimed(j, a) PROVE Goal
    BY <1>2, CurrentOfRow DEF Claimed
  <1>3. ASSUME NEW j \in Job, NEW u \in TaskId, Requeued(j, u) PROVE Goal
    BY <1>3 DEF Requeued, Renewed
  <1>4. ASSUME NEW j \in Job, NEW k \in Job, NEW u \in TaskId, NEW p \in ops, Succeeded(j, k, u, p) PROVE Goal
    BY <1>4, CurrentOfRow DEF Succeeded, Renewed
  <1> QED
    BY <1>1, <1>2, <1>3, <1>4
    DEF Shape, Quiet, Advance, Stopped, Released, SeedingStop, SeedingStopped, TakenOver, RowsKept, JobState, Terminal

-----------------------------------------------------------------------------
(* The fates of the tasks, by the kind of action. *)

\* A step that leaves the rows alone.
LEMMA RowsStayFated ==
    ASSUME Inv, Owned, task' = task, \A i \in Job : RowKept(i)
    PROVE  Fated
  <1> SUFFICES ASSUME NEW t \in TaskId, task[t].status # "NONE" PROVE Ages(t) /\ Stays(t)
    BY DEF Fated, Fate
  <1>1. task[t].generation \in Nat /\ task[t].job \in Job
    BY DEF Inv, TypeOK, TaskRow, Owned
  <1> QED BY <1>1 DEF Ages, Stays, RowKept, Current

\* A step that writes one row and ends no operation: only the fate of its task is open.
LEMMA RowFated ==
    ASSUME Inv, Inv', Owned, Shape, NEW j \in Job, \A i \in Job \ {j} : RowKept(i), ops \subseteq ops',
           job'[j].state = "DOWNLOADING" => job[j].state = "DOWNLOADING",
           \A t \in TaskId : t = job[j].task /\ Goes(t, {job[j].state}, {job'[j].state}) => Fate(t)
    PROVE  Fated
  <1> SUFFICES ASSUME NEW t \in TaskId, task[t].status # "NONE" PROVE Ages(t) /\ Fate(t)
    BY UnusedFate DEF Fated
  <1>1. /\ Ages(t)
        /\ Stays(t) \/ Dropped(t) \/ Halted(t) \/ Taken(t) \/ Advanced(t) \/ Left(t)
    BY ShapeFate DEF Inv
  <1>2. CASE Stays(t) \/ Dropped(t) \/ Halted(t)
    BY <1>1, <1>2 DEF Fate
  <1>3. CASE Left(t)
    BY <1>3 DEF Left
  \* The row of a task that moves has the task's state before and after.
  <1>4. ASSUME Current(t), Current(t)', task[t].job = task'[t].job, task'[t].status # "NONE"
        PROVE  LET i == task[t].job IN
               /\ i \in Job /\ job[i].task = t /\ job[i].state = task[t].status
               /\ job'[i].state = task'[t].status
    BY <1>4, RowOfCurrent, ConstantsAssumption DEF Current, Inv, RowsLinked, JobLinked
  <1>5. CASE Taken(t)
    BY <1>1, <1>4, <1>5 DEF Taken, Ages, RowKept
  <1>6. CASE Advanced(t)
    <2> DEFINE i == task[t].job
    <2>1. /\ i \in Job /\ job[i].task = t /\ job[i].state = task[t].status
          /\ job'[i].state = task'[t].status /\ Current(t) /\ Current(t)'
      BY <1>1, <1>4, <1>6 DEF Advanced, Goes, Ages
    <2>2. CASE i = j
      BY <1>1, <1>6, <2>1, <2>2 DEF Advanced, Goes
    <2>3. CASE i # j
      BY <1>1, <1>6, <2>1, <2>3 DEF Advanced, Goes, RowKept, Stays, Fate
    <2> QED BY <2>2, <2>3
  <1> QED BY <1>1, <1>2, <1>3, <1>5, <1>6

\* A step that ends the operation p, which stopped a row.
LEMMA FinishFated ==
    ASSUME Inv, Inv', Owned, Shape, NEW p \in ops, Finishing(p), p.action # "stop-seeding",
           \A i \in Job \ {p.job} : RowKept(i) \/ job'[i].task \in UnusedTask
    PROVE  Fated
  <1> SUFFICES ASSUME NEW t \in TaskId, task[t].status # "NONE" PROVE Ages(t) /\ Fate(t)
    BY UnusedFate DEF Fated
  <1>1. /\ Ages(t)
        /\ Stays(t) \/ Dropped(t) \/ Halted(t) \/ Taken(t) \/ Advanced(t) \/ Left(t)
    BY ShapeFate DEF Inv
  <1>2. CASE Stays(t) \/ Dropped(t) \/ Halted(t)
    BY <1>1, <1>2 DEF Fate
  <1>3. CASE Left(t)
    BY <1>1, <1>3 DEF Left, Finishing, Ended, Fate, NoStop
  <1>4. ASSUME Current(t), Current(t)', task[t].job = task'[t].job, task[t].status # "STOPPING", task'[t].status # "NONE"
        PROVE  task'[t].status = task[t].status
    <2> DEFINE i == task[t].job
    <2>1. i \in Job /\ job[i].task = t /\ job[i].state = task[t].status /\ job'[i].task = t
      BY <1>4, RowOfCurrent, ConstantsAssumption DEF Current
    <2>2. i # p.job
      BY <1>4, <2>1 DEF Finishing
    <2>3. RowKept(i)
      BY <2>1, <2>2 DEF UnusedTask
    <2>4. job'[i].state = task'[t].status
      BY <1>4, <2>1, <2>3, ConstantsAssumption DEF Inv, RowsLinked, JobLinked, RowKept
    <2> QED BY <2>1, <2>3, <2>4 DEF RowKept
  <1>5. CASE Taken(t)
    BY <1>1, <1>4, <1>5 DEF Taken, Ages
  <1>6. CASE Advanced(t)
    BY <1>1, <1>4, <1>6 DEF Advanced, Goes, Ages, Stays, Fate
  <1> QED BY <1>1, <1>2, <1>3, <1>5, <1>6

-----------------------------------------------------------------------------
(* Every such step keeps the invariant: what the worker relies on. *)

\* A task that exists goes on existing, and once it is left behind it stays so.
LEMMA TaskGoesOn ==
    ASSUME Inv, Owned, Fated, NEW t \in TaskId, task[t].status # "NONE"
    PROVE  /\ Ages(t) /\ Fate(t)
           /\ task[t].job \in Job
           /\ Current(t)' => Current(t)
           /\ task'[t].status # "NONE"
  <1>1. Ages(t) /\ Fate(t) /\ task[t].job \in Job
    BY DEF Fated, Owned
  <1> QED
    BY <1>1 DEF Fate, Stays, Dropped, Halted, Queues, Taken, Orphaned, ByWorker, ByPoller, Ended, Goes, Terminal

\* The task of an execution that exists.
LEMMA TaskOfAttempt ==
    ASSUME Inv, Owned, NEW a \in AttemptId, attempt[a].status # "NONE"
    PROVE  attempt[a].task \in TaskId /\ task[attempt[a].task].status # "NONE"
  BY ConstantsAssumption DEF Inv, RowsLinked, AttemptLinked, Owned, NoTask, Job

\* An execution keeps its task, cannot catch up with it, and cannot become its current one again.
LEMMA Elder ==
    ASSUME Inv, Owned, TypeOK', Fated, Transferred,
           NEW x, x.attempt \in AttemptId, x.generation \in Nat, attempt[x.attempt].status # "NONE",
           x.pc # "idle", Aged(x), NEW T, T = TaskOf(x)
    PROVE  /\ T \in TaskId /\ task[T].status # "NONE"
           /\ attempt'[x.attempt].task = T
           /\ task'[T].attempt = x.attempt => task[T].attempt = x.attempt
           /\ x.generation <= task'[T].generation
           /\ x.generation = task'[T].generation => task'[T].status \notin {"STOPPING", "CANCELLED"}
           /\ /\ task'[T].attempt = x.attempt
              /\ task'[T].generation = x.generation
              /\ Current(T)'
              => Valid(x)
  <1>1. T \in TaskId /\ task[T].status # "NONE" /\ attempt'[x.attempt].task = T
    BY TaskOfAttempt DEF TaskOf, Transferred
  <1>2. Ages(T) /\ Fate(T) /\ (Current(T)' => Current(T))
    BY <1>1, TaskGoesOn
  <1>3. task'[T].attempt = x.attempt => task[T].attempt = x.attempt
    BY <1>2 DEF Fate, Stays, Dropped, Halted, Queues, Taken, Orphaned, ByWorker, ByPoller, Ended, Goes, UnusedAttempt
  <1>4. task[T].generation \in Nat /\ task'[T].generation \in Nat /\ task'[T].generation >= task[T].generation
    BY <1>1, <1>2 DEF Inv, TypeOK, TaskRow, Ages
  <1>5. x.generation <= task[T].generation
        /\ (x.generation = task[T].generation => task[T].status \notin {"STOPPING", "CANCELLED"})
    BY DEF Aged
  <1>6. x.generation <= task'[T].generation
    BY <1>4, <1>5
  <1>7. x.generation = task'[T].generation => x.generation = task[T].generation
    BY <1>4, <1>5
  <1>8. x.generation = task'[T].generation => task'[T].status \notin {"STOPPING", "CANCELLED"}
    BY <1>2, <1>5, <1>7 DEF Ages
  <1> QED BY <1>1, <1>2, <1>3, <1>5, <1>6, <1>7, <1>8 DEF Valid, Current

\* The parts of the invariant that speak of the worker.
WorkerPart == Aged(worker) /\ WorkerApart /\ WorkerDoes /\ (~DispatchStall => WorkerRuns)

\* What is known of the worker's execution in any state of a step.
LEMMA WorkerKnown ==
    ASSUME Whole, worker.pc # "idle"
    PROVE  /\ worker.attempt \in AttemptId /\ worker.generation \in Nat
           /\ attempt[worker.attempt].status # "NONE"
           /\ Aged(worker)
  BY DEF Whole, Inv, TypeOK, Execution, RowsLinked, ExecutionLinked, Always

\* The execution the poller holds is recorded.
LEMMA PollerKnown ==
    ASSUME Whole, poller.pc # "idle"
    PROVE  /\ poller.attempt \in AttemptId /\ poller.generation \in Nat
           /\ attempt[poller.attempt].status # "NONE"
           /\ Aged(poller)
  BY DEF Whole, Inv, TypeOK, Execution, RowsLinked, ExecutionLinked, Always

\* The current execution of a task belongs to it.
LEMMA AttemptOfTask ==
    ASSUME Inv, NEW t \in TaskId, task[t].attempt # None
    PROVE  task[t].attempt \in AttemptId /\ attempt[task[t].attempt].task = t /\ attempt[task[t].attempt].status # "NONE"
  BY DEF Inv, TypeOK, TaskRow, RowsLinked, TaskLinked

\* The worker and the poller never look after the same execution.
LEMMA ActorsApart ==
    ASSUME Whole, poller.pc # "idle", worker.pc \in Early \union {"completed"}, TaskOf(worker) = TaskOf(poller)
    PROVE  worker.attempt # poller.attempt
  <1>1. CASE worker.pc \in Early
    BY <1>1 DEF Whole, Always, WorkerApart
  <1>2. CASE worker.pc = "completed"
    BY <1>2 DEF Whole, Always, WorkerDoes, PollerSees, JobOf
  <1> QED BY <1>1, <1>2

\* A worker that goes on keeps what it relies on.
LEMMA WorkerProceedsKeeps ==
    ASSUME Whole, Inv', Move, WorkerProceeds, worker'.pc # "idle"
    PROVE  WorkerPart'
  <1> PICK T : T = TaskOf(worker)
    OBVIOUS
  <1> PICK a : a = worker.attempt
    OBVIOUS
  <1>1. Inv /\ Owned /\ TypeOK' /\ Fated /\ Transferred /\ worker.pc # "idle"
    BY DEF Whole, Always, Move, WorkerProceeds, Inv
  <1>2. a \in AttemptId /\ worker.generation \in Nat /\ attempt[a].status # "NONE" /\ Aged(worker)
    BY <1>1, WorkerKnown
  <1>3. /\ T \in TaskId /\ task[T].status # "NONE"
        /\ attempt'[a].task = T
        /\ task'[T].attempt = a => task[T].attempt = a
        /\ worker.generation <= task'[T].generation
        /\ worker.generation = task'[T].generation => task'[T].status \notin {"STOPPING", "CANCELLED"}
        /\ task'[T].attempt = a /\ task'[T].generation = worker.generation /\ Current(T)' => Valid(worker)
    BY <1>1, <1>2, Elder
  <1>4. Ages(T) /\ Fate(T) /\ task[T].job \in Job /\ (Current(T)' => Current(T))
    BY <1>1, <1>3, TaskGoesOn
  <1>5. worker'.attempt = a /\ worker'.generation = worker.generation
        /\ TaskOf(worker)' = T /\ JobOf(worker)' = JobOf(worker)
    BY <1>3, <1>4 DEF WorkerProceeds, TaskOf, JobOf, Ages
  <1>6. Aged(worker)'
    BY <1>3, <1>5 DEF Aged
  <1>7. /\ Valid(worker)' => Valid(worker) /\ Current(T)'
        /\ Valid(worker)' => task'[T].attempt = a /\ task'[T].status \notin {"STOPPING", "CANCELLED"}
    BY <1>3, <1>5 DEF Valid, Current
  <1>8. worker'.pc \in Early => worker.pc \in Early
    BY DEF WorkerProceeds
  <1>9. WorkerApart'
    <2> SUFFICES ASSUME worker'.pc \in Early
                 PROVE  /\ poller'.pc # "idle" => poller'.attempt # a
                        /\ task'[T].attempt = a =>
                              /\ task'[T].status \notin {"WAITING_TORRENT", "COMPLETED"}
                              /\ \A o \in ops' : o.task = T => o.action # "stop-seeding"
      BY <1>5 DEF WorkerApart
    <2>1. /\ poller.pc # "idle" => poller.attempt # a
          /\ task[T].attempt = a =>
                /\ task[T].status \notin {"WAITING_TORRENT", "COMPLETED"}
                /\ \A o \in ops : o.task = T => o.action # "stop-seeding"
      BY <1>8 DEF Whole, Always, WorkerApart
    <2>2. poller'.pc # "idle" => poller'.attempt # a
      <3>1. CASE PollerReads
        <4>1. PICK t \in TaskId : task[t].status = "WAITING_TORRENT" /\ poller'.attempt = task[t].attempt
          BY <3>1 DEF PollerReads
        <4>2. task[t].attempt # None
          BY <1>1, <4>1 DEF Inv, RowsLinked, TaskLinked
        <4>3. attempt[task[t].attempt].task = t
          BY <1>1, <4>2, AttemptOfTask
        <4> QED BY <2>1, <4>1, <4>3 DEF TaskOf
      <3>2. CASE PollerProceeds
        BY <2>1, <3>2 DEF PollerProceeds
      <3> QED BY <3>1, <3>2 DEF Move, PollerMoves
    <2>3. ASSUME task'[T].attempt = a PROVE task'[T].status \notin {"WAITING_TORRENT", "COMPLETED"}
      BY <1>2, <1>3, <1>4, <2>1, <2>3
      DEF Fate, Stays, Dropped, Halted, Queues, Taken, Orphaned, ByWorker, ByPoller, Ended, Goes, Terminal, Early
    <2>4. ASSUME task'[T].attempt = a, NEW o \in ops', o.task = T PROVE o.action # "stop-seeding"
      BY <1>3, <2>1, <2>4 DEF Move, Operated
    <2> QED BY <2>2, <2>3, <2>4
  <1>10. WorkerDoes'
    <2>1. WorkerDoes /\ StopperClears
      BY DEF Whole, Always
    <2>2. ASSUME worker'.pc \in {"pushing", "pushed"} PROVE Remote(a)' /\ IsTorrent(JobOf(worker))
      <3>1. CASE worker.pc = worker'.pc
        <4>1. Remote(a) /\ IsTorrent(JobOf(worker)) /\ worker.pc \in Makes /\ worker.pc \in Early
          BY <2>1, <2>2, <3>1 DEF WorkerDoes, Makes, Early
        <4>2. ~Loses(a)
          <5>1. poller.pc = "cleanup" => a # poller.attempt
            BY <1>1, <4>1 DEF Whole, Always, WorkerApart
          <5>2. stopper.pc = "remote" => attempt[a].task # stopper.op.task
            BY <2>1, <4>1 DEF StopperClears, Past, TaskOf
          <5> QED BY <2>2, <5>1, <5>2 DEF Loses
        <4> QED BY <1>1, <1>2, <4>1, <4>2 DEF Transferred
      <3>2. CASE worker.pc # worker'.pc
        BY <1>5, <2>2, <3>2 DEF WorkerProceeds, Remote
      <3> QED BY <3>1, <3>2
    <2>3. worker'.pc \in {"artifact", "completed"} => ~IsTorrent(JobOf(worker))
      BY <2>1 DEF WorkerProceeds, WorkerDoes
    <2>4. ASSUME worker'.pc = "artifact" PROVE artifact'[JobOf(worker)] = a
      <3>1. worker.pc # "artifact" => artifact'[JobOf(worker)] = a
        BY <2>4 DEF WorkerProceeds
      <3>2. JobOf(worker) \in Job
        BY <1>4 DEF JobOf
      <3>3. poller.pc # "idle" => JobOf(poller) # JobOf(worker)
        BY <2>3, <2>4 DEF Whole, Always, PollerSees
      <3>4. worker.pc = "artifact" => artifact[JobOf(worker)] = a
        BY <2>1 DEF WorkerDoes
      <3> QED BY <3>1, <3>2, <3>3, <3>4 DEF Move, Archived
    <2> QED BY <1>5, <2>2, <2>3, <2>4 DEF WorkerDoes, Remote, IsTorrent
  <1>11. ASSUME ~DispatchStall PROVE WorkerRuns'
    <2>1. /\ Valid(worker) =>
                /\ worker.pc \in Early => task[T].status = "DOWNLOADING"
                /\ worker.pc = "claimed" => a \in leased
                /\ worker.pc = "completed" => task[T].status = "COMPLETED"
          /\ worker.pc \in Makes => Current(T) /\ task[T].attempt = a /\ task[T].status \in {"DOWNLOADING", "STOPPING"}
      BY <1>1, <1>11 DEF Whole, Promptly, WorkerRuns
    \* The poller leaves the worker's task alone.
    <2>2. ASSUME ByPoller(T), task[T].attempt = a PROVE worker.pc \notin Early \union {"completed"}
      BY <2>2, ActorsApart DEF ByPoller, Valid
    <2>3. ASSUME Orphaned(T), task[T].attempt = a PROVE worker.pc = "claimed" /\ ~Valid(worker)
      <3>1. worker.pc = "claimed"
        BY <1>1, <2>3 DEF Orphaned, Active
      <3> QED BY <2>1, <2>3, <3>1 DEF Orphaned
    <2>4. ASSUME Valid(worker)', worker'.pc \in Early PROVE task'[T].status = "DOWNLOADING"
      <3>1. /\ Valid(worker) /\ Current(T)' /\ task[T].attempt = a /\ task'[T].attempt = a
            /\ task[T].status = "DOWNLOADING" /\ task'[T].status \notin {"STOPPING", "CANCELLED"}
            /\ worker.pc \in Early
        BY <1>3, <1>7, <1>8, <2>1, <2>4
      <3> QED
        BY <1>4, <2>2, <2>3, <2>4, <3>1
        DEF Fate, Stays, Dropped, Halted, Queues, Taken, ByWorker, ByPoller, Ended, Goes, Early
    <2>5. ASSUME Valid(worker)', worker'.pc = "claimed" PROVE a \in leased'
      <3>1. worker.pc = "claimed" /\ Valid(worker) /\ a \in leased
        BY <1>7, <2>1, <2>5 DEF WorkerProceeds
      <3>2. ~Unrenewed(a)
        BY <1>11 DEF Unrenewed
      <3>3. task'[T].status = "DOWNLOADING"
        BY <2>4, <2>5 DEF Early
      <3>4. ASSUME NEW t \in TaskId, task[t].attempt = a PROVE t = T
        BY <1>1, <1>2, <3>4, AttemptOfTask, ConstantsAssumption DEF TaskOf
      <3> QED BY <2>5, <3>1, <3>2, <3>3, <3>4 DEF Move, LeasesKept
    <2>6. ASSUME Valid(worker)', worker'.pc = "completed" PROVE task'[T].status = "COMPLETED"
      <3>1. CASE worker.pc # "completed"
        BY <2>6, <3>1 DEF WorkerProceeds
      <3>2. CASE worker.pc = "completed"
        <4>1. /\ Valid(worker) /\ Current(T)' /\ task[T].attempt = a
              /\ task[T].status = "COMPLETED" /\ task'[T].status \notin {"STOPPING", "CANCELLED"}
          BY <1>3, <1>7, <2>1, <2>6, <3>2
        <4> QED
          BY <1>4, <2>2, <2>3, <2>6, <3>2, <4>1
          DEF Fate, Stays, Dropped, Halted, Queues, Taken, Orphaned, ByWorker, Ended, Goes
      <3> QED BY <3>1, <3>2
    <2>7. ASSUME worker'.pc \in Makes
          PROVE  Current(T)' /\ task'[T].attempt = a /\ task'[T].status \in {"DOWNLOADING", "STOPPING"}
      <3>1. worker.pc \in Makes \/ (Valid(worker) /\ worker.pc \in Early /\ worker.pc \notin Makes)
        BY <1>8, <2>7 DEF WorkerProceeds, Makes, Early
      <3>2. Current(T) /\ task[T].attempt = a /\ task[T].status \in {"DOWNLOADING", "STOPPING"} /\ worker.pc \in Early
        BY <2>1, <3>1 DEF Valid, Current, Makes, Early
      <3>3. ~Orphaned(T)
        BY <2>3, <3>1, <3>2 DEF Makes
      <3>4. ~Ended(T)
        BY <2>1, <3>1 DEF Ended, Whole, Always, StopperClears, Past, Valid
      <3> QED
        BY <1>4, <2>2, <2>7, <3>2, <3>3, <3>4
        DEF Fate, Stays, Dropped, Halted, Queues, Taken, ByWorker, Goes, Terminal, Makes
    <2> QED BY <1>5, <2>4, <2>5, <2>6, <2>7 DEF WorkerRuns
  <1> QED BY <1>6, <1>9, <1>10, <1>11 DEF WorkerPart

\* A claim gives the worker an execution that nobody knew, on a row that was queued.
LEMMA WorkerClaimsKeeps ==
    ASSUME Whole, Inv', Move, WorkerClaims
    PROVE  WorkerPart'
  <1> USE ConstantsAssumption
  <1>1. Inv /\ Owned /\ TypeOK' /\ Fated /\ TypeOK /\ SeedingDone
    BY DEF Whole, Always, Move, Inv
  <1>2. PICK t \in TaskId :
            /\ worker.pc = "idle" /\ worker'.pc = "claimed"
            /\ Current(t) /\ task[t].status = "PENDING" /\ task'[t].status = "DOWNLOADING"
            /\ worker'.attempt \in UnusedAttempt /\ worker'.generation = task[t].generation
            /\ attempt'[worker'.attempt].task = t /\ worker'.attempt \in leased'
            /\ UNCHANGED <<ops, poller, stopper>>
    BY DEF WorkerClaims
  <1>3. Ages(t) /\ Fate(t)
    BY <1>1, <1>2, TaskGoesOn
  <1>4. TaskOf(worker)' = t
    BY <1>2 DEF TaskOf
  <1>5. Aged(worker)'
    <2>1. task[t].generation \in Nat /\ task'[t].generation \in Nat
      BY <1>1 DEF TypeOK, TaskRow
    <2> QED BY <1>2, <1>3, <1>4, <2>1 DEF Aged, Ages
  <1>6. WorkerApart'
    <2>1. poller.pc # "idle" => poller.attempt # worker'.attempt
      BY <1>2, PollerKnown DEF UnusedAttempt
    <2>2. \A o \in ops : o.task = t => o.action # "stop-seeding"
      BY <1>1, <1>2 DEF SeedingDone
    <2> QED BY <1>2, <1>4, <2>1, <2>2 DEF WorkerApart
  <1>7. WorkerDoes'
    BY <1>2 DEF WorkerDoes
  <1>8. WorkerRuns'
    BY <1>2, <1>4 DEF WorkerRuns, Makes
  <1> QED BY <1>5, <1>6, <1>7, <1>8 DEF WorkerPart

\* What the worker relies on is kept.
LEMMA WorkerKept ==
    ASSUME Whole, Inv', Move
    PROVE  WorkerPart'
  <1>1. CASE worker'.pc = "idle"
    BY <1>1 DEF WorkerPart, Aged, WorkerApart, WorkerDoes, WorkerRuns, Early
  <1> QED BY <1>1, WorkerProceedsKeeps, WorkerClaimsKeeps DEF Move, WorkerMoves

-----------------------------------------------------------------------------
(* What the poller relies on. *)

PollerPart == Aged(poller) /\ PollerSees /\ PollerHolds

\* No operation is under way for a task whose execution may still begin.
LEMMA NoOperationForWorker ==
    ASSUME Whole, NEW p \in ops, worker.pc \in Early, Valid(worker)
    PROVE  p.task # TaskOf(worker)
  <1> SUFFICES ASSUME p.task = TaskOf(worker) PROVE FALSE
    OBVIOUS
  <1>1. OperationLinked(p) /\ OperationCurrent(p) /\ p.job \in Job
    BY DEF Whole, Inv, RowsLinked, OperationsCurrent, TypeOK, Operation
  <1>2. p.action # "stop-seeding"
    BY DEF Whole, Always, WorkerApart, Valid
  <1>3. job[p.job].task = p.task
    BY <1>1 DEF Valid, OperationLinked
  <1>4. task[p.task].status = "STOPPING"
    BY <1>1, <1>2, <1>3 DEF OperationCurrent, Whole, Inv, RowsLinked, JobLinked
  <1> QED BY <1>4 DEF Valid

\* A valid poller has no row that is being stopped.
LEMMA NoOperationForPoller ==
    ASSUME Whole, NEW p \in ops, poller.pc = "read", Valid(poller)
    PROVE  p.task # TaskOf(poller)
  <1> SUFFICES ASSUME p.task = TaskOf(poller) PROVE FALSE
    OBVIOUS
  <1>1. OperationLinked(p) /\ OperationCurrent(p) /\ p.job \in Job
    BY DEF Whole, Inv, RowsLinked, OperationsCurrent, TypeOK, Operation
  <1>2. task[p.task].status = "WAITING_TORRENT"
    BY DEF Whole, Always, PollerSees, Looks
  <1>3. job[p.job].task = p.task
    BY <1>1 DEF Valid, OperationLinked
  <1>4. p.action # "stop-seeding"
    BY <1>1, <1>2, <1>3 DEF Whole, Always, SeedingDone, Current, OperationLinked
  <1>5. task[p.task].status = "STOPPING"
    BY <1>1, <1>3, <1>4 DEF OperationCurrent, Whole, Inv, RowsLinked, JobLinked
  <1> QED BY <1>2, <1>5

\* A poller that goes on keeps what it relies on.
LEMMA PollerProceedsKeeps ==
    ASSUME Whole, Inv', Move, PollerProceeds, poller'.pc # "idle"
    PROVE  PollerPart'
  <1> PICK T : T = TaskOf(poller)
    OBVIOUS
  <1> PICK a : a = poller.attempt
    OBVIOUS
  <1>1. Inv /\ Owned /\ TypeOK' /\ Fated /\ Transferred /\ poller.pc # "idle"
    BY DEF Whole, Always, Move, PollerProceeds, Inv
  <1>2. a \in AttemptId /\ poller.generation \in Nat /\ attempt[a].status # "NONE" /\ Aged(poller)
    BY <1>1, PollerKnown
  <1>3. /\ T \in TaskId /\ task[T].status # "NONE"
        /\ attempt'[a].task = T
        /\ task'[T].attempt = a => task[T].attempt = a
        /\ poller.generation <= task'[T].generation
        /\ poller.generation = task'[T].generation => task'[T].status \notin {"STOPPING", "CANCELLED"}
        /\ task'[T].attempt = a /\ task'[T].generation = poller.generation /\ Current(T)' => Valid(poller)
    BY <1>1, <1>2, Elder
  <1>4. Ages(T) /\ Fate(T) /\ task[T].job \in Job
    BY <1>1, <1>3, TaskGoesOn
  <1>5. poller'.attempt = a /\ poller'.generation = poller.generation
        /\ TaskOf(poller)' = T /\ JobOf(poller)' = JobOf(poller)
    BY <1>3, <1>4 DEF PollerProceeds, TaskOf, JobOf, Ages
  <1>6. Aged(poller)'
    BY <1>3, <1>5 DEF Aged
  <1>7. Valid(poller)' => /\ Valid(poller) /\ Current(T)' /\ task[T].attempt = a
                          /\ task'[T].status \notin {"STOPPING", "CANCELLED"}
    BY <1>3, <1>5 DEF Valid, Current
  \* The worker leaves the poller's task alone.
  <1>8. ASSUME ByWorker(T), task[T].attempt = a PROVE FALSE
    <2>1. worker.attempt = a /\ worker.pc \in Early \union {"completed"} /\ TaskOf(worker) = TaskOf(poller)
      BY <1>8 DEF ByWorker, Valid, Makes, Early
    <2> QED BY <1>1, <2>1, ActorsApart
  <1>9. PollerSees'
    <2>1. IsTorrent(JobOf(poller))
      BY <1>1 DEF Whole, Always, PollerSees
    <2>2. ASSUME Valid(poller)'
          PROVE  /\ poller'.pc \in Looks => task'[T].status = "WAITING_TORRENT"
                 /\ poller'.pc \in Cleans => task'[T].status = "COMPLETED"
                 /\ task'[T].status \in {"WAITING_TORRENT", "COMPLETED"}
      <3>1. /\ poller.pc \in Looks => task[T].status = "WAITING_TORRENT"
            /\ poller.pc \in Cleans => task[T].status = "COMPLETED"
            /\ task[T].status \in {"WAITING_TORRENT", "COMPLETED"}
        BY <1>1, <1>7, <2>2 DEF Whole, Always, PollerSees
      <3>2. CASE Stays(T)
        BY <3>1, <3>2 DEF Stays, PollerProceeds
      <3>3. CASE ByPoller(T)
        BY <3>3 DEF ByPoller, Goes, Looks
      <3> QED
        BY <1>4, <1>7, <1>8, <2>2, <3>1, <3>2, <3>3
        DEF Fate, Dropped, Halted, Queues, Taken, Orphaned, Ended, Goes
    <2> QED BY <1>5, <2>1, <2>2 DEF PollerSees, IsTorrent
  <1>10. PollerHolds'
    <2> SUFFICES ASSUME poller'.pc \in Polls
                 PROVE  /\ Current(T)' /\ task'[T].attempt = a
                        /\ task'[T].status \in {"WAITING_TORRENT", "STOPPING"}
                        /\ Remote(a)'
      BY <1>5 DEF PollerHolds, Current, Remote
    <2>1. poller.pc \in Polls \/ (poller.pc = "read" /\ Valid(poller))
      BY DEF PollerProceeds
    <2>2. /\ Current(T) /\ task[T].attempt = a
          /\ task[T].status \in {"WAITING_TORRENT", "STOPPING"}
          /\ Remote(a)
      <3>1. CASE poller.pc \in Polls
        BY <3>1 DEF Whole, Always, PollerHolds
      <3>2. CASE poller.pc = "read" /\ Valid(poller)
        <4>1. task[T].status = "WAITING_TORRENT" /\ Current(T) /\ task[T].attempt = a
          BY <3>2 DEF Whole, Always, PollerSees, Looks, Valid, Current
        <4> QED BY <1>3, <4>1 DEF Whole, Always, ParkedRemote
      <3> QED BY <2>1, <3>1, <3>2
    <2>3. ~Ended(T)
      BY <2>1 DEF Ended, Whole, Always, StopperClears, Past, Valid
    <2>4. Current(T)' /\ task'[T].attempt = a /\ task'[T].status \in {"WAITING_TORRENT", "STOPPING"}
      BY <1>4, <1>8, <2>2, <2>3
      DEF Fate, Stays, Dropped, Halted, Queues, Taken, Orphaned, ByPoller, Goes, Polls, Terminal
    <2>5. ~Loses(a)
      <3>1. worker.pc = "pushing" => a # worker.attempt
        BY <1>1 DEF Whole, Always, WorkerApart, Early
      <3>2. ASSUME stopper.pc = "remote", PollerGone, T = stopper.op.task, UNCHANGED poller PROVE FALSE
        <4>1. poller.pc \in Polls
          BY <3>2
        <4> QED BY <3>2, <4>1 DEF Whole, Always, StopperClears, Past, PollerGone, PollerHandle, Polls
      <3>3. poller.pc # "cleanup"
        BY <2>1 DEF Polls
      <3> QED BY <3>1, <3>2, <3>3 DEF Loses, TaskOf
    <2> QED BY <1>1, <1>2, <2>2, <2>4, <2>5 DEF Transferred
  <1> QED BY <1>6, <1>9, <1>10 DEF PollerPart

\* What the poller reads is so when it reads it.
LEMMA PollerReadsKeeps ==
    ASSUME Whole, PollerReads
    PROVE  PollerPart'
  <1>1. PICK t \in TaskId :
            /\ poller'.pc = "read"
            /\ task[t].status = "WAITING_TORRENT" /\ Current(t) /\ IsTorrent(task[t].job)
            /\ poller'.attempt = task[t].attempt /\ poller'.generation = task[t].generation
            /\ UNCHANGED <<tables, worker, stopper>>
    BY DEF PollerReads
  <1>2. attempt[task[t].attempt].task = t
    BY <1>1, AttemptOfTask DEF Whole, Inv, RowsLinked, TaskLinked
  <1>3. TaskOf(poller)' = t /\ task[t].generation \in Nat
    BY <1>1, <1>2 DEF TaskOf, tables, Whole, Inv, TypeOK, TaskRow
  <1>4. task' = task
    BY <1>1 DEF tables
  <1>5. Aged(poller)'
    BY <1>1, <1>3, <1>4 DEF Aged
  <1>6. PollerSees'
    BY <1>1, <1>3, <1>4 DEF PollerSees, IsTorrent, JobOf, Looks, Cleans
  <1> QED BY <1>1, <1>5, <1>6 DEF PollerPart, PollerHolds, Polls

\* What the poller relies on is kept.
LEMMA PollerKept ==
    ASSUME Whole, Inv', Move
    PROVE  PollerPart'
  <1>1. CASE poller'.pc = "idle"
    BY <1>1 DEF PollerPart, Aged, PollerSees, PollerHolds, Polls
  <1> QED BY <1>1, PollerProceedsKeeps, PollerReadsKeeps DEF Move, PollerMoves

-----------------------------------------------------------------------------
(* What the operation processor relies on. *)

StopperPart == StopperHas /\ StopperClears /\ StopperConfirms

\* An operation names a task that exists.
LEMMA OperationTask ==
    ASSUME Whole, NEW p \in ops
    PROVE  /\ p \in Operation /\ p.task \in TaskId /\ task[p.task].status # "NONE" /\ task[p.task].job = p.job
           /\ p.job \in Job
  BY DEF Whole, Inv, TypeOK, Operation, RowsLinked, OperationLinked

\* Nothing new turns up at the client for a task that an operation holds.
LEMMA NothingKept ==
    ASSUME Whole, Transferred, NEW p \in ops, NothingRemote(p.task)
    PROVE  NothingRemote(p.task)'
  <1> SUFFICES ASSUME NEW a \in AttemptId, attempt'[a].task = p.task, Remote(a)' PROVE FALSE
    BY DEF NothingRemote, Remote
  <1>1. Remote(a) \/ Intends(a)
    BY DEF Transferred
  <1>2. attempt[a].status # "NONE"
    <2>1. CASE Remote(a)
      BY <2>1 DEF Remote, Whole, Inv, RowsLinked, AttemptLinked, NoAttempt
    <2>2. CASE Intends(a)
      BY <2>2, WorkerKnown DEF Intends
    <2> QED BY <1>1, <2>1, <2>2
  <1>3. attempt[a].task = p.task
    BY <1>2 DEF Transferred
  <1>4. ~Remote(a)
    BY <1>3 DEF NothingRemote
  <1>5. worker.pc \in Early /\ Valid(worker) /\ TaskOf(worker) = p.task
    BY <1>1, <1>3, <1>4 DEF Intends, Early, TaskOf
  <1> QED BY <1>5, NoOperationForWorker

\* The operation goes on to the remote side.
LEMMA ProceedsKeeps ==
    ASSUME Whole, NEW o, Proceeds(o), NEW p \in ops, p.task = o.task, p.job = o.job,
           p.action = o.action \/ (p.action = "cancel" /\ o.action = "replace-account"),
           o.action = "replace-account" => NothingRemote(o.task)
    PROVE  StopperPart'
  <1>1. /\ stopper'.op = o /\ stopper'.pc \in Past
        /\ ~WorkerHandle(o.task)
        /\ stopper'.pc = "prepare" <=> o.action = "replace-account"
        /\ stopper'.pc = "confirmed" => ~IsTorrent(o.job)
        /\ stopper'.pc = "remote" /\ PollerHandle(o.task) => poller'.cancelled
        /\ poller'.pc = poller.pc /\ poller'.attempt = poller.attempt
        /\ task' = task /\ attempt' = attempt /\ ops' = ops /\ worker' = worker
    BY DEF Proceeds, tables
  <1>2. StopperHas'
    BY <1>1 DEF StopperHas
  <1>3. task[o.task].job = o.job
    BY OperationTask
  <1>4. stopper'.pc = "confirmed" => NothingRemote(o.task)
    BY <1>1, <1>3 DEF Whole, Always, TorrentsOnly, NothingRemote, Remote
  <1>5. worker.pc \in Makes => TaskOf(worker) # o.task
    BY <1>1 DEF WorkerHandle, Makes
  <1>6. ASSUME poller.pc \in Polls, TaskOf(poller) = o.task PROVE stopper'.pc = "remote" /\ poller'.cancelled
    <2>1. Remote(poller.attempt) /\ poller.attempt \in AttemptId
      BY <1>6, PollerKnown DEF Whole, Always, PollerHolds, Polls
    <2>2. ~NothingRemote(o.task)
      BY <1>6, <2>1 DEF NothingRemote, TaskOf
    <2>3. stopper'.pc = "remote"
      BY <1>1, <1>4, <2>2 DEF Past
    <2>4. PollerHandle(o.task)
      BY <1>6 DEF PollerHandle, Polls
    <2> QED BY <1>1, <2>3, <2>4
  <1>7. StopperClears'
    BY <1>1, <1>5, <1>6 DEF StopperClears, TaskOf
  <1>8. StopperConfirms'
    BY <1>1, <1>4 DEF StopperConfirms, Whole, Always, NothingRemote, Remote
  <1> QED BY <1>2, <1>7, <1>8 DEF StopperPart

\* While others move, an operation under way keeps what it has reached.
LEMMA StopperWaitsKeeps ==
    ASSUME Whole, Inv', Move, stopper.pc # "idle", UNCHANGED stopper
    PROVE  StopperHas' /\ StopperClears'
  <1>1. StopperHas /\ StopperClears /\ Inv /\ Owned
    BY DEF Whole, Always
  <1>2. PICK p \in ops :
            /\ p.task = stopper.op.task /\ p.job = stopper.op.job
            /\ p.action = stopper.op.action \/ (p.action = "cancel" /\ stopper.op.action = "replace-account")
    BY <1>1 DEF StopperHas
  <1>3. p \in Operation
    BY <1>2, OperationTask
  <1>4. StopperHas'
    <2>1. CASE p \in ops'
      BY <1>2, <2>1 DEF StopperHas
    <2>2. CASE p.action = "replace-account" /\ [p EXCEPT !.action = "cancel"] \in ops'
      <3>1. /\ [p EXCEPT !.action = "cancel"].task = p.task
            /\ [p EXCEPT !.action = "cancel"].job = p.job
            /\ [p EXCEPT !.action = "cancel"].action = "cancel"
        BY <1>3 DEF Operation
      <3> QED BY <1>2, <2>2, <3>1 DEF StopperHas
    <2> QED BY <2>1, <2>2 DEF Move, Operated
  <1>5. ASSUME stopper.pc \in Past, worker'.pc \in Makes PROVE TaskOf(worker)' # stopper.op.task
    <2>1. WorkerProceeds /\ worker.pc # "idle"
      BY <1>5 DEF Move, WorkerMoves, WorkerClaims, WorkerProceeds, Makes
    <2>2. TaskOf(worker)' = TaskOf(worker)
      BY <2>1, WorkerKnown DEF WorkerProceeds, TaskOf, Move, Transferred
    <2>3. worker.pc \in Makes \/ (worker.pc \in Early /\ Valid(worker))
      BY <1>5, <2>1 DEF WorkerProceeds, Makes, Early
    <2>4. TaskOf(worker) # stopper.op.task
      BY <1>1, <1>2, <1>5, <2>3, NoOperationForWorker DEF StopperClears
    <2> QED BY <2>2, <2>4
  <1>6. ASSUME stopper.pc \in Past, poller'.pc \in Polls, TaskOf(poller)' = stopper.op.task
        PROVE  stopper.pc = "remote" /\ poller'.cancelled
    <2>1. PollerProceeds /\ poller.pc # "idle"
      BY <1>6 DEF Move, PollerMoves, PollerReads, PollerProceeds, Polls
    <2>2. TaskOf(poller) = stopper.op.task
      BY <1>6, <2>1, PollerKnown DEF PollerProceeds, TaskOf, Move, Transferred
    <2>3. poller.pc \in Polls
      BY <1>2, <1>6, <2>1, <2>2, NoOperationForPoller DEF PollerProceeds
    <2> QED BY <1>1, <1>6, <2>1, <2>2, <2>3 DEF StopperClears, PollerProceeds
  <1> QED BY <1>4, <1>5, <1>6 DEF StopperClears

\* The replacements of the next state have nothing at the client.
LEMMA ReplacementsKeep ==
    ASSUME Whole, Move
    PROVE  \A o \in ops' : o.action = "replace-account" => NothingRemote(o.task)'
  <1> SUFFICES ASSUME NEW o \in ops', o.action = "replace-account", o \in ops PROVE NothingRemote(o.task)'
    BY DEF Move, Operated
  <1>1. NothingRemote(o.task)
    BY DEF Whole, Always, StopperConfirms
  <1> QED BY <1>1, NothingKept DEF Move

\* What the operation processor relies on is kept.
LEMMA StopperKept ==
    ASSUME Whole, Inv', Move
    PROVE  StopperPart'
  <1>1. StopperHas /\ StopperClears /\ StopperConfirms
    BY DEF Whole, Always
  <1>2. CASE stopper'.pc = "idle"
    BY <1>2, ReplacementsKeep DEF StopperPart, StopperHas, StopperClears, StopperConfirms, Past
  <1>3. CASE UNCHANGED stopper /\ stopper.pc # "idle"
    <2>1. PICK p \in ops : p.task = stopper.op.task
      BY <1>1, <1>3 DEF StopperHas
    <2>2. NothingRemote(p.task) => NothingRemote(p.task)'
      BY NothingKept DEF Move
    <2>3. stopper.op.action = "replace-account" \/ stopper.pc = "confirmed" => NothingRemote(p.task)
      BY <1>1, <1>3, <2>1 DEF StopperConfirms
    <2>4. NothingRemote(stopper.op.task)' <=> NothingRemote(p.task)'
      BY <1>3, <2>1 DEF NothingRemote
    <2>5. stopper.pc = "prepare" => stopper.op.action = "replace-account"
      BY <1>1 DEF StopperConfirms
    <2>6. StopperConfirms'
      BY <1>3, <2>2, <2>3, <2>4, <2>5, ReplacementsKeep DEF StopperConfirms
    <2> QED BY <1>3, <2>6, StopperWaitsKeeps DEF StopperPart
  <1>4. ASSUME NEW o \in ops, stopper'.pc = "local", stopper'.op = o, UNCHANGED <<tables, poller>>
        PROVE  StopperPart'
    <2>1. ops' = ops /\ attempt' = attempt
      BY <1>4 DEF tables
    <2>2. StopperHas' /\ StopperClears'
      BY <1>4, <2>1 DEF StopperHas, StopperClears, Past
    <2>3. o.action = "replace-account" => NothingRemote(o.task)
      BY <1>1 DEF StopperConfirms
    <2>4. StopperConfirms'
      BY <1>1, <1>4, <2>1, <2>3 DEF StopperConfirms, NothingRemote, Remote
    <2> QED BY <2>2, <2>4 DEF StopperPart
  <1>5. ASSUME NEW o \in ops, Proceeds(o) PROVE StopperPart'
    BY <1>1, <1>5, ProceedsKeeps DEF StopperConfirms
  <1>6. ASSUME stopper.pc = "local", Proceeds(stopper.op) PROVE StopperPart'
    <2>1. PICK p \in ops :
              /\ p.task = stopper.op.task /\ p.job = stopper.op.job
              /\ p.action = stopper.op.action \/ (p.action = "cancel" /\ stopper.op.action = "replace-account")
      BY <1>1, <1>6 DEF StopperHas
    <2>2. stopper.op.action = "replace-account" => NothingRemote(stopper.op.task)
      BY <1>1, <1>6 DEF StopperConfirms
    <2> QED BY <1>6, <2>1, <2>2, ProceedsKeeps
  <1>7. ASSUME stopper.pc = "remote", stopper'.pc = "confirmed", stopper'.op = stopper.op,
               PollerGone, Unresolved(stopper.op.task) = {}, UNCHANGED <<tables, worker, poller>>
        PROVE  StopperPart'
    <2>1. ops' = ops /\ attempt' = attempt
      BY <1>7 DEF tables
    <2>2. StopperHas'
      BY <1>1, <1>7, <2>1 DEF StopperHas
    <2>3. StopperClears'
      BY <1>1, <1>7, <2>1 DEF StopperClears, Past, TaskOf, PollerGone, PollerHandle, Polls
    <2>4. NothingRemote(stopper.op.task)
      BY <1>7 DEF Unresolved, NothingRemote, Remote
    <2>5. StopperConfirms'
      BY <1>1, <1>7, <2>1, <2>4 DEF StopperConfirms, NothingRemote, Remote
    <2> QED BY <2>2, <2>3, <2>5 DEF StopperPart
  <1> QED BY <1>2, <1>3, <1>4, <1>5, <1>6, <1>7 DEF Move, StopperMoves


-----------------------------------------------------------------------------
(* The rows, the operations and the transfers. *)

\* Every identity goes on being blank or somebody's.
LEMMA OwnedKept ==
    ASSUME Whole, Inv', Move
    PROVE  Owned'
  <1> SUFFICES ASSUME NEW t \in TaskId
               PROVE  IF task'[t].status = "NONE" THEN task'[t] = NoTask ELSE task'[t].job \in Job
    BY DEF Owned
  <1>1. Inv /\ Owned /\ Fated
    BY DEF Whole, Always, Move
  <1>2. CASE task[t].status = "NONE"
    BY <1>1, <1>2 DEF Fated, Owned
  <1>3. CASE task[t].status # "NONE"
    <2>1. Ages(t) /\ task[t].job \in Job /\ task'[t].status # "NONE"
      BY <1>1, <1>3, TaskGoesOn
    <2> QED BY <2>1 DEF Ages
  <1> QED BY <1>2, <1>3

\* The end of seeding is asked for rows that finished, and they stay finished.
LEMMA SeedingDoneKept ==
    ASSUME Whole, Inv', Move
    PROVE  SeedingDone'
  <1> SUFFICES ASSUME NEW o \in ops', o.action = "stop-seeding", Current(o.task)'
               PROVE  task'[o.task].status \in {"COMPLETED", "FAILED"}
    BY DEF SeedingDone, Current
  <1>1. Inv /\ Owned /\ Fated /\ SeedingDone
    BY DEF Whole, Always, Move
  <1>2. CASE o \in ops
    <2> PICK t : t = o.task
      OBVIOUS
    <2>1. t \in TaskId /\ task[t].status # "NONE" /\ HasOperation(t)
      BY <1>2, OperationTask DEF HasOperation
    <2>2. Fate(t) /\ (Current(t)' => Current(t))
      BY <1>1, <2>1, TaskGoesOn
    <2>3. Current(t) /\ Current(t)'
      BY <2>2 DEF Current
    <2>4. task[t].status \in {"COMPLETED", "FAILED"}
      BY <1>1, <1>2, <2>3 DEF SeedingDone
    \* The worker parks nothing whose seeding is being stopped.
    <2>5. ByWorker(t) => task'[t].status # "WAITING_TORRENT"
      <3> SUFFICES ASSUME ByWorker(t), task'[t].status = "WAITING_TORRENT" PROVE FALSE
        OBVIOUS
      <3>1. /\ worker.pc \in Makes \union {"completed"} /\ Valid(worker) /\ TaskOf(worker) = t
            /\ Remote(worker.attempt)
        BY DEF ByWorker
      <3>2. worker.attempt \in AttemptId
        BY <3>1, WorkerKnown DEF Makes
      <3>3. IsTorrent(JobOf(worker))
        BY <3>1, <3>2 DEF Whole, Always, TorrentsOnly, Remote, JobOf, TaskOf
      <3>4. worker.pc \in Early
        BY <3>1, <3>3 DEF Whole, Always, WorkerDoes, Makes, Early
      <3>5. task[t].attempt = worker.attempt
        BY <3>1 DEF Valid
      <3> QED BY <1>2, <3>1, <3>4, <3>5 DEF Whole, Always, WorkerApart
    <2> QED
      BY <2>1, <2>2, <2>3, <2>4, <2>5
      DEF Fate, Stays, Dropped, Halted, Queues, Taken, Orphaned, ByWorker, ByPoller, Ended, Goes
  <1>3. CASE o \notin ops
    BY <1>3 DEF Move, Operated
  <1> QED BY <1>2, <1>3

\* An execution that has something at the client exists, and keeps its task.
LEMMA TransferKept ==
    ASSUME Whole, Move, NEW a \in AttemptId, attempt'[a].resource # "NONE"
    PROVE  /\ attempt[a].status # "NONE"
           /\ attempt'[a].task = attempt[a].task
           /\ attempt[a].task \in TaskId /\ task[attempt[a].task].status # "NONE"
           /\ task'[attempt[a].task].job = task[attempt[a].task].job
  <1>0. Inv /\ Owned /\ Fated
    BY DEF Whole, Always, Move
  <1>1. attempt[a].resource # "NONE" \/ Intends(a) \/ (poller.pc = "cleanup" /\ a = poller.attempt)
    BY DEF Move, Transferred
  <1>2. attempt[a].status # "NONE"
    <2>1. CASE attempt[a].resource # "NONE"
      BY <1>0, <2>1 DEF Inv, RowsLinked, AttemptLinked, NoAttempt
    <2>2. CASE Intends(a)
      BY <2>2, WorkerKnown DEF Intends
    <2>3. CASE poller.pc = "cleanup" /\ a = poller.attempt
      BY <2>3, PollerKnown
    <2> QED BY <1>1, <2>1, <2>2, <2>3
  <1>3. attempt'[a].task = attempt[a].task
    BY <1>2 DEF Move, Transferred
  <1>4. attempt[a].task \in TaskId /\ task[attempt[a].task].status # "NONE"
    BY <1>0, <1>2, TaskOfAttempt
  <1>5. Ages(attempt[a].task)
    BY <1>0, <1>4, TaskGoesOn
  <1> QED BY <1>2, <1>3, <1>4, <1>5 DEF Ages

\* Only torrents have something at the client.
LEMMA TorrentsOnlyKept ==
    ASSUME Whole, Inv', Move
    PROVE  TorrentsOnly'
  <1> SUFFICES ASSUME NEW a \in AttemptId, attempt'[a].resource # "NONE"
               PROVE  IsTorrent(task'[attempt'[a].task].job)
    BY DEF TorrentsOnly, IsTorrent
  <1>1. attempt'[a].task = attempt[a].task /\ task'[attempt[a].task].job = task[attempt[a].task].job
    BY TransferKept
  <1>2. IsTorrent(task[attempt[a].task].job)
    BY DEF Move, Transferred, Intends, Whole, Always, TorrentsOnly, PollerSees, JobOf, TaskOf
  <1> QED BY <1>1, <1>2

\* A parked row keeps its torrent at the client.
LEMMA ParkedRemoteKept ==
    ASSUME Whole, Inv', Move
    PROVE  ParkedRemote'
  <1> SUFFICES ASSUME NEW t \in TaskId, task'[t].status = "WAITING_TORRENT", Current(t)'
               PROVE  attempt'[task'[t].attempt].resource \in {"INTENDED", "REGISTERED"}
    BY DEF ParkedRemote, Current, Remote
  <1>1. Inv /\ Owned /\ Fated /\ Transferred
    BY DEF Whole, Always, Move
  <1>2. task[t].status # "NONE"
    BY <1>1 DEF Fated
  <1>3. Fate(t) /\ Current(t)
    BY <1>1, <1>2, TaskGoesOn
  <1> PICK a : a = task[t].attempt
    OBVIOUS
  <1>4. Stays(t) \/ ByWorker(t)
    BY <1>3 DEF Fate, Dropped, Halted, Queues, Taken, Orphaned, ByPoller, Ended, Goes, Terminal
  <1>5. CASE Stays(t)
    <2>1. task[t].status = "WAITING_TORRENT" /\ task'[t].attempt = a
      BY <1>5 DEF Stays
    <2>2. Remote(a)
      BY <1>3, <2>1 DEF Whole, Always, ParkedRemote
    <2>3. a \in AttemptId /\ attempt[a].task = t
      BY <1>1, <2>1, AttemptOfTask DEF Inv, RowsLinked, TaskLinked
    <2>4. ~(worker.pc = "pushing" /\ a = worker.attempt)
      BY <2>1, <2>3 DEF Whole, Always, WorkerApart, Early, TaskOf
    <2>5. ~(poller.pc = "cleanup" /\ Valid(poller) /\ a = poller.attempt)
      BY <2>1, <2>3 DEF Whole, Always, PollerSees, Cleans, TaskOf
    <2>6. ~(stopper.pc = "remote" /\ stopper.op.task = t)
      <3> SUFFICES ASSUME stopper.pc = "remote", stopper.op.task = t PROVE FALSE
        OBVIOUS
      <3>1. PICK p \in ops : p.task = t
        BY DEF Whole, Always, StopperHas
      <3>2. OperationCurrent(p) /\ p.job \in Job /\ task[t].job = p.job
        BY <1>1, <3>1, OperationTask DEF Inv, OperationsCurrent
      <3>3. job[p.job].task = t /\ job[p.job].state = "WAITING_TORRENT"
        BY <1>1, <1>2, <1>3, <2>1, <3>2, RowOfCurrent
      <3>4. p.action # "stop-seeding"
        BY <1>3, <2>1, <3>1 DEF Whole, Always, SeedingDone
      <3> QED BY <3>1, <3>2, <3>3, <3>4 DEF OperationCurrent
    <2>7. Remote(a)'
      BY <1>1, <2>2, <2>3, <2>4, <2>5, <2>6 DEF Transferred, Loses
    <2> QED BY <2>1, <2>7 DEF Remote
  <1>6. CASE ByWorker(t)
    <2>1. /\ worker.pc \in Makes \union {"completed"} /\ Valid(worker) /\ TaskOf(worker) = t
          /\ Remote(worker.attempt) /\ task[t].status # "WAITING_TORRENT" /\ task'[t].attempt = a
      BY <1>6 DEF ByWorker, Goes
    <2>2. a = worker.attempt /\ a \in AttemptId
      BY <2>1, WorkerKnown DEF Valid, Makes
    <2>3. task' # task
      BY <2>1
    <2>4. Remote(a)'
      BY <1>1, <2>1, <2>2, <2>3 DEF Transferred, Loses
    <2> QED BY <2>1, <2>4 DEF Remote
  <1> QED BY <1>4, <1>5, <1>6

\* A second torrent is not started.
LEMMA OneLoadingKept ==
    ASSUME Whole, Inv', Move
    PROVE  OneLoading'
  <1> SUFFICES ASSUME NEW a \in AttemptId, NEW b \in AttemptId, Loading(a)', Loading(b)'
               PROVE  attempt[a].task = attempt[b].task
    BY TransferKept DEF OneLoading, Loading, Remote
  <1>1. (Loading(a) \/ Intends(a)) /\ (Loading(b) \/ Intends(b))
    BY DEF Move, Transferred
  <1>2. ASSUME NEW c \in AttemptId, NEW d \in AttemptId, Intends(c), Loading(d)
        PROVE  attempt[c].task = attempt[d].task
    <2>1. attempt[d].task \in TaskId
      <3>1. attempt[d].status # "NONE"
        BY <1>2 DEF Loading, Remote, Whole, Inv, RowsLinked, AttemptLinked, NoAttempt
      <3> QED BY <3>1, TaskOfAttempt DEF Whole, Always
    <2>2. attempt[d].task \in RemoteTasks
      BY <1>2, <2>1 DEF Loading, Remote, RemoteTasks, Unresolved
    <2>3. RemoteTasks \subseteq {attempt[c].task}
      BY <1>2 DEF Intends, StrangerHoldsRemote, TaskOf
    <2> QED BY <2>2, <2>3
  <1>3. CASE Loading(a) /\ Loading(b)
    BY <1>3 DEF Whole, Always, OneLoading
  <1>4. CASE Intends(a) /\ Intends(b)
    BY <1>4 DEF Intends
  <1> QED BY <1>1, <1>2, <1>3, <1>4

\* A finished row shows the archive of its task.
LEMMA CompletedKept ==
    ASSUME Whole, Inv', Move
    PROVE  CompletedHasArtifact'
  <1> USE ConstantsAssumption
  <1> SUFFICES ASSUME NEW j \in Job, job'[j].state = "COMPLETED"
               PROVE  artifact'[j] # None /\ attempt'[artifact'[j]].task = job'[j].task
    BY DEF CompletedHasArtifact
  <1>1. Inv /\ Owned /\ Fated /\ Transferred /\ CompletedHasArtifact
    BY DEF Whole, Always, Move
  <1> PICK t : t = job'[j].task
    OBVIOUS
  <1>2. t \in TaskId /\ task'[t].status = "COMPLETED" /\ task'[t].job = j
    BY DEF Inv, RowsLinked, JobLinked
  <1>3. task[t].status # "NONE"
    BY <1>1, <1>2 DEF Fated
  <1>4. Fate(t) /\ task[t].job = j /\ Current(t)'
    BY <1>1, <1>2, <1>3, TaskGoesOn DEF Ages, Current
  <1>5. Current(t)
    BY <1>1, <1>2, <1>3, <1>4, TaskGoesOn
  \* An execution of the task goes on being one.
  <1>6. ASSUME NEW a, a \in AttemptId \union {None}, a # None, attempt[a].task = t, artifact'[j] = a
        PROVE  artifact'[j] # None /\ attempt'[artifact'[j]].task = t
    <2>1. attempt[a].status # "NONE"
      BY <1>1, <1>2, <1>6 DEF Inv, RowsLinked, AttemptLinked, NoAttempt
    <2> QED BY <1>1, <1>6, <2>1 DEF Transferred
  <1>7. CASE Stays(t)
    <2>1. job[j].state = "COMPLETED" /\ job[j].task = t
      BY <1>1, <1>2, <1>3, <1>4, <1>5, <1>7, RowOfCurrent DEF Stays
    <2>2. artifact[j] \in AttemptId \union {None} /\ artifact[j] # None /\ attempt[artifact[j]].task = t
      BY <1>1, <2>1 DEF CompletedHasArtifact, Inv, TypeOK
    <2>3. CASE artifact'[j] = artifact[j]
      BY <1>6, <2>2, <2>3
    <2>4. CASE worker.pc = "running" /\ Valid(worker) /\ JobOf(worker) = j /\ artifact'[j] = worker.attempt
      <3>1. TaskOf(worker) = t
        BY <2>1, <2>4 DEF Valid, JobOf
      <3> QED BY <1>6, <2>4, <3>1, WorkerKnown DEF TaskOf
    <2>5. CASE poller.pc = "delivered" /\ Valid(poller) /\ JobOf(poller) = j /\ artifact'[j] = poller.attempt
      <3>1. TaskOf(poller) = t
        BY <2>1, <2>5 DEF Valid, JobOf
      <3> QED BY <1>6, <2>5, <3>1, PollerKnown DEF TaskOf
    <2> QED BY <2>3, <2>4, <2>5 DEF Move, Archived
  <1>8. CASE ByWorker(t)
    <2>1. worker.pc # "idle" /\ TaskOf(worker) = t /\ artifact'[JobOf(worker)] = worker.attempt
      BY <1>2, <1>8 DEF ByWorker, Makes
    <2> QED BY <1>4, <1>6, <2>1, WorkerKnown DEF TaskOf, JobOf
  <1>9. CASE ByPoller(t)
    <2>1. poller.pc # "idle" /\ TaskOf(poller) = t /\ artifact'[JobOf(poller)] = poller.attempt
      BY <1>2, <1>9 DEF ByPoller
    <2> QED BY <1>4, <1>6, <2>1, PollerKnown DEF TaskOf, JobOf
  <1> QED
    BY <1>2, <1>4, <1>7, <1>8, <1>9 DEF Fate, Dropped, Halted, Queues, Taken, Orphaned, Ended, Goes

\* An unfinished torrent keeps its row.
LEMMA LoadingKept ==
    ASSUME Whole, Inv', Move, ~DispatchStall
    PROVE  LoadingHolds'
  <1> SUFFICES ASSUME NEW a \in AttemptId, Loading(a)'
               PROVE  LET t == attempt'[a].task IN
                      /\ job'[task'[t].job].task = t
                      /\ task'[t].status \in {"DOWNLOADING", "WAITING_TORRENT", "STOPPING"}
    BY DEF LoadingHolds, Current, Loading, Remote
  <1>1. Inv /\ Owned /\ Fated /\ TorrentsOnly /\ LoadingHolds /\ WorkerRuns /\ StopperConfirms
    BY DEF Whole, Always, Promptly, Move
  <1> PICK t : t = attempt[a].task
    OBVIOUS
  <1>2. attempt'[a].task = t /\ t \in TaskId /\ task[t].status # "NONE" /\ task'[t].job = task[t].job
    BY TransferKept DEF Loading, Remote
  <1> SUFFICES Current(t)' /\ task'[t].status \in {"DOWNLOADING", "WAITING_TORRENT", "STOPPING"}
    BY <1>2 DEF Current
  <1>3. CASE Intends(a)
    <2>1. /\ Valid(worker) /\ worker.pc \in Early /\ TaskOf(worker) = t /\ worker.pc # "idle"
          /\ task' = task /\ job' = job
      BY <1>3 DEF Intends, Early, TaskOf
    <2>2. task[t].status = "DOWNLOADING" /\ Current(t)
      BY <1>1, <2>1 DEF WorkerRuns, Valid, Current
    <2> QED BY <2>1, <2>2 DEF Current
  <1>4. CASE Loading(a)
    <2>1. Current(t) /\ task[t].status \in {"DOWNLOADING", "WAITING_TORRENT", "STOPPING"}
      BY <1>1, <1>4 DEF LoadingHolds
    <2>2. Fate(t)
      BY <1>1, <1>2, TaskGoesOn
    <2>3. ~NothingRemote(t)
      BY <1>4 DEF NothingRemote, Loading
    <2>4. IsTorrent(task[t].job)
      BY <1>1, <1>4 DEF TorrentsOnly, Loading, Remote
    <2>5. ByWorker(t) => task'[t].status = "WAITING_TORRENT" /\ Current(t)'
      BY <2>3, <2>4 DEF ByWorker, Goes, JobOf
    <2>6. ~ByPoller(t)
      BY <2>3 DEF ByPoller, Goes
    <2>7. ~Ended(t)
      BY <1>1, <2>3 DEF Ended, StopperConfirms
    <2> QED
      BY <2>1, <2>2, <2>3, <2>5, <2>6, <2>7
      DEF Fate, Stays, Dropped, Halted, Queues, Taken, Orphaned, Goes, Terminal
  <1> QED BY <1>3, <1>4 DEF Move, Transferred

\* Every step of this kind keeps the invariant.
LEMMA MoveKeeps ==
    ASSUME Whole, Inv', Move
    PROVE  Whole'
  <1>1. WorkerPart' /\ PollerPart' /\ StopperPart'
    BY WorkerKept, PollerKept, StopperKept
  <1>2. Owned' /\ SeedingDone' /\ TorrentsOnly' /\ ParkedRemote' /\ OneLoading' /\ CompletedHasArtifact'
    BY OwnedKept, SeedingDoneKept, TorrentsOnlyKept, ParkedRemoteKept, OneLoadingKept, CompletedKept
  <1>3. Always'
    BY <1>1, <1>2 DEF Always, WorkerPart, PollerPart, StopperPart
  <1>4. Promptly'
    BY <1>1, LoadingKept DEF Promptly, WorkerPart
  <1> QED BY <1>3, <1>4 DEF Whole

-----------------------------------------------------------------------------
(* The actions.  Each is shown to be such a step from what is known of it: *)
(* the invariant before it, and its shape.                                 *)

Known == Whole /\ Inv' /\ Shape

\* Tables and actors that are left alone.
LEMMA TablesStay ==
    ASSUME Known, UNCHANGED tables
    PROVE  /\ Fated /\ Operated /\ Transferred /\ Archived /\ LeasesKept
           /\ \A i \in Job : RowKept(i)
  <1>1. Fated /\ \A i \in Job : RowKept(i)
    BY RowsStayFated DEF Known, Whole, Always, tables, RowKept
  <1> QED BY <1>1 DEF tables, Operated, Transferred, Archived, LeasesKept, Remote, Loading

\* Staying is one of the ways an actor moves.
LEMMA ActorsStay ==
    /\ worker' = worker => WorkerMoves /\ WorkerRests
    /\ poller' = poller => PollerMoves /\ PollerRests
    /\ stopper' = stopper => StopperMoves
  <1>1. worker' = worker => WorkerMoves /\ WorkerRests
    BY DEF WorkerMoves, WorkerProceeds, WorkerRests
  <1>2. poller' = poller => PollerMoves /\ PollerRests
    BY DEF PollerMoves, PollerProceeds, PollerRests
  <1> QED BY <1>1, <1>2 DEF StopperMoves

\* Executions that keep their task, their transfer and its payload.
AttemptAlike(a) ==
    /\ attempt[a].status = "NONE" \/ attempt'[a].task = attempt[a].task
    /\ attempt'[a].resource = attempt[a].resource
    /\ attempt'[a].payload = attempt[a].payload

\* Where every execution keeps its transfer, no transfer begins or ends.
LEMMA TransfersAlike ==
    ASSUME \A a \in AttemptId : AttemptAlike(a)
    PROVE  Transferred
  BY DEF AttemptAlike, Transferred, Remote, Loading

\* A row that changes beside the actors spares whatever goes on.
LEMMA ActorsSpared ==
    ASSUME UNCHANGED <<worker, poller>>, \A a \in AttemptId : AttemptAlike(a), NEW t
    PROVE  Spares(t)
  <1>1. \A a \in AttemptId : Loading(a) => Loading(a)'
    BY DEF AttemptAlike, Loading, Remote
  <1> QED BY <1>1 DEF Spares, WorkerRests, PollerRests

\* The lease goes with a state that is written.
LEMMA LeaseDropped ==
    ASSUME Inv, NEW t \in TaskId, task[t].status # "NONE",
           leased' = leased \ {task[t].attempt}, task'[t].status # "DOWNLOADING"
    PROVE  LeasesKept
  BY DEF LeasesKept

\* The task of a row that exists.
LEMMA TaskOfRow ==
    ASSUME Inv, NEW j \in Job, job[j].state # "NONE"
    PROVE  /\ job[j].task \in TaskId /\ task[job[j].task].job = j
           /\ task[job[j].task].status = job[j].state /\ job[j].state \in JobState
           /\ job[j].task \notin UnusedTask
  BY DEF Inv, TypeOK, JobRow, RowsLinked, JobLinked, UnusedTask

\* What the triggers write leaves transfers alone.
LEMMA SlotStateWritten ==
    ASSUME Inv, NEW j \in Job, NEW s \in JobState \ {"DOWNLOADING"}, job[j].state # "NONE", SetState(j, s)
    PROVE  /\ Transferred /\ LeasesKept
           /\ task'[job[j].task].status = s
           /\ \A a \in AttemptId : AttemptAlike(a)
  <1>1. TypeOK /\ job[j].task \in TaskId /\ task[job[j].task].status # "NONE"
    BY TaskOfRow DEF Inv
  <1>2. /\ task'[job[j].task] = Mirror(task[job[j].task], s)
        /\ \A a \in AttemptId : attempt'[a] = IF a = AttemptOf(j) THEN Record(attempt[a], s) ELSE attempt[a]
    BY <1>1, SetStateLemma
  <1>3. \A a \in AttemptId : AttemptAlike(a)
    BY <1>1, <1>2, RecordLemma DEF AttemptAlike, TypeOK
  <1>4. task'[job[j].task].status = s
    BY <1>1, <1>2, MirrorLemma DEF TypeOK
  <1>5. LeasesKept
    BY <1>1, <1>4, LeaseDropped DEF SetState, AttemptOf
  <1> QED BY <1>3, <1>4, <1>5, TransfersAlike

\* Nothing is at the client for a row whose resources are all resolved, or that is no torrent.
LEMMA NothingAtClient ==
    ASSUME Whole, NEW j \in Job, job[j].state # "NONE",
           IsTorrent(j) => Unresolved(job[j].task) = {}
    PROVE  NothingRemote(job[j].task)
  <1>1. task[job[j].task].job = j
    BY TaskOfRow DEF Whole
  <1>2. CASE IsTorrent(j)
    BY <1>2 DEF Unresolved, NothingRemote, Remote
  <1>3. CASE ~IsTorrent(j)
    BY <1>1, <1>3 DEF Whole, Always, TorrentsOnly, NothingRemote, Remote
  <1> QED BY <1>2, <1>3

\* An operation is accepted for a row.
LEMMA OperationAccepted ==
    ASSUME Whole, NEW j \in Job, job[j].state # "NONE", NEW action, NEW target, NEW exhausted, NEW interrupt,
           ops' = ops \union {NewOperation(j, action, target, exhausted, interrupt)},
           action # "stop-seeding", \A a \in AttemptId : AttemptAlike(a),
           action = "replace-account" => NothingRemote(job[j].task)
    PROVE  Operated
  <1>1. /\ NewOperation(j, action, target, exhausted, interrupt).action = action
        /\ NewOperation(j, action, target, exhausted, interrupt).task = job[j].task
    BY DEF NewOperation
  <1>2. NothingRemote(job[j].task) => \A a \in AttemptId : attempt'[a].task = job[j].task => ~Remote(a)'
    <2> SUFFICES ASSUME NothingRemote(job[j].task), NEW a \in AttemptId, attempt'[a].task = job[j].task, Remote(a)'
                 PROVE  FALSE
      OBVIOUS
    <2>1. Remote(a) /\ (attempt[a].status = "NONE" \/ attempt[a].task = job[j].task)
      BY DEF AttemptAlike, Remote
    <2>2. attempt[a].status # "NONE"
      BY <2>1 DEF Remote, Whole, Inv, RowsLinked, AttemptLinked, NoAttempt
    <2> QED BY <2>1, <2>2 DEF NothingRemote
  <1> PICK t : t = job[j].task
    OBVIOUS
  <1>3. NothingRemote(t) => NothingRemote(t)'
    BY <1>2 DEF NothingRemote
  <1> SUFFICES ASSUME NEW o \in ops' \ ops
               PROVE  o.action # "stop-seeding" /\ (o.action = "replace-account" => NothingRemote(o.task)')
    BY DEF Operated
  <1>4. o.action = action /\ o.task = t
    BY <1>1
  <1>5. NothingRemote(o.task)' <=> NothingRemote(t)'
    BY <1>4 DEF NothingRemote
  <1> QED BY <1>3, <1>4, <1>5

-----------------------------------------------------------------------------
(* Commands. *)

\* A command that writes the state of a row, and what becomes of the task.
LEMMA CommandMoves ==
    ASSUME Known, NEW j \in Job, job[j].state # "NONE", NEW s \in JobState \ {"DOWNLOADING"}, SetState(j, s),
           \A i \in Job \ {j} : job'[i] = job[i], job'[j].state = s, job'[j].task = job[j].task,
           Operated, ops \subseteq ops',
           \A t \in TaskId : t = job[j].task /\ Goes(t, {job[j].state}, {s}) => Fate(t),
           UNCHANGED <<artifact, worker, poller, stopper>>
    PROVE  Move
  <1>1. Transferred /\ LeasesKept
    BY SlotStateWritten DEF Known, Whole
  <1>2. \A i \in Job \ {j} : RowKept(i)
    BY DEF RowKept
  <1>3. Inv /\ Inv' /\ Owned /\ Shape
    BY DEF Known, Whole, Always
  <1>4. Fated
    BY <1>2, <1>3, RowFated
  <1>5. Archived /\ WorkerMoves /\ PollerMoves /\ StopperMoves
    BY ActorsStay DEF Archived
  <1>6. \A a \in AttemptId : AttemptAlike(a)
    BY <1>3, SlotStateWritten
  <1>7. RowGoes(j)
    BY <1>2, <1>6, ActorsSpared DEF RowGoes
  <1> QED BY <1>1, <1>4, <1>5, <1>7 DEF Move, SlotsMove

\* A row that only waits.
LEMMA QueueMoves ==
    ASSUME Known, NEW j \in Job, job[j].state \in {"PENDING", "PAUSED"}, NEW s \in {"PENDING", "PAUSED", "CANCELLED"},
           SetState(j, s), \A i \in Job \ {j} : job'[i] = job[i], job'[j].state = s, job'[j].task = job[j].task,
           UNCHANGED <<artifact, ops, worker, poller, stopper>>
    PROVE  Move
  <1>1. s \in JobState \ {"DOWNLOADING"}
    BY DEF JobState, Terminal
  <1>2. Operated
    BY DEF Operated
  <1>3. \A t \in TaskId : t = job[j].task /\ Goes(t, {job[j].state}, {s}) => Fate(t)
    BY DEF Fate, Queues, Goes
  <1> QED BY <1>1, <1>2, <1>3, CommandMoves

\* A row that is stopped for the sake of an operation.
LEMMA StopMoves ==
    ASSUME Known, NEW j \in Job, job[j].state \notin {"NONE", "STOPPING"}, SetState(j, "STOPPING"),
           \A i \in Job \ {j} : job'[i] = job[i], job'[j].state = "STOPPING", job'[j].task = job[j].task,
           ~HasOperation(job[j].task), NEW action, NEW target, NEW exhausted, NEW interrupt,
           ops' = ops \union {NewOperation(j, action, target, exhausted, interrupt)}, action # "stop-seeding",
           action = "replace-account" => NothingRemote(job[j].task),
           UNCHANGED <<artifact, worker, poller, stopper>>
    PROVE  Move
  <1>1. "STOPPING" \in JobState \ {"DOWNLOADING"} /\ job[j].state \in JobState /\ Whole /\ Inv
    BY DEF JobState, Known, Whole, Inv, TypeOK, JobRow
  <1>2. Operated
    BY <1>1, SlotStateWritten, OperationAccepted
  <1>3. \A t \in TaskId : t = job[j].task /\ Goes(t, {job[j].state}, {"STOPPING"}) => Fate(t)
    BY <1>1 DEF Fate, Halted, Goes
  <1> QED BY <1>1, <1>2, <1>3, CommandMoves

\* A row that goes on as a new task leaves the old one behind.
LEMMA RequeueMoves ==
    ASSUME Known, NEW j \in Job, NEW u \in UnusedTask, NEW d, NEW n, NEW g, Requeue(j, u, d, n),
           job[j].state \in Terminal \union {"NONE"}, SlotFree(j),
           task' = [task EXCEPT ![u] = FreshTask(j, g)],
           UNCHANGED <<attempt, artifact, ops, leased, worker, poller, stopper>>
    PROVE  Move
  <1>1. Inv /\ Inv' /\ Owned /\ Shape /\ TypeOK /\ u \in TaskId
    BY DEF Known, Whole, Always, Inv, UnusedTask
  <1>2. \A i \in Job \ {j} : RowKept(i)
    BY <1>1 DEF Requeue, RowKept, TypeOK
  <1>3. job'[j].task = u /\ job'[j].state = "PENDING"
    BY <1>1 DEF Requeue, TypeOK
  <1>4. ASSUME NEW t \in TaskId, t = job[j].task, Goes(t, {job[j].state}, {job'[j].state}) PROVE FALSE
    <2>1. task[t].status # "NONE" /\ job[j].state # "NONE"
      BY <1>1, <1>4, CurrentOfRow, ConstantsAssumption
    <2>2. t # u /\ task[t].job = j
      BY <1>1, <1>4, <2>1, TaskOfRow
    <2>3. task'[t] = task[t]
      BY <1>1, <2>2 DEF TypeOK
    <2> QED BY <1>3, <1>4, <2>2, <2>3 DEF Goes, Current
  <1>5. Fated
    BY <1>1, <1>2, <1>3, <1>4, RowFated
  <1>6. Operated /\ Archived /\ LeasesKept /\ WorkerMoves /\ PollerMoves /\ StopperMoves
    BY ActorsStay DEF Operated, Archived, LeasesKept
  <1>7. \A a \in AttemptId : AttemptAlike(a)
    BY DEF AttemptAlike
  <1>8. RowRenews(j, j, u)
    BY <1>2, <1>3, <1>7, ActorsSpared DEF RowRenews, Occupying
  <1>9. SlotsMove
    BY <1>1, <1>8 DEF SlotsMove
  <1> QED BY <1>5, <1>6, <1>7, <1>9, TransfersAlike DEF Move

\* A source is queued as a new task.
LEMMA EnqueueMoves == ASSUME Known, NEW j \in Job, Enqueue(j) PROVE Move
  BY RequeueMoves DEF Enqueue

\* A queued row is paused, ...
LEMMA PauseMoves == ASSUME Known, NEW j \in Job, Pause(j) PROVE Move
  <1>1. (\A i \in Job \ {j} : job'[i] = job[i]) /\ job'[j].state = "PAUSED" /\ job'[j].task = job[j].task
    BY DEF Pause, Known, Whole, Inv, TypeOK, JobRow
  <1> QED BY <1>1, QueueMoves DEF Pause

\* ... and queued again.
LEMMA ResumeMoves == ASSUME Known, NEW j \in Job, Resume(j) PROVE Move
  <1>1. (\A i \in Job \ {j} : job'[i] = job[i]) /\ job'[j].state = "PENDING" /\ job'[j].task = job[j].task
    BY DEF Resume, Known, Whole, Inv, TypeOK, JobRow
  <1> QED BY <1>1, QueueMoves DEF Resume

\* A retry with nothing left at the client queues the row, as a new task if it had ended, ...
LEMMA RetryQueuedMoves == ASSUME Known, NEW j \in Job, RetryQueued(j) PROVE Move
  <1>1. CASE job[j].state = "PAUSED"
    <2>1. (\A i \in Job \ {j} : job'[i] = job[i]) /\ job'[j].state = "PENDING" /\ job'[j].task = job[j].task
      BY <1>1 DEF RetryQueued, Requeue, Known, Whole, Inv, TypeOK
    <2> QED BY <1>1, <2>1, QueueMoves DEF RetryQueued
  <1>2. CASE job[j].state # "PAUSED"
    BY <1>2, RequeueMoves DEF RetryQueued
  <1> QED BY <1>1, <1>2

\* ... and one with something left there stops it first.
LEMMA RetryBarrierMoves == ASSUME Known, NEW j \in Job, RetryBarrier(j) PROVE Move
  <1>1. (\A i \in Job \ {j} : job'[i] = job[i]) /\ job'[j].state = "STOPPING" /\ job'[j].task = job[j].task
    <2> DEFINE r == [job[j] EXCEPT !.state = "STOPPING", !.recovery = 0, !.permanent = FALSE,
                                   !.details = StripAccount(j, job[j].details)]
    <2>1. job' = [job EXCEPT ![j] = r]
      BY DEF RetryBarrier
    <2>2. r.state = "STOPPING" /\ r.task = job[j].task
      BY DEF Known, Whole, Inv, TypeOK, JobRow
    <2> HIDE DEF r
    <2> QED BY <2>1, <2>2 DEF Known, Whole, Inv, TypeOK
  <1>2. job[j].state \notin {"NONE", "STOPPING"}
    BY DEF RetryBarrier, Terminal
  <1>3. /\ SetState(j, "STOPPING") /\ ~HasOperation(job[j].task)
        /\ ops' = ops \union {NewOperation(j, "retry", None, FALSE, TRUE)}
        /\ UNCHANGED <<artifact, worker, poller, stopper>>
    BY DEF RetryBarrier
  <1> QED BY <1>1, <1>2, <1>3, StopMoves

\* A queued row is cancelled at once, ...
LEMMA CancelQueuedMoves == ASSUME Known, NEW j \in Job, CancelQueued(j) PROVE Move
  <1>1. (\A i \in Job \ {j} : job'[i] = job[i]) /\ job'[j].state = "CANCELLED" /\ job'[j].task = job[j].task
    BY DEF CancelQueued, Known, Whole, Inv, TypeOK, JobRow
  <1> QED BY <1>1, QueueMoves DEF CancelQueued

\* ... and one that ran is stopped first.
LEMMA CancelBarrierMoves == ASSUME Known, NEW j \in Job, CancelBarrier(j) PROVE Move
  <1>1. (\A i \in Job \ {j} : job'[i] = job[i]) /\ job'[j].state = "STOPPING" /\ job'[j].task = job[j].task
    BY DEF CancelBarrier, Known, Whole, Inv, TypeOK, JobRow
  <1>2. /\ SetState(j, "STOPPING") /\ ~HasOperation(job[j].task) /\ job[j].state \notin {"NONE", "STOPPING"}
        /\ ops' = ops \union {NewOperation(j, "cancel", None, FALSE, TRUE)}
        /\ UNCHANGED <<artifact, worker, poller, stopper>>
    BY DEF CancelBarrier
  <1> QED BY <1>1, <1>2, StopMoves

\* A change of the source stops the row.
LEMMA SwitchSourceMoves == ASSUME Known, NEW j \in Job, NEW p \in Provider, SwitchSource(j, p) PROVE Move
  <1>1. (\A i \in Job \ {j} : job'[i] = job[i]) /\ job'[j].state = "STOPPING" /\ job'[j].task = job[j].task
    BY DEF SwitchSource, Known, Whole, Inv, TypeOK, JobRow
  <1>2. /\ SetState(j, "STOPPING") /\ ~HasOperation(job[j].task) /\ job[j].state \notin {"NONE", "STOPPING"}
        /\ ops' = ops \union {NewOperation(j, "switch-source", p, FALSE, TRUE)}
        /\ UNCHANGED <<artifact, worker, poller, stopper>>
    BY DEF SwitchSource
  <1> QED BY <1>1, <1>2, StopMoves

\* A replacement is accepted only while nothing is at the client.
LEMMA ReplaceStoppedAccountMoves == ASSUME Known, NEW j \in Job, ReplaceStoppedAccount(j) PROVE Move
  <1>1. (\A i \in Job \ {j} : job'[i] = job[i]) /\ job'[j].state = "STOPPING" /\ job'[j].task = job[j].task
    BY DEF ReplaceStoppedAccount, Known, Whole, Inv, TypeOK, JobRow
  <1>2. /\ SetState(j, "STOPPING") /\ ~HasOperation(job[j].task)
        /\ ops' = ops \union {NewOperation(j, "replace-account", None, FALSE, TRUE)}
        /\ UNCHANGED <<artifact, worker, poller, stopper>>
        /\ job[j].state \in Occupying
        /\ j[2] \notin BoundAtEnqueue => Unresolved(job[j].task) = {}
    BY DEF ReplaceStoppedAccount
  <1>3. job[j].state \notin {"NONE", "STOPPING"}
    <2>1. SUFFICES ASSUME job[j].state = "STOPPING" PROVE FALSE
      BY <1>2 DEF Occupying
    <2>2. PICK o \in ops : o.task = job[j].task
      BY <2>1 DEF Known, Whole, Inv, StoppingHasOperation
    <2> QED BY <1>2, <2>2 DEF HasOperation
  <1>4. IsTorrent(j) => Unresolved(job[j].task) = {}
    BY <1>2, ConstantsAssumption DEF IsTorrent
  <1>5. NothingRemote(job[j].task)
    BY <1>3, <1>4, NothingAtClient DEF Known
  <1> QED BY <1>1, <1>2, <1>3, <1>5, StopMoves

\* A cancel takes a replacement over; the row is STOPPING already.
LEMMA CancelReplacementMoves == ASSUME Known, NEW j \in Job, CancelReplacement(j) PROVE Move
  <1>1. PICK o \in ops : o.action = "replace-account" /\ ops' = (ops \ {o}) \union {[o EXCEPT !.action = "cancel"]}
    BY DEF CancelReplacement
  <1>2. o \in Operation
    BY DEF Known, Whole, Inv, TypeOK
  <1>3. [o EXCEPT !.action = "cancel"].action = "cancel"
    BY <1>2 DEF Operation
  <1>4. Operated
    BY <1>1, <1>3 DEF Operated
  <1>5. Fated
    BY RowsStayFated DEF CancelReplacement, Known, Whole, Always, RowKept
  <1>6. Transferred /\ Archived /\ LeasesKept
    BY TransfersAlike DEF CancelReplacement, AttemptAlike, Archived, LeasesKept
  <1>7. \A i \in Job : RowKept(i)
    BY DEF CancelReplacement, RowKept
  <1> QED BY <1>4, <1>5, <1>6, <1>7, ActorsStay DEF CancelReplacement, Move, SlotsMove

\* The end of seeding is requested for a completed row.
LEMMA StopSeedingMoves == ASSUME Known, NEW j \in Job, StopSeeding(j) PROVE Move
  <1>1. NewOperation(j, "stop-seeding", None, FALSE, TRUE).task = job[j].task
    BY DEF NewOperation
  <1>2. Current(job[j].task) /\ task[job[j].task].status = "COMPLETED"
    BY CurrentOfRow DEF Known, Whole, StopSeeding
  <1>3. ops' = ops \union {NewOperation(j, "stop-seeding", None, FALSE, TRUE)} /\ task' = task
    BY DEF StopSeeding
  <1>4. NewOperation(j, "stop-seeding", None, FALSE, TRUE).action # "replace-account"
    BY DEF NewOperation
  <1>5. Operated
    BY <1>1, <1>2, <1>3, <1>4 DEF Operated
  <1>6. Fated
    BY RowsStayFated DEF StopSeeding, Known, Whole, Always, RowKept
  <1>7. Transferred /\ Archived /\ LeasesKept
    BY TransfersAlike DEF StopSeeding, AttemptAlike, Archived, LeasesKept
  <1>8. \A i \in Job : RowKept(i)
    BY DEF StopSeeding, RowKept
  <1> QED BY <1>5, <1>6, <1>7, <1>8, ActorsStay DEF StopSeeding, Move, SlotsMove

\* Every command is such a step.
LEMMA CommandsMove == ASSUME Known, NEW j \in Job, Command(j) PROVE Move
  BY EnqueueMoves, PauseMoves, ResumeMoves, RetryQueuedMoves, RetryBarrierMoves, CancelQueuedMoves,
     CancelBarrierMoves, CancelReplacementMoves, SwitchSourceMoves, StopSeedingMoves, ReplaceStoppedAccountMoves
  DEF Command

-----------------------------------------------------------------------------
(* The worker. *)

\* A valid worker looks after the current execution of its row.
LEMMA WorkerRow ==
    ASSUME Known, worker.pc # "idle", Valid(worker), NEW j, j = JobOf(worker)
    PROVE  /\ j \in Job /\ job[j].task = TaskOf(worker) /\ TaskOf(worker) \in TaskId
           /\ AttemptOf(j) = worker.attempt /\ worker.attempt \in AttemptId
           /\ job[j].state = task[TaskOf(worker)].status
           /\ job[j].state \in JobState \ {"NONE", "STOPPING", "CANCELLED"}
  <1>1. Inv /\ Owned /\ TypeOK
    BY DEF Known, Whole, Always, Inv
  <1>2. worker.attempt \in AttemptId /\ attempt[worker.attempt].status # "NONE"
    BY WorkerKnown DEF Known
  <1>3. TaskOf(worker) \in TaskId /\ task[TaskOf(worker)].status # "NONE" /\ j \in Job
    BY <1>1, <1>2, TaskOfAttempt DEF TaskOf, JobOf, Owned
  <1>4. job[j].task = TaskOf(worker) /\ job[j].state = task[TaskOf(worker)].status
    BY <1>1, <1>3, RowOfCurrent DEF Valid, JobOf, Current
  <1> QED BY <1>1, <1>2, <1>3, <1>4 DEF Valid, AttemptOf, TypeOK, TaskRow

\* The worker settles its row in a state that lets go of it.
LEMMA SettledMoves ==
    ASSUME Known, worker.pc \in Makes \union {"completed"}, Valid(worker), NEW j, j = JobOf(worker),
           NEW s \in {"WAITING_TORRENT", "COMPLETED", "FAILED"}, SetState(j, s),
           \A i \in Job \ {j} : job'[i] = job[i], job'[j].state = s, job'[j].task = job[j].task,
           s = "COMPLETED" =>
               /\ worker'.pc = "completed" /\ ~IsTorrent(j) /\ artifact'[j] = worker.attempt
               /\ task[TaskOf(worker)].status \notin {"WAITING_TORRENT", "COMPLETED"},
           s = "WAITING_TORRENT" =>
               /\ worker'.pc = "exiting" /\ Remote(worker.attempt)
               /\ task[TaskOf(worker)].status \notin {"WAITING_TORRENT", "COMPLETED"},
           s = "FAILED" => worker'.pc = "exiting" /\ NothingRemote(TaskOf(worker)),
           WorkerMoves, Archived, UNCHANGED <<ops, poller, stopper>>
    PROVE  Move /\ task'[TaskOf(worker)].status = s
  <1>1. /\ j \in Job /\ job[j].task = TaskOf(worker)
        /\ job[j].state = task[TaskOf(worker)].status
        /\ job[j].state \in JobState \ {"NONE", "STOPPING", "CANCELLED"}
    BY WorkerRow DEF Makes
  <1>2. Inv /\ Inv' /\ Owned /\ Shape /\ s \in JobState \ {"DOWNLOADING"}
    BY DEF Known, Whole, Always, JobState, Terminal
  <1>3. /\ Transferred /\ LeasesKept /\ task'[TaskOf(worker)].status = s
        /\ \A a \in AttemptId : AttemptAlike(a)
    BY <1>1, <1>2, SlotStateWritten
  <1>4. \A i \in Job \ {j} : RowKept(i)
    BY DEF RowKept
  <1>5. ASSUME NEW t \in TaskId, t = job[j].task, Goes(t, {job[j].state}, {s}) PROVE Fate(t)
    <2>1. ByWorker(t)
      BY <1>1, <1>3, <1>5 DEF ByWorker, Goes
    <2> QED BY <2>1 DEF Fate
  <1>6. Fated
    BY <1>1, <1>2, <1>4, <1>5, RowFated
  <1>7. Spares(job[j].task)
    <2>1. WorkerRests /\ PollerRests
      BY ActorsStay DEF WorkerRests, Makes
    <2>2. \A a \in AttemptId : Loading(a) => Loading(a)'
      BY <1>3 DEF AttemptAlike, Loading, Remote
    <2> QED BY <1>1, <2>1, <2>2 DEF Spares
  <1>8. RowGoes(j)
    BY <1>1, <1>4, <1>7 DEF RowGoes
  <1> QED BY <1>1, <1>3, <1>6, <1>8, ActorsStay DEF Move, Operated, SlotsMove

\* A worker step that writes no row.
LEMMA WorkerAloneMoves ==
    ASSUME Known, WorkerMoves, WorkerRests \/ SlotStarts, UNCHANGED <<tables, poller, stopper>>
    PROVE  Move
  BY TablesStay, ActorsStay DEF Move, SlotsMove

\* The coroutine of a claim exists, ...
LEMMA RegisterMoves == ASSUME Known, Register PROVE Move
  <1>1. worker \in Execution(WorkerPc)
    BY DEF Known, Whole, Inv, TypeOK
  <1>2. WorkerMoves
    BY <1>1 DEF Register, WorkerAt, WorkerTo, Execution, WorkerMoves, WorkerProceeds, Early, Makes
  <1>3. WorkerRests
    BY <1>1 DEF Register, WorkerTo, Execution, WorkerRests, Makes
  <1> QED BY <1>2, <1>3, WorkerAloneMoves DEF Register

\* ... and starts to produce if its identity still holds.
LEMMA BeginMoves == ASSUME Known, Begin PROVE Move
  <1>1. worker \in Execution(WorkerPc)
    BY DEF Known, Whole, Inv, TypeOK
  <1>2. WorkerMoves
    BY <1>1 DEF Begin, WorkerAt, Idle, Execution, WorkerMoves, WorkerProceeds, Early, Makes
  <1>3. CASE Valid(worker)
    <2>1. SlotStarts
      BY <1>1, <1>3 DEF Begin, WorkerAt, Execution, SlotStarts
    <2> QED BY <1>2, <2>1, WorkerAloneMoves DEF Begin
  <1>4. CASE ~Valid(worker)
    <2>1. WorkerRests
      BY <1>4 DEF Begin, Idle, WorkerRests, Makes
    <2> QED BY <1>2, <2>1, WorkerAloneMoves DEF Begin
  <1> QED BY <1>3, <1>4

\* The execution ends.
LEMMA WorkerExitMoves == ASSUME Known, WorkerExit PROVE Move
  BY WorkerAloneMoves DEF WorkerExit, WorkerMoves, WorkerRests, Makes, Idle

\* The choice of an account is no matter of the row's state.
LEMMA SelectAccountMoves == ASSUME Known, SelectAccount PROVE Move
  <1>1. \A i \in Job : RowKept(i)
    BY DEF SelectAccount, RowKept, Known, Whole, Inv, TypeOK, JobRow
  <1>2. Fated
    BY <1>1, RowsStayFated DEF SelectAccount, Known, Whole, Always
  <1>3. Transferred /\ Archived /\ LeasesKept /\ Operated
    BY TransfersAlike DEF SelectAccount, AttemptAlike, Archived, LeasesKept, Operated
  <1> QED BY <1>1, <1>2, <1>3, ActorsStay DEF SelectAccount, Move, SlotsMove

\* A claim.
LEMMA ClaimMoves == ASSUME Known, NEW j \in Job, Claim(j) PROVE Move
  <1> USE ConstantsAssumption
  <1>1. Inv /\ Owned /\ Shape /\ TypeOK /\ TypeOK'
    BY DEF Known, Whole, Always, Inv
  <1>2. PICK a \in UnusedAttempt :
          LET t == job[j].task IN
          /\ job' = [job EXCEPT ![j].state = "DOWNLOADING"]
          /\ task' = [task EXCEPT ![t] = [Mirror(@, "DOWNLOADING") EXCEPT !.attempt = a]]
          /\ attempt' = [attempt EXCEPT ![a] = FreshAttempt(t, task[t].generation)]
          /\ leased' = leased \union {a}
          /\ worker' = [pc |-> "claimed", attempt |-> a, generation |-> task[t].generation, cancelled |-> FALSE]
    BY DEF Claim
  <1> PICK t : t = job[j].task
    OBVIOUS
  <1>3. /\ worker.pc = "idle" /\ job[j].state = "PENDING" /\ a \in AttemptId
        /\ UNCHANGED <<artifact, ops, up, poller, stopper>>
    BY DEF Claim, WorkerAt, UnusedAttempt
  <1>4. /\ t \in TaskId /\ task[t].job = j /\ task[t].status = "PENDING" /\ Current(t)
    BY <1>1, <1>3, TaskOfRow DEF Current
  <1>5. /\ Mirror(task[t], "DOWNLOADING") \in TaskRow
        /\ Mirror(task[t], "DOWNLOADING").job = j
        /\ Mirror(task[t], "DOWNLOADING").status = "DOWNLOADING"
        /\ Mirror(task[t], "DOWNLOADING").generation = task[t].generation
    BY <1>1, <1>4, MirrorLemma DEF TypeOK, JobState
  <1>6. /\ task'[t].job = j /\ task'[t].status = "DOWNLOADING" /\ task'[t].attempt = a
        /\ task'[t].generation = task[t].generation
        /\ \A u \in TaskId \ {t} : task'[u] = task[u]
    BY <1>1, <1>2, <1>4, <1>5 DEF TypeOK, TaskRow
  <1>7. \A i \in Job : job'[i].task = job[i].task
    BY <1>1, <1>2 DEF TypeOK, JobRow
  <1>8. Fated
    <2> SUFFICES ASSUME NEW u \in TaskId, task[u].status # "NONE" PROVE Ages(u) /\ Fate(u)
      BY <1>1, UnusedFate DEF Fated
    <2>1. task[u].job \in Job /\ task[u].generation \in Nat
      BY <1>1 DEF Owned, TypeOK, TaskRow
    <2>2. CASE u = t
      BY <1>2, <1>4, <1>6, <1>7, <2>1, <2>2 DEF Ages, Fate, Taken, Current
    <2>3. CASE u # t
      BY <1>6, <1>7, <2>1, <2>3 DEF Ages, Fate, Stays, Current
    <2> QED BY <2>2, <2>3
  <1>9. \A b \in AttemptId : AttemptAlike(b)
    <2>1. \A b \in AttemptId \ {a} : attempt'[b] = attempt[b]
      BY <1>1, <1>2 DEF TypeOK
    <2>2. attempt'[a] = FreshAttempt(t, task[t].generation) /\ attempt[a] = NoAttempt /\ attempt[a].status = "NONE"
      BY <1>1, <1>2, <1>3 DEF TypeOK, UnusedAttempt, Inv, RowsLinked, AttemptLinked
    <2>3. attempt'[a].resource = "NONE" /\ attempt'[a].payload = FALSE
      BY <2>2 DEF FreshAttempt, NoAttempt
    <2>4. attempt[a].resource = "NONE" /\ attempt[a].payload = FALSE
      BY <2>2 DEF NoAttempt
    <2> QED BY <2>1, <2>2, <2>3, <2>4 DEF AttemptAlike
  <1>10. WorkerMoves
    <2>1. attempt'[a].task = t
      BY <1>1, <1>2, <1>3 DEF TypeOK, FreshAttempt, NoAttempt
    <2>2. WorkerClaims
      BY <1>2, <1>3, <1>4, <1>6, <2>1 DEF WorkerClaims
    <2> QED BY <2>2 DEF WorkerMoves
  <1>11. Operated /\ Archived /\ LeasesKept
    BY <1>2, <1>3 DEF Operated, Archived, LeasesKept
  <1>12. RowGoes(j)
    <2>1. \A i \in Job \ {j} : RowKept(i)
      BY <1>1, <1>2 DEF RowKept, TypeOK
    <2>2. WorkerRests /\ worker.pc \notin Makes /\ PollerRests
      BY <1>2, <1>3, ActorsStay DEF WorkerRests, Makes
    <2>3. \A b \in AttemptId : Loading(b) => Loading(b)'
      BY <1>9 DEF AttemptAlike, Loading, Remote
    <2>4. Spares(job[j].task)
      BY <1>3, <2>2, <2>3 DEF Spares
    <2> QED BY <1>3, <1>7, <2>1, <2>4 DEF RowGoes
  <1> QED BY <1>3, <1>8, <1>9, <1>10, <1>11, <1>12, TransfersAlike, ActorsStay DEF Move, SlotsMove

\* The archive is registered, and with it, or afterwards, the row is completed.
LEMMA RecordArtifactMoves == ASSUME Known, RecordArtifact PROVE Move
  <1> PICK j : j = JobOf(worker)
    OBVIOUS
  <1>1. /\ worker.pc = "running" /\ Valid(worker) /\ ~IsTorrent(j) /\ UNCHANGED <<ops, poller, stopper>>
        /\ SaveArtifact(j, worker.attempt)
    BY DEF RecordArtifact, WorkerAt
  <1>2. j \in Job /\ worker.pc # "idle" /\ AttemptOf(j) = worker.attempt
    BY <1>1, WorkerRow
  <1>3. artifact'[j] = worker.attempt /\ \A i \in Job \ {j} : artifact'[i] = artifact[i]
    BY <1>1, <1>2 DEF SaveArtifact, Known, Whole, Inv, TypeOK
  <1>4. worker \in Execution(WorkerPc)
    BY DEF Known, Whole, Inv, TypeOK
  <1>5. CASE j[2] \in Delegated
    <2>1. WorkerTo("artifact") /\ UNCHANGED <<job, task, attempt, leased>>
      BY <1>5 DEF RecordArtifact
    <2>2. worker'.pc = "artifact" /\ worker'.attempt = worker.attempt /\ worker'.generation = worker.generation
      BY <1>4, <2>1 DEF WorkerTo, Execution
    <2>3. WorkerMoves
      BY <1>1, <1>3, <2>2 DEF WorkerMoves, WorkerProceeds, Early, Makes
    <2>4. Archived
      BY <1>1, <1>3, <2>2 DEF Archived
    <2>5. Fated /\ \A i \in Job : RowKept(i)
      BY <2>1, RowsStayFated DEF Known, Whole, Always, RowKept
    <2>7. WorkerRests
      BY <1>1 DEF WorkerRests, Makes
    <2>6. Transferred /\ LeasesKept /\ Operated
      BY <1>1, <2>1, TransfersAlike DEF AttemptAlike, LeasesKept, Operated
    <2> QED BY <1>1, <2>3, <2>4, <2>5, <2>6, <2>7, ActorsStay DEF Move, SlotsMove
  <1>6. CASE j[2] \notin Delegated
    <2>1. /\ WorkerTo("completed") /\ SetState(j, "COMPLETED")
          /\ job' = [job EXCEPT ![j].state = "COMPLETED", ![j].permanent = FALSE]
      BY <1>6 DEF RecordArtifact
    <2>2. worker'.pc = "completed" /\ worker'.attempt = worker.attempt /\ worker'.generation = worker.generation
      BY <1>4, <2>1 DEF WorkerTo, Execution
    <2>3. (\A i \in Job \ {j} : job'[i] = job[i]) /\ job'[j].state = "COMPLETED" /\ job'[j].task = job[j].task
      BY <1>2, <2>1 DEF Known, Whole, Inv, TypeOK, JobRow
    <2>4. Archived
      BY <1>1, <1>3, <2>2 DEF Archived
    <2>5. task'[TaskOf(worker)].status = "COMPLETED"
      BY <1>1, <1>2, <2>1, WorkerRow, SlotStateWritten DEF Known, Whole, JobState, Terminal
    <2>6. WorkerMoves
      BY <1>1, <2>2, <2>5 DEF WorkerMoves, WorkerProceeds, Early, Makes
    <2>7. task[TaskOf(worker)].status \notin {"WAITING_TORRENT", "COMPLETED"}
      BY <1>1 DEF Known, Whole, Always, WorkerApart, Early, Valid
    <2> QED BY <1>1, <1>3, <2>1, <2>2, <2>3, <2>4, <2>6, <2>7, SettledMoves DEF Makes
  <1> QED BY <1>5, <1>6

\* A delegated provider returned, and the row is completed.
LEMMA CompleteJobMoves == ASSUME Known, CompleteJob PROVE Move
  <1> PICK j : j = JobOf(worker)
    OBVIOUS
  <1>1. /\ worker.pc = "artifact" /\ Valid(worker) /\ UNCHANGED <<artifact, ops, poller, stopper>>
        /\ WorkerTo("completed") /\ SetState(j, "COMPLETED")
        /\ job' = [job EXCEPT ![j].state = "COMPLETED", ![j].permanent = FALSE]
    BY DEF CompleteJob, WorkerAt
  <1>2. j \in Job /\ ~IsTorrent(j) /\ artifact[j] = worker.attempt
    BY <1>1, WorkerRow DEF Known, Whole, Always, WorkerDoes
  <1>3. worker'.pc = "completed" /\ worker'.attempt = worker.attempt /\ worker'.generation = worker.generation
    BY <1>1 DEF WorkerTo, Execution, Known, Whole, Inv, TypeOK
  <1>4. (\A i \in Job \ {j} : job'[i] = job[i]) /\ job'[j].state = "COMPLETED" /\ job'[j].task = job[j].task
    BY <1>1, <1>2 DEF Known, Whole, Inv, TypeOK, JobRow
  <1>5. task'[TaskOf(worker)].status = "COMPLETED"
    BY <1>1, <1>2, WorkerRow, SlotStateWritten DEF Known, Whole, JobState, Terminal
  <1>6. WorkerMoves
    BY <1>1, <1>2, <1>3, <1>5 DEF WorkerMoves, WorkerProceeds, Early, Makes
  <1>7. task[TaskOf(worker)].status \notin {"WAITING_TORRENT", "COMPLETED"}
    BY <1>1 DEF Known, Whole, Always, WorkerApart, Early, Valid
  <1>8. Archived
    BY <1>1 DEF Archived
  <1> QED BY <1>1, <1>2, <1>3, <1>4, <1>6, <1>7, <1>8, SettledMoves DEF Makes

\* The torrent is handed to the poller.
LEMMA ParkMoves == ASSUME Known, Park PROVE Move
  <1> PICK j : j = JobOf(worker)
    OBVIOUS
  <1>1. /\ worker.pc = "pushed" /\ Valid(worker) /\ UNCHANGED <<artifact, ops, poller, stopper>>
        /\ WorkerTo("exiting") /\ SetState(j, "WAITING_TORRENT")
        /\ job' = [job EXCEPT ![j].state = "WAITING_TORRENT", ![j].permanent = FALSE, ![j].details.hash = TRUE]
    BY DEF Park, WorkerAt
  <1>2. j \in Job /\ Remote(worker.attempt)
    BY <1>1, WorkerRow DEF Known, Whole, Always, WorkerDoes
  <1>3. worker'.pc = "exiting" /\ worker'.attempt = worker.attempt /\ worker'.generation = worker.generation
    BY <1>1 DEF WorkerTo, Execution, Known, Whole, Inv, TypeOK
  <1>4. (\A i \in Job \ {j} : job'[i] = job[i]) /\ job'[j].state = "WAITING_TORRENT" /\ job'[j].task = job[j].task
    BY <1>1, <1>2 DEF Known, Whole, Inv, TypeOK, JobRow
  <1>5. WorkerMoves
    BY <1>1, <1>3 DEF WorkerMoves, WorkerProceeds, Early, Makes
  <1>6. task[TaskOf(worker)].status \notin {"WAITING_TORRENT", "COMPLETED"}
    BY <1>1 DEF Known, Whole, Always, WorkerApart, Early, Valid
  <1>7. Archived
    BY <1>1 DEF Archived
  <1> QED BY <1>1, <1>2, <1>3, <1>4, <1>5, <1>6, <1>7, SettledMoves DEF Makes

\* What a step writes of one transfer.
LEMMA TransferWritten ==
    ASSUME Known, NEW a \in AttemptId, NEW r, attempt' = [attempt EXCEPT ![a].resource = r]
    PROVE  /\ attempt'[a].resource = r /\ attempt'[a].task = attempt[a].task /\ attempt'[a].payload = attempt[a].payload
           /\ \A b \in AttemptId \ {a} : attempt'[b] = attempt[b]
  BY DEF Known, Whole, Inv, TypeOK, AttemptRow

\* The intention is saved while nobody else may have a torrent at the client.
LEMMA PushIntentMoves == ASSUME Known, PushIntent PROVE Move
  <1> PICK a : a = worker.attempt
    OBVIOUS
  <1>1. /\ worker.pc = "running" /\ Valid(worker) /\ IsTorrent(JobOf(worker))
        /\ ~StrangerHoldsRemote(TaskOf(worker))
        /\ attempt' = [attempt EXCEPT ![a].resource = "INTENDED"]
        /\ WorkerTo("pushing")
        /\ UNCHANGED <<job, task, artifact, ops, leased, up, poller, stopper>>
    BY DEF PushIntent, WorkerAt
  <1>2. worker'.pc = "pushing" /\ worker'.attempt = worker.attempt /\ worker'.generation = worker.generation
    BY <1>1 DEF WorkerTo, Execution, Known, Whole, Inv, TypeOK
  <1>3. /\ a \in AttemptId
        /\ attempt'[a].resource = "INTENDED" /\ attempt'[a].task = attempt[a].task
        /\ \A b \in AttemptId \ {a} : attempt'[b] = attempt[b]
    <2>1. a \in AttemptId
      BY <1>1, WorkerKnown DEF Known
    <2> QED BY <1>1, <2>1, TransferWritten
  <1>4. Intends(a)
    BY <1>1, <1>2 DEF Intends
  <1>5. Transferred
    <2> SUFFICES ASSUME NEW b \in AttemptId
                 PROVE  /\ attempt[b].status = "NONE" \/ attempt'[b].task = attempt[b].task
                        /\ attempt'[b].resource # "NONE" =>
                              attempt[b].resource # "NONE" \/ Intends(b) \/ (poller.pc = "cleanup" /\ b = poller.attempt)
                        /\ Remote(b)' => Remote(b) \/ Intends(b)
                        /\ Loading(b)' => Loading(b) \/ Intends(b)
                        /\ Remote(b) => Remote(b)' \/ Loses(b)
      BY DEF Transferred
    <2> QED BY <1>3, <1>4 DEF Remote, Loading
  <1>6. WorkerMoves
    BY <1>1, <1>2, <1>3 DEF WorkerMoves, WorkerProceeds, Early, Makes, Remote
  <1>7. Fated /\ \A i \in Job : RowKept(i)
    BY <1>1, RowsStayFated DEF Known, Whole, Always, RowKept
  <1>8. Operated /\ Archived /\ LeasesKept /\ WorkerRests
    BY <1>1 DEF Operated, Archived, LeasesKept, WorkerRests, Makes
  <1> QED BY <1>1, <1>5, <1>6, <1>7, <1>8, ActorsStay DEF Move, SlotsMove

\* The answer of the client.
LEMMA PushOutcomeMoves == ASSUME Known, PushOutcome PROVE Move
  <1> PICK a : a = worker.attempt
    OBVIOUS
  <1>1. PICK answer \in {<<"STOP_CONFIRMED", "failing">>, <<"REGISTERED", "pushed">>,
                         <<"INTENDED", "pushed">>, <<"INTENDED", "failing">>} :
          /\ attempt' = [attempt EXCEPT ![a].resource = answer[1]]
          /\ WorkerTo(answer[2])
    BY DEF PushOutcome
  <1>2. worker.pc = "pushing" /\ UNCHANGED <<job, task, artifact, ops, leased, up, poller, stopper>>
    BY DEF PushOutcome, WorkerAt
  <1>3. worker'.pc = answer[2] /\ worker'.attempt = a /\ worker'.generation = worker.generation
    BY <1>1 DEF WorkerTo, Execution, Known, Whole, Inv, TypeOK
  <1>4. a \in AttemptId /\ Remote(a) /\ IsTorrent(JobOf(worker))
    BY <1>2, WorkerKnown DEF Known, Whole, Always, WorkerDoes
  <1>5. /\ attempt'[a].resource = answer[1] /\ attempt'[a].task = attempt[a].task
        /\ attempt'[a].payload = attempt[a].payload
        /\ \A b \in AttemptId \ {a} : attempt'[b] = attempt[b]
    BY <1>1, <1>4, TransferWritten
  <1>6. answer[1] = "STOP_CONFIRMED" => Loses(a)
    BY <1>1, <1>2, <1>3 DEF Loses
  <1>7. Transferred
    <2> SUFFICES ASSUME NEW b \in AttemptId
                 PROVE  /\ attempt[b].status = "NONE" \/ attempt'[b].task = attempt[b].task
                        /\ attempt'[b].resource # "NONE" => attempt[b].resource # "NONE"
                        /\ Remote(b)' => Remote(b)
                        /\ Loading(b)' => Loading(b)
                        /\ Remote(b) => Remote(b)' \/ Loses(b)
      BY DEF Transferred
    <2> QED BY <1>1, <1>4, <1>5, <1>6 DEF Remote, Loading
  <1>8. WorkerMoves
    <2>1. answer[2] \in {"failing", "pushed"} /\ (answer[2] = "pushed" => answer[1] \in {"REGISTERED", "INTENDED"})
      BY <1>1
    <2> QED BY <1>2, <1>3, <1>4, <1>5, <2>1 DEF WorkerMoves, WorkerProceeds, Early, Makes, Remote
  <1>9. Fated /\ \A i \in Job : RowKept(i)
    BY <1>2, RowsStayFated DEF Known, Whole, Always, RowKept
  <1>10. Operated /\ Archived /\ LeasesKept /\ WorkerRests
    BY <1>2 DEF Operated, Archived, LeasesKept, WorkerRests, Makes
  <1> QED BY <1>2, <1>7, <1>8, <1>9, <1>10, ActorsStay DEF Move, SlotsMove

\* A row that fails and is stopped in the same transaction.
LEMMA FailedThenStopped ==
    ASSUME Known, NEW j \in Job, job[j].state \notin {"NONE", "STOPPING"}, SetFailedThenStopping(j),
           \A i \in Job \ {j} : job'[i] = job[i], job'[j].state = "STOPPING",
           ~HasOperation(job[j].task), NEW action, NEW target, NEW exhausted, NEW interrupt,
           ops' = ops \union {NewOperation(j, action, target, exhausted, interrupt)}, action # "stop-seeding",
           action = "replace-account" => NothingRemote(job[j].task)
    PROVE  Fated /\ Operated /\ Transferred /\ LeasesKept /\ \A a \in AttemptId : AttemptAlike(a)
  <1>1. Whole /\ Inv /\ Inv' /\ Owned /\ Shape /\ TypeOK
    BY DEF Known, Whole, Always, Inv
  <1>2. /\ job[j].task \in TaskId /\ task[job[j].task].status # "NONE" /\ job[j].state \in JobState
    BY <1>1, TaskOfRow
  <1>3. Mirror(task[job[j].task], "FAILED") \in TaskRow
    BY <1>1, <1>2, MirrorLemma DEF TypeOK, JobState, Terminal
  <1>4. task'[job[j].task] = Mirror(Mirror(task[job[j].task], "FAILED"), "STOPPING")
    BY <1>1, <1>2 DEF SetFailedThenStopping, TypeOK
  <1>5. task'[job[j].task].status = "STOPPING"
    BY <1>3, <1>4, MirrorLemma DEF JobState
  <1>6. LeasesKept
    BY <1>1, <1>2, <1>5, LeaseDropped DEF SetFailedThenStopping, AttemptOf
  <1>7. \A a \in AttemptId : AttemptAlike(a)
    <2> SUFFICES ASSUME NEW a \in AttemptId PROVE AttemptAlike(a)
      OBVIOUS
    <2>1. attempt'[a] = IF a = AttemptOf(j) THEN Record(attempt[a], "FAILED") ELSE attempt[a]
      BY <1>1 DEF SetFailedThenStopping, TypeOK
    <2>2. attempt[a] \in AttemptRow /\ "FAILED" \in JobState
      BY <1>1 DEF TypeOK, JobState, Terminal
    <2> QED BY <2>1, <2>2, RecordLemma DEF AttemptAlike
  <1>8. Operated
    BY <1>1, <1>7, OperationAccepted
  <1>9. ASSUME NEW t \in TaskId, t = job[j].task, Goes(t, {job[j].state}, {job'[j].state}) PROVE Fate(t)
    BY <1>2, <1>9 DEF Fate, Halted, Goes
  <1>10. \A i \in Job \ {j} : RowKept(i)
    BY DEF RowKept
  <1>11. Fated
    BY <1>1, <1>9, <1>10, RowFated
  <1> QED BY <1>6, <1>7, <1>8, <1>11, TransfersAlike

\* A failure that the worker records, with or without a stop.
LEMMA FailJobMoves == ASSUME Known, FailJob PROVE Move
  <1> PICK j : j = JobOf(worker)
    OBVIOUS
  <1>1. /\ worker.pc \in {"running", "artifact", "pushed", "failing", "completed"} /\ Valid(worker)
        /\ WorkerTo("exiting")
        /\ UNCHANGED <<artifact, up, poller, stopper>>
    BY DEF FailJob
  <1>2. PICK permanent \in BOOLEAN :
          \/ /\ ~NeedsRemoteStop(j)
             /\ job' = [job EXCEPT ![j].state = "FAILED", ![j].permanent = permanent]
             /\ SetState(j, "FAILED")
             /\ UNCHANGED ops
          \/ \E action \in {"replace-account", "cancel"} :
                /\ IF action = "cancel" THEN NeedsRemoteStop(j) ELSE Replaceable(j)
                /\ ~HasOperation(job[j].task)
                /\ ops' = ops \union {NewOperation(j, action, None, FALSE, FALSE)}
                /\ job' = [job EXCEPT ![j].state = "STOPPING", ![j].permanent = permanent]
                /\ SetFailedThenStopping(j)
    BY DEF FailJob
  <1>3. /\ j \in Job /\ job[j].task = TaskOf(worker)
        /\ job[j].state \in JobState \ {"NONE", "STOPPING", "CANCELLED"}
    BY <1>1, WorkerRow
  <1>4. worker'.pc = "exiting" /\ worker'.attempt = worker.attempt /\ worker'.generation = worker.generation
    BY <1>1 DEF WorkerTo, Execution, Known, Whole, Inv, TypeOK
  <1>5. WorkerMoves
    BY <1>1, <1>4 DEF WorkerMoves, WorkerProceeds, Early, Makes
  <1>6. Archived
    BY <1>1 DEF Archived
  <1>7. CASE /\ ~NeedsRemoteStop(j)
             /\ job' = [job EXCEPT ![j].state = "FAILED", ![j].permanent = permanent]
             /\ SetState(j, "FAILED")
             /\ UNCHANGED ops
    <2>1. (\A i \in Job \ {j} : job'[i] = job[i]) /\ job'[j].state = "FAILED" /\ job'[j].task = job[j].task
      BY <1>3, <1>7 DEF Known, Whole, Inv, TypeOK, JobRow
    <2>2. NothingRemote(TaskOf(worker))
      BY <1>3, <1>7, NothingAtClient DEF Known, NeedsRemoteStop
    <2> QED BY <1>1, <1>4, <1>5, <1>6, <1>7, <2>1, <2>2, SettledMoves DEF Makes
  <1>8. ASSUME NEW action \in {"replace-account", "cancel"},
               IF action = "cancel" THEN NeedsRemoteStop(j) ELSE Replaceable(j),
               ~HasOperation(job[j].task),
               ops' = ops \union {NewOperation(j, action, None, FALSE, FALSE)},
               job' = [job EXCEPT ![j].state = "STOPPING", ![j].permanent = permanent],
               SetFailedThenStopping(j)
        PROVE  Move
    <2>1. (\A i \in Job \ {j} : job'[i] = job[i]) /\ job'[j].state = "STOPPING" /\ job'[j].task = job[j].task
      BY <1>3, <1>8 DEF Known, Whole, Inv, TypeOK, JobRow
    <2>2. action = "replace-account" => NothingRemote(job[j].task)
      <3> SUFFICES ASSUME action = "replace-account" PROVE NothingRemote(job[j].task)
        OBVIOUS
      <3>1. IsTorrent(j) => Unresolved(job[j].task) = {}
        BY <1>8, ConstantsAssumption DEF Replaceable, IsTorrent
      <3> QED BY <1>3, <3>1, NothingAtClient DEF Known
    <2>3. Fated /\ Operated /\ Transferred /\ LeasesKept /\ \A a \in AttemptId : AttemptAlike(a)
      BY <1>3, <1>8, <2>1, <2>2, FailedThenStopped
    <2>4. \A a \in AttemptId : Loading(a) => Loading(a)'
      BY <2>3 DEF AttemptAlike, Loading, Remote
    <2>5. WorkerRests /\ PollerRests
      BY <1>1, <1>4, ActorsStay DEF WorkerRests, Makes
    <2>6. Spares(job[j].task)
      BY <1>1, <1>3, <2>4, <2>5 DEF Spares
    <2>7. RowGoes(j)
      BY <1>3, <2>1, <2>6 DEF RowGoes, RowKept
    <2> QED BY <1>1, <1>3, <1>5, <1>6, <2>3, <2>7, ActorsStay DEF Move, SlotsMove
  <1> QED BY <1>2, <1>7, <1>8

\* Every step of the worker is such a step.
LEMMA WorkerStepMoves == ASSUME Known, WorkerStep PROVE Move
  BY ClaimMoves, RegisterMoves, BeginMoves, SelectAccountMoves, RecordArtifactMoves, CompleteJobMoves,
     PushIntentMoves, PushOutcomeMoves, ParkMoves, FailJobMoves, WorkerExitMoves
  DEF WorkerStep

-----------------------------------------------------------------------------
(* The poller. *)

\* A valid poller looks after the current execution of its row, a torrent.
LEMMA PollerRow ==
    ASSUME Known, poller.pc # "idle", Valid(poller), NEW j, j = JobOf(poller)
    PROVE  /\ j \in Job /\ job[j].task = TaskOf(poller) /\ TaskOf(poller) \in TaskId
           /\ AttemptOf(j) = poller.attempt /\ poller.attempt \in AttemptId
           /\ task[TaskOf(poller)].job = j
           /\ job[j].state = task[TaskOf(poller)].status
           /\ job[j].state \in {"WAITING_TORRENT", "COMPLETED"}
  <1>1. Inv /\ Owned
    BY DEF Known, Whole, Always, Inv
  <1>2. poller.attempt \in AttemptId /\ attempt[poller.attempt].status # "NONE"
    BY PollerKnown DEF Known
  <1>3. TaskOf(poller) \in TaskId /\ task[TaskOf(poller)].status # "NONE" /\ j \in Job
    BY <1>1, <1>2, TaskOfAttempt DEF TaskOf, JobOf, Owned
  <1>4. job[j].task = TaskOf(poller) /\ job[j].state = task[TaskOf(poller)].status
    BY <1>1, <1>3, RowOfCurrent DEF Valid, JobOf, Current
  <1>5. task[TaskOf(poller)].status \in {"WAITING_TORRENT", "COMPLETED"}
    BY DEF Known, Whole, Always, PollerSees
  <1> QED BY <1>1, <1>2, <1>3, <1>4, <1>5 DEF Valid, AttemptOf, JobOf

\* A poller step that writes no row.
LEMMA PollerAloneMoves ==
    ASSUME Known, PollerMoves, PollerRests \/ SlotStarts, UNCHANGED <<tables, worker, stopper>>
    PROVE  Move
  BY TablesStay, ActorsStay DEF Move, SlotsMove

\* The identity of a parked row is read.
LEMMA PollReadMoves == ASSUME Known, NEW j \in Job, PollRead(j) PROVE Move
  <1>1. /\ IsTorrent(j) /\ job[j].state = "WAITING_TORRENT" /\ UNCHANGED <<tables, worker, stopper>>
        /\ poller' = [pc |-> "read", attempt |-> AttemptOf(j), generation |-> task[job[j].task].generation,
                      cancelled |-> FALSE]
    BY DEF PollRead
  <1>2. /\ job[j].task \in TaskId /\ task[job[j].task].job = j /\ task[job[j].task].status = "WAITING_TORRENT"
        /\ Current(job[j].task)
    BY <1>1, CurrentOfRow DEF Known, Whole
  <1>3. PollerReads
    BY <1>1, <1>2 DEF PollerReads, AttemptOf
  <1>4. PollerRests
    BY <1>1 DEF PollerRests, Polls
  <1> QED BY <1>1, <1>3, <1>4, PollerAloneMoves DEF PollerMoves

\* The child task starts if its identity still holds, ...
LEMMA PollBeginMoves == ASSUME Known, PollBegin PROVE Move
  <1>1. poller \in Execution(PollerPc)
    BY DEF Known, Whole, Inv, TypeOK
  <1>2. PollerMoves
    BY <1>1 DEF PollBegin, PollerAt, Idle, Execution, PollerMoves, PollerProceeds, Looks, Cleans, Polls
  <1>3. CASE Valid(poller)
    <2>1. SlotStarts
      BY <1>1, <1>3 DEF PollBegin, PollerAt, Execution, SlotStarts
    <2> QED BY <1>2, <2>1, PollerAloneMoves DEF PollBegin
  <1>4. CASE ~Valid(poller)
    <2>1. PollerRests
      BY <1>4 DEF PollBegin, Idle, PollerRests, Polls
    <2> QED BY <1>2, <2>1, PollerAloneMoves DEF PollBegin
  <1> QED BY <1>3, <1>4

\* ... it raises, ...
LEMMA PollErrorMoves == ASSUME Known, PollError PROVE Move
  <1>1. poller \in Execution(PollerPc)
    BY DEF Known, Whole, Inv, TypeOK
  <1>2. PollerMoves
    BY <1>1 DEF PollError, PollerTo, Execution, PollerMoves, PollerProceeds, Looks, Cleans, Polls
  <1>3. PollerRests
    BY <1>1 DEF PollError, PollerTo, Execution, PollerRests, Polls
  <1> QED BY <1>2, <1>3, PollerAloneMoves DEF PollError

\* ... and it ends.
LEMMA PollExitMoves == ASSUME Known, PollExit PROVE Move
  BY PollerAloneMoves DEF PollExit, PollerMoves, PollerRests, Polls, Idle

\* The client shows the torrent.
LEMMA PollObserveMoves == ASSUME Known, PollObserve PROVE Move
  <1> PICK a : a = poller.attempt
    OBVIOUS
  <1>1. /\ poller.pc = "polling" /\ Remote(a)
        /\ attempt' = [attempt EXCEPT ![a].resource = "REGISTERED"]
        /\ poller' \in {Idle, [poller EXCEPT !.pc = "delivered"]}
        /\ UNCHANGED <<job, task, artifact, ops, leased, up, worker, stopper>>
    BY DEF PollObserve, PollerAt, Remote
  <1>2. a \in AttemptId
    BY <1>1, PollerKnown DEF Known
  <1>3. /\ attempt'[a].resource = "REGISTERED" /\ attempt'[a].task = attempt[a].task
        /\ attempt'[a].payload = attempt[a].payload
        /\ \A b \in AttemptId \ {a} : attempt'[b] = attempt[b]
    BY <1>1, <1>2, TransferWritten
  <1>4. Transferred
    <2> SUFFICES ASSUME NEW b \in AttemptId
                 PROVE  /\ attempt'[b].task = attempt[b].task
                        /\ attempt'[b].resource # "NONE" => attempt[b].resource # "NONE"
                        /\ Remote(b)' <=> Remote(b)
                        /\ Loading(b)' <=> Loading(b)
      BY DEF Transferred
    <2> QED BY <1>1, <1>3 DEF Remote, Loading
  <1>5. PollerMoves
    <2>1. poller \in Execution(PollerPc)
      BY DEF Known, Whole, Inv, TypeOK
    <2> QED BY <1>1, <2>1 DEF Execution, Idle, PollerMoves, PollerProceeds, Looks, Cleans, Polls
  <1>6. Fated /\ \A i \in Job : RowKept(i)
    BY <1>1, RowsStayFated DEF Known, Whole, Always, RowKept
  <1>7. Operated /\ Archived /\ LeasesKept /\ PollerRests
    BY <1>1 DEF Operated, Archived, LeasesKept, PollerRests, Polls
  <1> QED BY <1>1, <1>4, <1>5, <1>6, <1>7, ActorsStay DEF Move, SlotsMove

\* The archive, the finished payloads and the state land together.
LEMMA PollCompleteMoves == ASSUME Known, PollComplete PROVE Move
  <1> PICK j : j = JobOf(poller)
    OBVIOUS
  <1> PICK t : t = TaskOf(poller)
    OBVIOUS
  <1>1. /\ poller.pc = "delivered" /\ Valid(poller)
        /\ job' = [job EXCEPT ![j].state = "COMPLETED", ![j].permanent = FALSE, ![j].details.seeding = TRUE]
        /\ task' = [task EXCEPT ![t] = Mirror(@, "COMPLETED")]
        /\ attempt' = [a \in AttemptId |->
                          LET r == attempt[a] IN
                          IF r.task # t THEN r
                          ELSE [(IF a = poller.attempt THEN Record(r, "COMPLETED") ELSE r)
                                   EXCEPT !.payload = r.resource # "NONE"]]
        /\ SaveArtifact(j, poller.attempt)
        /\ PollerTo("cleanup")
        /\ UNCHANGED <<ops, leased, up, worker, stopper>>
    BY DEF PollComplete, PollerAt
  <1>2. Whole /\ Inv /\ Inv' /\ Owned /\ Shape /\ TypeOK
    BY DEF Known, Whole, Always, Inv
  <1>3. /\ j \in Job /\ job[j].task = t /\ t \in TaskId /\ AttemptOf(j) = poller.attempt
        /\ poller.attempt \in AttemptId /\ job[j].state = task[t].status
    BY <1>1, PollerRow
  <1>4. task[t].status = "WAITING_TORRENT"
    BY <1>1 DEF Known, Whole, Always, PollerSees, Looks
  <1>5. /\ artifact'[j] = poller.attempt
        /\ \A i \in Job \ {j} : artifact'[i] = artifact[i]
    BY <1>1, <1>2, <1>3 DEF SaveArtifact, TypeOK
  <1>6. /\ poller'.pc = "cleanup" /\ poller'.attempt = poller.attempt /\ poller'.generation = poller.generation
        /\ poller'.cancelled = poller.cancelled
    BY <1>1, <1>2 DEF PollerTo, Execution, TypeOK
  <1>7. ASSUME NEW a \in AttemptId
        PROVE  /\ attempt'[a].task = attempt[a].task /\ attempt'[a].resource = attempt[a].resource
               /\ attempt[a].task # t => attempt'[a] = attempt[a]
               /\ attempt[a].task = t => (attempt'[a].payload <=> attempt[a].resource # "NONE")
    <2> DEFINE r == attempt[a]
               q == IF a = poller.attempt THEN Record(r, "COMPLETED") ELSE r
               b == r.resource # "NONE"
    <2>1. r \in AttemptRow
      BY <1>2 DEF TypeOK
    <2>2. q \in AttemptRow /\ q.task = r.task /\ q.resource = r.resource
      BY <2>1, RecordLemma DEF JobState, Terminal
    <2>3. attempt'[a] = IF r.task # t THEN r ELSE [q EXCEPT !.payload = b]
      BY <1>1
    <2>4. b \in BOOLEAN
      OBVIOUS
    <2> HIDE DEF q, b
    <2>5. /\ [q EXCEPT !.payload = b].task = q.task
          /\ [q EXCEPT !.payload = b].resource = q.resource
          /\ [q EXCEPT !.payload = b].payload = b
      BY <2>2, <2>4 DEF AttemptRow
    <2> QED BY <2>2, <2>3, <2>5 DEF b
  <1>8. \A a \in AttemptId : attempt[a].task = t => ~Loading(a)'
    BY <1>7 DEF Loading, Remote
  <1>9. Transferred
    <2> SUFFICES ASSUME NEW a \in AttemptId
                 PROVE  /\ attempt'[a].task = attempt[a].task
                        /\ attempt'[a].resource # "NONE" => attempt[a].resource # "NONE"
                        /\ Remote(a)' <=> Remote(a)
                        /\ Loading(a)' => Loading(a)
      BY DEF Transferred
    <2> QED BY <1>7, <1>8 DEF Remote, Loading
  <1>10. task'[t].status = "COMPLETED"
    <2>1. task'[t] = Mirror(task[t], "COMPLETED") /\ task[t] \in TaskRow
      BY <1>1, <1>2, <1>3 DEF TypeOK
    <2> QED BY <2>1, MirrorLemma DEF JobState, Terminal
  <1>11. (\A i \in Job \ {j} : RowKept(i)) /\ job'[j].state = "COMPLETED" /\ job'[j].task = job[j].task
    BY <1>1, <1>2, <1>3 DEF RowKept, TypeOK, JobRow
  <1>12. ASSUME NEW u \in TaskId, u = job[j].task, Goes(u, {job[j].state}, {job'[j].state}) PROVE Fate(u)
    <2>1. ByPoller(t)
      BY <1>1, <1>3, <1>4, <1>5, <1>6, <1>8, <1>10, <1>12 DEF ByPoller, Goes
    <2> QED BY <1>3, <1>12, <2>1 DEF Fate
  <1>13. Fated
    BY <1>1, <1>2, <1>3, <1>11, <1>12, RowFated
  <1>14. PollerMoves
    BY <1>1, <1>6, <1>10 DEF PollerMoves, PollerProceeds, Looks, Cleans, Polls
  <1>15. Archived
    BY <1>1, <1>5 DEF Archived
  <1>16. Operated /\ LeasesKept
    BY <1>1 DEF Operated, LeasesKept
  <1>17. RowGoes(j)
    <2>1. \A a \in AttemptId : Loading(a) => attempt[a].task = t \/ Loading(a)'
      BY <1>7 DEF Loading, Remote
    <2>2. Spares(t)
      BY <1>1, <1>3, <1>6, <2>1, ActorsStay DEF Spares, PollerRests, Polls
    <2>3. job[j].state # "NONE"
      BY <1>3, <1>4
    <2> QED BY <1>3, <1>11, <2>2, <2>3 DEF RowGoes
  <1> QED BY <1>1, <1>3, <1>9, <1>13, <1>14, <1>15, <1>16, <1>17, ActorsStay DEF Move, SlotsMove

\* The finished torrent leaves the client, ...
LEMMA PollDetachMoves == ASSUME Known, PollDetach PROVE Move
  <1> PICK a : a = poller.attempt
    OBVIOUS
  <1>1. /\ poller.pc = "cleanup" /\ Valid(poller)
        /\ attempt' = [attempt EXCEPT ![a].resource = "STOP_CONFIRMED"]
        /\ PollerTo("detached")
        /\ UNCHANGED <<job, task, artifact, ops, leased, up, worker, stopper>>
    BY DEF PollDetach, PollerAt
  <1>2. a \in AttemptId
    BY <1>1, PollerKnown DEF Known
  <1>3. /\ attempt'[a].resource = "STOP_CONFIRMED" /\ attempt'[a].task = attempt[a].task
        /\ \A b \in AttemptId \ {a} : attempt'[b] = attempt[b]
    BY <1>1, <1>2, TransferWritten
  <1>4. Loses(a)
    BY <1>1 DEF Loses
  <1>5. Transferred
    BY <1>1, <1>3, <1>4 DEF Transferred, Remote, Loading
  <1>6. PollerMoves
    <2>1. poller \in Execution(PollerPc)
      BY DEF Known, Whole, Inv, TypeOK
    <2> QED BY <1>1, <2>1 DEF PollerTo, Execution, PollerMoves, PollerProceeds, Looks, Cleans, Polls
  <1>7. Fated /\ \A i \in Job : RowKept(i)
    BY <1>1, RowsStayFated DEF Known, Whole, Always, RowKept
  <1>8. Operated /\ Archived /\ LeasesKept
    BY <1>1 DEF Operated, Archived, LeasesKept
  <1>9. PollerRests
    BY <1>1 DEF PollerTo, PollerRests, Polls, Execution, Known, Whole, Inv, TypeOK
  <1> QED BY <1>1, <1>5, <1>6, <1>7, <1>8, <1>9, ActorsStay DEF Move, SlotsMove

\* ... and the row says so.
LEMMA PollUnseedMoves == ASSUME Known, PollUnseed PROVE Move
  <1>1. \A i \in Job : RowKept(i)
    BY DEF PollUnseed, RowKept, Known, Whole, Inv, TypeOK, JobRow
  <1>2. Fated
    BY <1>1, RowsStayFated DEF PollUnseed, Known, Whole, Always
  <1>3. Transferred /\ Archived /\ LeasesKept /\ Operated
    BY TransfersAlike DEF PollUnseed, AttemptAlike, Archived, LeasesKept, Operated
  <1>4. PollerMoves /\ PollerRests
    BY DEF PollUnseed, PollerMoves, PollerRests, Polls, Idle
  <1> QED BY <1>1, <1>2, <1>3, <1>4, ActorsStay DEF PollUnseed, Move, SlotsMove

\* A failure that the poller records, with or without a stop.
LEMMA PollFailMoves == ASSUME Known, PollFail PROVE Move
  <1> PICK j : j = JobOf(poller)
    OBVIOUS
  <1> DEFINE remote == \E t \in TaskId : task[t].job = j /\ Unresolved(t) # {}
  <1>1. poller.pc = "failing" /\ Valid(poller) /\ poller' = Idle /\ UNCHANGED <<artifact, up, worker, stopper>>
    BY DEF PollFail, PollerAt
  <1>2. PICK permanent \in BOOLEAN :
          IF remote
          THEN /\ ~HasOperation(job[j].task)
               /\ ops' = ops \union {NewOperation(j, "cancel", None, FALSE, FALSE)}
               /\ job' = [job EXCEPT ![j].state = "STOPPING", ![j].permanent = permanent]
               /\ SetFailedThenStopping(j)
          ELSE /\ job' = [job EXCEPT ![j].state = "FAILED", ![j].permanent = permanent]
               /\ SetState(j, "FAILED")
               /\ UNCHANGED ops
    BY DEF PollFail
  <1> HIDE DEF remote
  <1>3. /\ j \in Job /\ job[j].task = TaskOf(poller) /\ TaskOf(poller) \in TaskId
        /\ task[TaskOf(poller)].job = j /\ job[j].state = task[TaskOf(poller)].status
        /\ job[j].state \in {"WAITING_TORRENT", "COMPLETED"}
    BY <1>1, PollerRow
  <1>4. PollerMoves /\ Archived /\ WorkerMoves /\ StopperMoves /\ poller'.pc = "idle"
    BY <1>1, ActorsStay DEF PollerMoves, Archived, Idle
  <1>7. (\A a \in AttemptId : AttemptAlike(a)) => Spares(job[j].task)
    <2> SUFFICES ASSUME \A a \in AttemptId : AttemptAlike(a) PROVE Spares(job[j].task)
      OBVIOUS
    <2>1. \A a \in AttemptId : Loading(a) => Loading(a)'
      BY DEF AttemptAlike, Loading, Remote
    <2>2. WorkerRests /\ PollerRests /\ poller.pc \notin Polls
      BY <1>1, ActorsStay DEF PollerRests, Polls, Idle
    <2> QED BY <1>1, <2>1, <2>2 DEF Spares
  <1>5. CASE remote
    <2>1. (\A i \in Job \ {j} : job'[i] = job[i]) /\ job'[j].state = "STOPPING" /\ job'[j].task = job[j].task
      BY <1>2, <1>3, <1>5 DEF Known, Whole, Inv, TypeOK, JobRow
    <2>2. Fated /\ Operated /\ Transferred /\ LeasesKept /\ \A a \in AttemptId : AttemptAlike(a)
      <3>1. /\ ~HasOperation(job[j].task) /\ SetFailedThenStopping(j)
            /\ ops' = ops \union {NewOperation(j, "cancel", None, FALSE, FALSE)}
        BY <1>2, <1>5
      <3>2. job[j].state \notin {"NONE", "STOPPING"}
        BY <1>3
      <3> QED BY <1>3, <2>1, <3>1, <3>2, FailedThenStopped
    <2>3. RowGoes(j)
      BY <1>3, <1>7, <2>1, <2>2 DEF RowGoes, RowKept
    <2> QED BY <1>3, <1>4, <2>2, <2>3 DEF Move, SlotsMove
  <1>6. CASE ~remote
    <2>1. (\A i \in Job \ {j} : job'[i] = job[i]) /\ job'[j].state = "FAILED" /\ job'[j].task = job[j].task
      BY <1>2, <1>3, <1>6 DEF Known, Whole, Inv, TypeOK, JobRow
    <2>2. NothingRemote(TaskOf(poller))
      <3>1. Unresolved(TaskOf(poller)) = {}
        BY <1>3, <1>6 DEF remote
      <3> QED BY <3>1 DEF Unresolved, NothingRemote, Remote
    <2>3. Inv /\ Inv' /\ Owned /\ Shape
      BY DEF Known, Whole, Always
    <2>4. SetState(j, "FAILED") /\ ops' = ops
      BY <1>2, <1>6
    <2>5. /\ Transferred /\ LeasesKept /\ task'[TaskOf(poller)].status = "FAILED"
          /\ \A a \in AttemptId : AttemptAlike(a)
      BY <1>3, <2>3, <2>4, SlotStateWritten DEF JobState, Terminal
    <2>6. ASSUME NEW u \in TaskId, u = job[j].task, Goes(u, {job[j].state}, {job'[j].state}) PROVE Fate(u)
      <3>1. ByPoller(u)
        BY <1>1, <1>3, <1>4, <2>1, <2>2, <2>5, <2>6 DEF ByPoller, Goes
      <3> QED BY <3>1 DEF Fate
    <2>7. Fated
      BY <1>3, <2>1, <2>3, <2>4, <2>6, RowFated DEF RowKept
    <2>8. Operated
      BY <2>4 DEF Operated
    <2>9. RowGoes(j)
      BY <1>3, <1>7, <2>1, <2>5 DEF RowGoes, RowKept
    <2> QED BY <1>3, <1>4, <2>5, <2>7, <2>8, <2>9 DEF Move, SlotsMove
  <1> QED BY <1>5, <1>6

\* Every step of the poller is such a step.
LEMMA PollerStepMoves == ASSUME Known, PollerStep PROVE Move
  BY PollReadMoves, PollBeginMoves, PollObserveMoves, PollCompleteMoves, PollDetachMoves, PollUnseedMoves,
     PollErrorMoves, PollFailMoves, PollExitMoves
  DEF PollerStep

-----------------------------------------------------------------------------
(* The operation processor. *)

\* An operation goes on to the remote side, and the poller is told to end.
LEMMA ProceedMoves ==
    ASSUME Known, NEW o, ProceedFromLocal(o), ~WorkerHandle(o.task), UNCHANGED <<tables, worker>>
    PROVE  Proceeds(o) /\ PollerMoves /\ PollerRests
  <1>1. poller \in Execution(PollerPc)
    BY DEF Known, Whole, Inv, TypeOK
  <1>2. /\ stopper'.op = o
        /\ stopper'.pc = IF o.action = "replace-account" THEN "prepare"
                         ELSE IF IsTorrent(o.job) THEN "remote" ELSE "confirmed"
        /\ poller' = IF stopper'.pc = "remote" /\ PollerHandle(o.task) THEN [poller EXCEPT !.cancelled = TRUE]
                     ELSE poller
    BY DEF ProceedFromLocal
  <1>3. CASE stopper'.pc = "remote" /\ PollerHandle(o.task)
    <2>1. /\ poller'.pc = poller.pc /\ poller'.attempt = poller.attempt /\ poller'.generation = poller.generation
          /\ poller'.cancelled
      BY <1>1, <1>2, <1>3 DEF Execution
    <2> QED BY <1>2, <1>3, <2>1 DEF PollerHandle, PollerMoves, PollerProceeds, PollerRests, Proceeds, Past
  <1>4. CASE ~(stopper'.pc = "remote" /\ PollerHandle(o.task))
    BY <1>2, <1>4, ActorsStay DEF Proceeds, Past
  <1> QED BY <1>3, <1>4

\* An operation is taken up: the local execution is cancelled, or there is none.
LEMMA StopPickMoves == ASSUME Known, NEW o \in ops, StopPick(o) PROVE Move
  <1>1. UNCHANGED tables
    BY DEF StopPick
  <1>2. CASE WorkerHandle(o.task)
    <2>1. /\ stopper' = [pc |-> "local", op |-> o] /\ UNCHANGED poller
          /\ worker' = [worker EXCEPT !.cancelled = @ \/ o.action # "replace-account" \/ o.interrupt]
      BY <1>2 DEF StopPick
    <2>2. worker'.pc = worker.pc /\ worker'.attempt = worker.attempt /\ worker'.generation = worker.generation
      BY <2>1 DEF Known, Whole, Inv, TypeOK, Execution
    <2>3. WorkerMoves /\ WorkerRests
      BY <1>2, <2>2 DEF WorkerMoves, WorkerProceeds, WorkerRests, WorkerHandle
    <2>4. StopperMoves
      BY <1>1, <2>1 DEF StopperMoves
    <2> QED BY <1>1, <2>1, <2>3, <2>4, TablesStay, ActorsStay DEF Move, SlotsMove
  <1>3. CASE ~WorkerHandle(o.task)
    <2>1. ProceedFromLocal(o) /\ worker' = worker
      BY <1>3 DEF StopPick
    <2>2. Proceeds(o) /\ PollerMoves /\ PollerRests
      BY <1>1, <1>3, <2>1, ProceedMoves
    <2>3. StopperMoves
      BY <2>2 DEF StopperMoves
    <2> QED BY <1>1, <2>1, <2>2, <2>3, TablesStay, ActorsStay DEF Move, SlotsMove
  <1> QED BY <1>2, <1>3

\* The cancelled execution has ended.
LEMMA StopLocalMoves == ASSUME Known, StopLocal PROVE Move
  <1>1. /\ stopper.pc = "local" /\ ~WorkerHandle(stopper.op.task) /\ ProceedFromLocal(stopper.op)
        /\ UNCHANGED <<tables, up, worker>>
    BY DEF StopLocal, StopperAt
  <1>2. Proceeds(stopper.op) /\ PollerMoves /\ PollerRests
    BY <1>1, ProceedMoves
  <1>3. StopperMoves
    BY <1>1, <1>2 DEF StopperMoves
  <1> QED BY <1>1, <1>2, <1>3, TablesStay, ActorsStay DEF Move, SlotsMove

\* The client shows that a transfer is gone.
LEMMA StopResourceMoves == ASSUME Known, NEW a \in AttemptId, StopResource(a) PROVE Move
  <1>1. /\ stopper.pc = "remote" /\ PollerGone /\ attempt[a].task = stopper.op.task /\ Remote(a)
        /\ attempt' = [attempt EXCEPT ![a].resource = "STOP_CONFIRMED"]
        /\ UNCHANGED <<job, task, artifact, ops, leased, up, worker, poller, stopper>>
    BY DEF StopResource, StopperAt, Unresolved, Remote
  <1>2. /\ attempt'[a].resource = "STOP_CONFIRMED" /\ attempt'[a].task = attempt[a].task
        /\ \A b \in AttemptId \ {a} : attempt'[b] = attempt[b]
    BY <1>1, TransferWritten
  <1>3. Loses(a)
    BY <1>1 DEF Loses
  <1>4. Transferred
    BY <1>1, <1>2, <1>3 DEF Transferred, Remote, Loading
  <1>5. Fated /\ \A i \in Job : RowKept(i)
    BY <1>1, RowsStayFated DEF Known, Whole, Always, RowKept
  <1>6. Operated /\ Archived /\ LeasesKept
    BY <1>1 DEF Operated, Archived, LeasesKept
  <1> QED BY <1>1, <1>4, <1>5, <1>6, ActorsStay DEF Move, SlotsMove

\* Nothing is left at the client.
LEMMA StopRemoteMoves == ASSUME Known, StopRemote PROVE Move
  <1>1. stopper'.pc = "confirmed" /\ stopper'.op = stopper.op
    BY DEF StopRemote, StopperTo, Known, Whole, Inv, TypeOK
  <1>2. StopperMoves
    BY <1>1 DEF StopRemote, StopperAt, StopperMoves
  <1> QED BY <1>2, TablesStay, ActorsStay DEF StopRemote, Move, SlotsMove

\* The operation is left for a later pass.
LEMMA StopErrorMoves == ASSUME Known, StopError PROVE Move
  BY TablesStay, ActorsStay DEF StopError, Move, StopperMoves, NoStop, SlotsMove

\* An operation ends: its row is released, and at most one other is queued as a new task.
LEMMA FinishMoves ==
    ASSUME Known, NEW p \in ops, Finishing(p), p.action # "stop-seeding",
           \A i \in Job \ {p.job} : RowKept(i) \/ job'[i].task \in UnusedTask,
           Transferred, LeasesKept, SlotsMove, UNCHANGED <<artifact, worker, poller>>
    PROVE  Move
  <1>1. Inv /\ Inv' /\ Owned /\ Shape
    BY DEF Known, Whole, Always
  <1>2. Fated
    BY <1>1, FinishFated
  <1>3. Operated /\ StopperMoves
    BY DEF Finishing, NoStop, Operated, StopperMoves
  <1> QED BY <1>2, <1>3, ActorsStay DEF Move, Archived

\* The row of an operation that ends is the one it stopped.
LEMMA FinishingRowStops ==
    ASSUME Known, NEW p \in ops, Finishing(p), p.action # "stop-seeding"
    PROVE  /\ p.job \in Job /\ job[p.job].task = p.task /\ job[p.job].state = "STOPPING" /\ p.task \in TaskId
           /\ task[p.task].status = "STOPPING"
  <1>1. p.job \in Job /\ task[p.task].status = "STOPPING" /\ job[p.job].task = p.task /\ p.task \in TaskId
    BY OperationTask DEF Finishing, Known
  <1> QED BY <1>1, CurrentOfRow, ConstantsAssumption DEF Known, Whole

\* A released row that stays as it is, or goes on as a new task.
LEMMA ReleasedSlot ==
    ASSUME Known, NEW p \in ops, Finishing(p), p.action # "stop-seeding",
           \A i \in Job \ {p.job} : RowKept(i), job'[p.job].task = job[p.job].task,
           \A a \in AttemptId : AttemptAlike(a), UNCHANGED <<worker, poller>>
    PROVE  SlotsMove
  <1>1. p.job \in Job /\ job[p.job].state = "STOPPING"
    BY FinishingRowStops
  <1>2. RowGoes(p.job)
    BY <1>1, ActorsSpared DEF RowGoes
  <1> QED BY <1>1, <1>2 DEF SlotsMove

\* The same for a row that goes on, or is replaced, as a new task.
LEMMA RenewedSlot ==
    ASSUME Known, NEW p \in ops, Finishing(p), p.action # "stop-seeding", NEW k \in Job, NEW u \in UnusedTask,
           \A i \in Job \ {p.job, k} : RowKept(i), WorkOf(k) = WorkOf(p.job),
           job'[k].task = u, job'[k].state = "PENDING", k # p.job => job'[p.job].state \notin Occupying,
           \A a \in AttemptId : AttemptAlike(a), UNCHANGED <<worker, poller>>
    PROVE  SlotsMove
  <1>1. p.job \in Job /\ job[p.job].state = "STOPPING" /\ job[p.job].task = p.task /\ u \in TaskId
    BY FinishingRowStops DEF UnusedTask
  <1>2. stopper.pc \in {"prepare", "confirmed"} /\ stopper.op.task = job[p.job].task
    BY <1>1 DEF Finishing
  <1>3. RowRenews(p.job, k, u)
    BY <1>1, <1>2, ActorsSpared DEF RowRenews
  <1> QED BY <1>1, <1>3 DEF SlotsMove

\* What the last execution of a released row is recorded as.
LEMMA LastRecorded ==
    ASSUME Known, NEW p \in ops, Finishing(p), p.action # "stop-seeding",
           attempt' = IF AttemptOf(p.job) = None THEN attempt
                      ELSE [attempt EXCEPT ![AttemptOf(p.job)] = Record(@, "CANCELLED")],
           leased' = leased \ {AttemptOf(p.job)},
           task'[p.task].status # "DOWNLOADING"
    PROVE  Transferred /\ LeasesKept /\ \A a \in AttemptId : AttemptAlike(a)
  <1>1. job[p.job].task = p.task /\ p.task \in TaskId /\ task[p.task].status # "NONE"
    BY FinishingRowStops
  <1>2. Inv /\ TypeOK
    BY DEF Known, Whole, Inv
  <1>3. LeasesKept
    BY <1>1, <1>2, LeaseDropped DEF AttemptOf
  <1>4. ASSUME NEW a \in AttemptId PROVE AttemptAlike(a)
    <2>1. attempt'[a] = attempt[a] \/ attempt'[a] = Record(attempt[a], "CANCELLED")
      BY <1>2 DEF TypeOK
    <2>2. attempt[a] \in AttemptRow /\ "CANCELLED" \in JobState
      BY <1>2 DEF TypeOK, JobState, Terminal
    <2> QED BY <2>1, <2>2, RecordLemma DEF AttemptAlike
  <1> QED BY <1>3, <1>4, TransfersAlike

\* The stopped row is cancelled, ...
LEMMA CancelWithMoves == ASSUME Known, NEW p \in ops, p.action # "stop-seeding", CancelWith(p) PROVE Move
  <1>1. /\ Finishing(p) /\ SetState(p.job, "CANCELLED") /\ UNCHANGED <<artifact, up, worker, poller>>
        /\ job' = [job EXCEPT ![p.job].state = "CANCELLED"]
    BY DEF CancelWith
  <1>2. p.job \in Job /\ job[p.job].state = "STOPPING"
    BY <1>1, FinishingRowStops
  <1>3. (\A i \in Job \ {p.job} : RowKept(i)) /\ job'[p.job].task = job[p.job].task
    BY <1>1, <1>2 DEF RowKept, Known, Whole, Inv, TypeOK, JobRow
  <1>4. Transferred /\ LeasesKept /\ \A a \in AttemptId : AttemptAlike(a)
    BY <1>1, <1>2, SlotStateWritten DEF Known, Whole, JobState, Terminal
  <1>5. SlotsMove
    BY <1>1, <1>3, <1>4, ReleasedSlot
  <1> QED BY <1>1, <1>3, <1>4, <1>5, FinishMoves

\* ... it fails after its last recovery, ...
LEMMA FinishExhaustedMoves == ASSUME Known, NEW p \in ops, FinishExhausted(p) PROVE Move
  <1>1. /\ Finishing(p) /\ SetState(p.job, "FAILED") /\ UNCHANGED <<artifact, up, worker, poller>>
        /\ job' = [job EXCEPT ![p.job].state = "FAILED", ![p.job].permanent = FALSE]
        /\ p.action # "stop-seeding"
    BY DEF FinishExhausted
  <1>2. p.job \in Job /\ job[p.job].state = "STOPPING"
    BY <1>1, FinishingRowStops
  <1>3. (\A i \in Job \ {p.job} : RowKept(i)) /\ job'[p.job].task = job[p.job].task
    BY <1>1, <1>2 DEF RowKept, Known, Whole, Inv, TypeOK, JobRow
  <1>4. Transferred /\ LeasesKept /\ \A a \in AttemptId : AttemptAlike(a)
    BY <1>1, <1>2, SlotStateWritten DEF Known, Whole, JobState, Terminal
  <1>5. SlotsMove
    BY <1>1, <1>3, <1>4, ReleasedSlot
  <1> QED BY <1>1, <1>3, <1>4, <1>5, FinishMoves

\* What a cancelled task is.
LEMMA CancelledTask ==
    ASSUME Known, NEW t \in TaskId
    PROVE  Mirror(task[t], "CANCELLED").status = "CANCELLED"
  BY MirrorLemma DEF Known, Whole, Inv, TypeOK, JobState, Terminal

\* ... it goes on as a new task, ...
LEMMA FinishRetryMoves == ASSUME Known, NEW p \in ops, FinishRetry(p) PROVE Move
  <1> PICK j : j = p.job
    OBVIOUS
  <1>1. /\ Finishing(p) /\ p.action # "stop-seeding" /\ UNCHANGED <<artifact, up, worker, poller>>
        /\ attempt' = IF AttemptOf(j) = None THEN attempt
                      ELSE [attempt EXCEPT ![AttemptOf(j)] = Record(@, "CANCELLED")]
        /\ leased' = leased \ {AttemptOf(j)}
    BY DEF FinishRetry
  <1>2. PICK t \in UnusedTask :
          LET old == Mirror(task[p.task], "CANCELLED") IN
          /\ Requeue(j, t, EmptyDetails, job[j].recovery)
          /\ task' = [task EXCEPT ![p.task] = old, ![t] = FreshTask(j, old.generation + 1)]
    BY DEF FinishRetry
  <1>3. j \in Job /\ p.task \in TaskId /\ task[p.task].status = "STOPPING" /\ TypeOK
    BY <1>1, FinishingRowStops DEF Known, Whole, Inv
  <1>4. t # p.task
    BY <1>3 DEF UnusedTask
  <1>5. task'[p.task] = Mirror(task[p.task], "CANCELLED")
    BY <1>2, <1>3, <1>4 DEF TypeOK
  <1>6. task'[p.task].status # "DOWNLOADING"
    BY <1>3, <1>5, CancelledTask
  <1>7. Transferred /\ LeasesKept /\ \A a \in AttemptId : AttemptAlike(a)
    BY <1>1, <1>6, LastRecorded
  <1>8. \A i \in Job \ {j} : RowKept(i)
    BY <1>2, <1>3 DEF Requeue, RowKept, TypeOK
  <1>9. job'[j].task = t /\ job'[j].state = "PENDING"
    BY <1>2, <1>3 DEF Requeue, TypeOK
  <1>10. SlotsMove
    BY <1>1, <1>3, <1>7, <1>8, <1>9, RenewedSlot
  <1> QED BY <1>1, <1>7, <1>8, <1>10, FinishMoves

\* ... it is cancelled as the row of the other source is queued, ...
LEMMA FinishSwitchMoves == ASSUME Known, NEW p \in ops, FinishSwitch(p) PROVE Move
  <1> PICK j : j = p.job
    OBVIOUS
  <1> DEFINE k == <<WorkOf(j), p.target>>
             old == Mirror(task[p.task], "CANCELLED")
             g == IF k = j THEN old.generation + 1 ELSE NextGeneration(k)
  <1>1. /\ Finishing(p) /\ p.action # "stop-seeding" /\ UNCHANGED <<artifact, up, worker, poller>>
        /\ attempt' = IF AttemptOf(j) = None THEN attempt
                      ELSE [attempt EXCEPT ![AttemptOf(j)] = Record(@, "CANCELLED")]
        /\ leased' = leased \ {AttemptOf(j)}
    BY DEF FinishSwitch
  <1>2. PICK t \in UnusedTask :
          /\ job' = [[job EXCEPT ![j].state = "CANCELLED"] EXCEPT
                        ![k] = [state |-> "PENDING", task |-> t, details |-> EmptyDetails,
                                recovery |-> @.recovery, permanent |-> FALSE]]
          /\ task' = [task EXCEPT ![p.task] = old, ![t] = FreshTask(k, g)]
    BY DEF FinishSwitch
  <1> HIDE DEF g, k
  <1>3. j \in Job /\ p.task \in TaskId /\ task[p.task].status = "STOPPING" /\ TypeOK
    BY <1>1, FinishingRowStops DEF Known, Whole, Inv
  <1>4. t # p.task
    BY <1>3 DEF UnusedTask
  <1>5. task'[p.task] = old
    BY <1>2, <1>3, <1>4 DEF TypeOK
  <1>6. task'[p.task].status # "DOWNLOADING"
    BY <1>3, <1>5, CancelledTask
  <1>7. Transferred /\ LeasesKept /\ \A a \in AttemptId : AttemptAlike(a)
    BY <1>1, <1>6, LastRecorded
  <1>8. \A i \in Job \ {j} : RowKept(i) \/ job'[i].task \in UnusedTask
    <2> SUFFICES ASSUME NEW i \in Job \ {j} PROVE RowKept(i) \/ job'[i].task \in UnusedTask
      OBVIOUS
    <2>1. CASE i = k
      <3>1. job'[i].task = t
        BY <1>2, <1>3, <2>1 DEF TypeOK
      <3> QED BY <3>1
    <2>2. CASE i # k
      BY <1>2, <1>3, <2>2 DEF RowKept, TypeOK
    <2> QED BY <2>1, <2>2
  <1>9. k \in Job /\ WorkOf(k) = WorkOf(j)
    <2>1. p.target \in Provider
      BY DEF FinishSwitch, Known, Whole, Inv, RowsLinked, OperationLinked
    <2> QED BY <1>3, <2>1 DEF k, Job, WorkOf
  <1>10. (\A i \in Job \ {j, k} : RowKept(i)) /\ job'[k].task = t /\ job'[k].state = "PENDING"
    BY <1>2, <1>3, <1>9 DEF RowKept, TypeOK
  <1>11. k # j => job'[j].state \notin Occupying
    <2>1. k # j => job'[j] = [job[j] EXCEPT !.state = "CANCELLED"]
      BY <1>2, <1>3, <1>9 DEF TypeOK
    <2>2. [job[j] EXCEPT !.state = "CANCELLED"].state = "CANCELLED"
      BY <1>3 DEF TypeOK, JobRow
    <2>3. k # j => job'[j].state = "CANCELLED"
      BY <2>1, <2>2
    <2> QED BY <2>3 DEF Occupying, Terminal
  <1>12. SlotsMove
    BY <1>1, <1>7, <1>9, <1>10, <1>11, RenewedSlot
  <1> QED BY <1>1, <1>7, <1>8, <1>12, FinishMoves

\* ... or the same task goes on with the next account.
LEMMA FinishReplacementMoves == ASSUME Known, NEW p \in ops, FinishReplacement(p) PROVE Move
  <1> PICK j : j = p.job
    OBVIOUS
  <1>1. /\ Finishing(p) /\ p.action # "stop-seeding" /\ UNCHANGED <<artifact, up, worker, poller>>
        /\ p.attempt = task[p.task].attempt
        /\ attempt' = [attempt EXCEPT ![p.attempt] = Record(@, "CANCELLED")]
        /\ leased' = leased \ {p.attempt}
    BY DEF FinishReplacement
  <1>2. \E s \in {"PENDING", "FAILED"} : task' = [task EXCEPT ![p.task] = Mirror(@, s)]
    BY DEF FinishReplacement
  <1>3. /\ j \in Job /\ p.task \in TaskId /\ task[p.task].status = "STOPPING" /\ TypeOK /\ Inv
        /\ job[j].task = p.task
    BY <1>1, FinishingRowStops DEF Known, Whole, Inv
  <1>4. \A i \in Job \ {j} : job'[i] = job[i]
    BY <1>3 DEF FinishReplacement, TypeOK
  <1>5. task'[p.task].status # "DOWNLOADING"
    <2>1. PICK s \in {"PENDING", "FAILED"} : task'[p.task] = Mirror(task[p.task], s)
      BY <1>2, <1>3 DEF TypeOK
    <2> QED BY <1>3, <2>1, MirrorLemma DEF TypeOK, JobState, Terminal
  <1>6. ASSUME NEW a \in AttemptId PROVE AttemptAlike(a)
    <2>1. attempt'[a] = attempt[a] \/ attempt'[a] = Record(attempt[a], "CANCELLED")
      BY <1>1, <1>3 DEF TypeOK
    <2>2. attempt[a] \in AttemptRow /\ "CANCELLED" \in JobState
      BY <1>3 DEF TypeOK, JobState, Terminal
    <2> QED BY <2>1, <2>2, RecordLemma DEF AttemptAlike
  <1>7. LeasesKept
    BY <1>1, <1>3, <1>5, LeaseDropped
  <1>8. job'[j].task = job[j].task
    <2>1. job \in [Job -> JobRow] /\ job[j] \in JobRow
      BY <1>3 DEF TypeOK
    <2> DEFINE next == [job[j] EXCEPT !.state = "PENDING", !.permanent = FALSE, !.details = NextAccount(job[j].details)]
    <2>2. next.task = job[j].task
      BY <2>1 DEF JobRow
    <2>3. ASSUME job' = [job EXCEPT ![j] = next] PROVE job'[j].task = job[j].task
      <3> HIDE DEF next
      <3> QED BY <1>3, <2>1, <2>2, <2>3
    <2>4. ASSUME NEW permanent \in BOOLEAN, job' = [job EXCEPT ![j].state = "FAILED", ![j].permanent = permanent]
          PROVE  job'[j].task = job[j].task
      BY <1>3, <2>1, <2>4 DEF JobRow
    <2> QED BY <2>3, <2>4 DEF FinishReplacement
  <1>9. SlotsMove
    BY <1>1, <1>4, <1>6, <1>8, ReleasedSlot DEF RowKept
  <1> QED BY <1>1, <1>4, <1>6, <1>7, <1>9, TransfersAlike, FinishMoves DEF RowKept

\* The row says that nothing is seeding any more.
LEMMA FinishSeedingMoves == ASSUME Known, NEW p \in ops, FinishSeeding(p) PROVE Move
  <1>1. \A i \in Job : RowKept(i)
    BY DEF FinishSeeding, RowKept, Known, Whole, Inv, TypeOK, JobRow
  <1>2. Fated
    BY <1>1, RowsStayFated DEF FinishSeeding, Known, Whole, Always
  <1>3. Transferred /\ Archived /\ LeasesKept
    BY TransfersAlike DEF FinishSeeding, AttemptAlike, Archived, LeasesKept
  <1>4. Operated /\ StopperMoves
    BY DEF FinishSeeding, Finishing, NoStop, Operated, StopperMoves
  <1> QED BY <1>1, <1>2, <1>3, <1>4, ActorsStay DEF FinishSeeding, Move, SlotsMove

\* Every step of the operation processor is such a step.
LEMMA StopperStepMoves == ASSUME Known, StopperStep PROVE Move
  BY StopPickMoves, StopLocalMoves, StopResourceMoves, StopRemoteMoves, StopErrorMoves, CancelWithMoves,
     FinishRetryMoves, FinishExhaustedMoves, FinishSwitchMoves, FinishReplacementMoves, FinishSeedingMoves
  DEF StopperStep, Complete, FinishCancel, FinishForbidden

-----------------------------------------------------------------------------
(* Orphaned claims, leases and loss of the process. *)

\* An orphaned claim is given back, or stopped if something may be at the client.
LEMMA ReclaimMoves == ASSUME Known, NEW j \in Job, Reclaim(j) PROVE Move
  <1> PICK a : a = AttemptOf(j)
    OBVIOUS
  <1> DEFINE exhausted == job[j].recovery + 1 > MaxRecoveries
             interrupted == IF attempt[a].finished THEN attempt[a]
                            ELSE [attempt[a] EXCEPT !.status = "INTERRUPTED", !.finished = TRUE]
  <1>1. /\ job[j].state = "DOWNLOADING" /\ ~Active(a) /\ a \notin leased
        /\ attempt' = [attempt EXCEPT ![a] = interrupted]
        /\ UNCHANGED <<artifact, leased, up, worker, poller, stopper>>
    BY DEF Reclaim
  <1>2. PICK s \in JobState :
          /\ IF NeedsRemoteStop(j)
             THEN /\ s = "STOPPING"
                  /\ ~HasOperation(job[j].task)
                  /\ ops' = ops \union {NewOperation(j, "retry", None, exhausted, TRUE)}
             ELSE /\ s = IF exhausted THEN "FAILED" ELSE "PENDING"
                  /\ UNCHANGED ops
          /\ job' = [job EXCEPT ![j] = [job[j] EXCEPT !.state = s, !.recovery = job[j].recovery + 1]]
          /\ task' = [task EXCEPT ![job[j].task] = Mirror(@, s)]
    BY DEF Reclaim
  <1> HIDE DEF exhausted, interrupted
  <1>3. Whole /\ Inv /\ Inv' /\ Owned /\ Shape /\ TypeOK
    BY DEF Known, Whole, Always, Inv
  <1>4. /\ job[j].task \in TaskId /\ task[job[j].task].status = "DOWNLOADING"
        /\ task[job[j].task].attempt = a
    BY <1>1, <1>3, TaskOfRow DEF AttemptOf
  <1>5. \A i \in Job \ {j} : RowKept(i)
    BY <1>2, <1>3 DEF RowKept, TypeOK
  <1>6. job'[j].state = s /\ job'[j].task = job[j].task
    BY <1>2, <1>3 DEF TypeOK, JobRow
  <1>7. ASSUME NEW b \in AttemptId PROVE AttemptAlike(b)
    <2>1. attempt'[b] = IF b = a THEN interrupted ELSE attempt[b]
      BY <1>1, <1>3 DEF TypeOK
    <2>2. b = a => /\ interrupted.task = attempt[a].task
                   /\ interrupted.resource = attempt[a].resource
                   /\ interrupted.payload = attempt[a].payload
      BY <1>3 DEF interrupted, TypeOK, AttemptRow
    <2> QED BY <2>1, <2>2 DEF AttemptAlike
  <1>10. SlotsMove
    <2>1. RowGoes(j)
      BY <1>1, <1>5, <1>6, <1>7, ActorsSpared DEF RowGoes
    <2> QED BY <2>1 DEF SlotsMove
  <1>8. CASE NeedsRemoteStop(j)
    <2>1. /\ s = "STOPPING" /\ ~HasOperation(job[j].task)
          /\ ops' = ops \union {NewOperation(j, "retry", None, exhausted, TRUE)}
      BY <1>2, <1>8
    <2>2. Operated
      BY <1>1, <1>3, <1>7, <2>1, OperationAccepted
    <2>3. \A t \in TaskId : t = job[j].task /\ Goes(t, {job[j].state}, {job'[j].state}) => Fate(t)
      BY <1>1, <1>6, <2>1 DEF Fate, Halted, Goes, JobState
    <2>4. Fated
      BY <1>3, <1>5, <1>6, <2>1, <2>3, RowFated
    <2> QED BY <1>1, <1>7, <1>10, <2>2, <2>4, TransfersAlike, ActorsStay DEF Move, Archived, LeasesKept
  <1>9. CASE ~NeedsRemoteStop(j)
    <2>1. s \in {"FAILED", "PENDING"} /\ ops' = ops
      BY <1>2, <1>9
    <2>2. NothingRemote(job[j].task)
      BY <1>1, <1>3, <1>9, NothingAtClient DEF NeedsRemoteStop
    <2>3. ASSUME NEW t \in TaskId, t = job[j].task, Goes(t, {job[j].state}, {job'[j].state}) PROVE Fate(t)
      <3>1. Orphaned(t)
        BY <1>1, <1>4, <1>6, <2>1, <2>2, <2>3 DEF Orphaned, Goes
      <3> QED BY <3>1 DEF Fate
    <2>4. Fated
      BY <1>3, <1>5, <1>6, <2>1, <2>3, RowFated
    <2> QED BY <1>1, <1>7, <1>10, <2>1, <2>4, TransfersAlike, ActorsStay DEF Move, Operated, Archived, LeasesKept
  <1> QED BY <1>8, <1>9

\* A lease that nobody renews runs out.
LEMMA LeaseExpireMoves == ASSUME Known, NEW a \in AttemptId, LeaseExpire(a) PROVE Move
  <1>1. Unrenewed(a) /\ leased' = leased \ {a} /\ UNCHANGED <<job, task, attempt, artifact, ops, worker, poller, stopper>>
    BY DEF LeaseExpire
  <1>2. Fated /\ \A i \in Job : RowKept(i)
    BY <1>1, RowsStayFated DEF Known, Whole, Always, RowKept
  <1>3. Transferred /\ Operated /\ Archived /\ LeasesKept
    BY <1>1, TransfersAlike DEF AttemptAlike, Operated, Archived, LeasesKept
  <1> QED BY <1>1, <1>2, <1>3, ActorsStay DEF Move, SlotsMove

\* The process is lost with its executions and leases, ...
LEMMA CrashMoves == ASSUME Known, Crash PROVE Move
  <1>1. Fated /\ \A i \in Job : RowKept(i)
    BY RowsStayFated DEF Crash, Known, Whole, Always, RowKept
  <1>2. Transferred /\ Operated /\ Archived
    BY TransfersAlike DEF Crash, AttemptAlike, Operated, Archived
  <1>3. worker'.pc = "idle" /\ poller'.pc = "idle" /\ stopper'.pc = "idle"
    BY DEF Crash, Idle, NoStop
  <1> QED BY <1>1, <1>2, <1>3 
     DEF Move, LeasesKept, WorkerMoves, PollerMoves, StopperMoves, SlotsMove, WorkerRests, PollerRests, Makes, Polls

\* ... and another one takes over.
LEMMA RestartMoves == ASSUME Known, Restart PROVE Move
  BY TablesStay, ActorsStay DEF Restart, Move, SlotsMove

\* Every step of the process is such a step.
LEMMA ProcessStepMoves == ASSUME Known, ProcessStep PROVE Move
  BY ReclaimMoves, LeaseExpireMoves, CrashMoves, RestartMoves DEF ProcessStep

\* Every step of the queue is such a step, and keeps the invariant.
LEMMA NextMoves ==
    ASSUME Whole, [Next]_vars
    PROVE  Inv' /\ Move /\ Whole'
  <1>1. Known
    BY NextStep, Inductive DEF Known, Whole, Step
  <1>2. ASSUME NEW j \in Job, Command(j) PROVE Move
    BY <1>1, <1>2, CommandsMove
  <1>3. ASSUME UNCHANGED vars PROVE Move
    <2>1. UNCHANGED tables
      BY <1>3 DEF vars, tables
    <2>2. Fated /\ Operated /\ Transferred /\ Archived /\ LeasesKept /\ \A i \in Job : RowKept(i)
      BY <1>1, <2>1, TablesStay
    <2>3. WorkerMoves /\ PollerMoves /\ StopperMoves /\ WorkerRests /\ PollerRests
      BY <1>3, ActorsStay DEF vars
    <2> QED BY <2>2, <2>3 DEF Move, SlotsMove
  <1>4. Move
    BY <1>1, <1>2, <1>3, WorkerStepMoves, PollerStepMoves, StopperStepMoves, ProcessStepMoves DEF Next
  <1> QED BY <1>1, <1>4, MoveKeeps DEF Known

-----------------------------------------------------------------------------
(* What the invariant says. *)

\* An empty queue satisfies the invariant, ...
LEMMA InitWhole == Init => Whole
  <1> SUFFICES ASSUME Init PROVE Whole
    OBVIOUS
  <1>1. Inv
    BY InitInv
  <1>2. /\ \A t \in TaskId : task[t] = NoTask /\ task[t].status = "NONE"
        /\ \A a \in AttemptId : attempt[a] = NoAttempt /\ attempt[a].resource = "NONE"
        /\ \A j \in Job : job[j].state = "NONE"
        /\ ops = {} /\ worker.pc = "idle" /\ poller.pc = "idle" /\ stopper.pc = "idle"
    BY DEF Init, NoTask, NoAttempt, NoJob, Idle, NoStop
  <1>3. \A a \in AttemptId : ~Remote(a) /\ ~Loading(a)
    BY <1>2 DEF Remote, Loading
  <1>4. Owned /\ Aged(worker) /\ Aged(poller)
    BY <1>2 DEF Owned, Aged
  <1>5. WorkerApart /\ WorkerDoes /\ PollerSees /\ PollerHolds
    BY <1>2 DEF WorkerApart, WorkerDoes, PollerSees, PollerHolds, Early, Polls
  <1>6. StopperHas /\ StopperClears /\ StopperConfirms
    BY <1>2 DEF StopperHas, StopperClears, StopperConfirms, Past
  <1>7. SeedingDone /\ TorrentsOnly /\ ParkedRemote /\ OneLoading /\ CompletedHasArtifact
    BY <1>2, <1>3 DEF SeedingDone, TorrentsOnly, ParkedRemote, OneLoading, CompletedHasArtifact
  <1>8. WorkerRuns /\ LoadingHolds
    BY <1>2, <1>3 DEF WorkerRuns, LoadingHolds, Makes
  <1> QED BY <1>1, <1>4, <1>5, <1>6, <1>7, <1>8 DEF Whole, Always, Promptly

\* ... and so does every state it reaches.
THEOREM WholeInvariance == Spec => []Whole
  <1>1. Whole /\ [Next]_vars => Whole'
    BY NextMoves
  <1> QED BY <1>1, InitWhole, PTL DEF Spec

\* The torrents that may still be loading at the client belong to at most one task: a push
\* intends one only while no other task has a row or a transfer there.
THEOREM AtMostOneRemoteTransfer == Spec => []OneRemoteTransfer
  <1>1. Whole => OneRemoteTransfer
    <2> SUFFICES ASSUME Whole PROVE OneRemoteTransfer
      OBVIOUS
    <2> DEFINE S == {t \in TaskId : \E a \in Unresolved(t) : ~attempt[a].payload}
    <2>1. \A t, u \in S : t = u
      <3> SUFFICES ASSUME NEW t \in S, NEW u \in S PROVE t = u
        OBVIOUS
      <3>1. PICK a \in AttemptId : attempt[a].task = t /\ Loading(a)
        BY DEF Unresolved, Loading, Remote
      <3>2. PICK b \in AttemptId : attempt[b].task = u /\ Loading(b)
        BY DEF Unresolved, Loading, Remote
      <3> QED BY <3>1, <3>2 DEF Whole, Always, OneLoading
    <2> HIDE DEF S
    <2>2. CASE S = {}
      <3>1. Cardinality(S) = 0
        BY <2>2, FS_EmptySet
      <3> QED BY <3>1 DEF OneRemoteTransfer, S
    <2>3. CASE S # {}
      <3>1. PICK t : S = {t}
        BY <2>1, <2>3
      <3>2. Cardinality(S) = 1
        BY <3>1, FS_Singleton
      <3> QED BY <3>2 DEF OneRemoteTransfer, S
    <2> QED BY <2>2, <2>3
  <1> QED BY <1>1, WholeInvariance, PTL

\* A completed row shows the archive of the task that completed, whatever earlier rounds left.
THEOREM CompletedShowsItsArtifact == Spec => []CompletedHasArtifact
  <1>1. Whole => CompletedHasArtifact
    BY DEF Whole, Always
  <1> QED BY <1>1, WholeInvariance, PTL

\* What produces for a task: the worker, the poller, or a transfer.
ProducesFor(t) ==
    \/ worker.pc \in Makes /\ TaskOf(worker) = t
    \/ poller.pc \in Polls /\ TaskOf(poller) = t
    \/ \E a \in AttemptId : attempt[a].task = t /\ Loading(a)

\* Producing, in the words of the invariant.
LEMMA ProducingMeans == \A t : Producing(t) <=> ProducesFor(t)
  BY DEF Producing, ProducesFor, Makes, Polls, Unresolved, Loading, Remote

\* As long as something produces for a task, its row is its own and runs, is parked or is being stopped.
LEMMA ProducerRow ==
    ASSUME Whole, WorkerRuns, LoadingHolds, NEW t \in TaskId, ProducesFor(t)
    PROVE  /\ task[t].status \in {"DOWNLOADING", "WAITING_TORRENT", "STOPPING"}
           /\ task[t].job \in Job /\ job[task[t].job].task = t /\ job[task[t].job].state = task[t].status
  <1>1. Inv /\ Owned /\ PollerHolds
    BY DEF Whole, Always
  <1>2. CASE worker.pc \in Makes /\ TaskOf(worker) = t
    <2>1. Current(t) /\ task[t].status \in {"DOWNLOADING", "STOPPING"}
      BY <1>2 DEF WorkerRuns, Makes
    <2> QED BY <1>1, <2>1, RowOfCurrent
  <1>3. CASE poller.pc \in Polls /\ TaskOf(poller) = t
    <2>1. Current(t) /\ task[t].status \in {"WAITING_TORRENT", "STOPPING"}
      BY <1>1, <1>3 DEF PollerHolds
    <2> QED BY <1>1, <2>1, RowOfCurrent
  <1>4. ASSUME NEW a \in AttemptId, attempt[a].task = t, Loading(a)
        PROVE  Current(t) /\ task[t].status \in {"DOWNLOADING", "WAITING_TORRENT", "STOPPING"}
    BY <1>4 DEF LoadingHolds
  <1>5. CASE \E a \in AttemptId : attempt[a].task = t /\ Loading(a)
    BY <1>1, <1>4, <1>5, RowOfCurrent
  <1> QED BY <1>2, <1>3, <1>5 DEF ProducesFor

\* As long as claims reach their coroutine before their lease runs out, the slot of a work
\* is not given away while anything produces for the task that holds it.
THEOREM SlotKeptWhileSomethingProduces ==
    ASSUME ~DispatchStall
    PROVE  Spec => []SlotKeptWhileProducing
  <1>1. Whole => SlotKeptWhileProducing
    <2> SUFFICES ASSUME Whole, NEW t \in TaskId, Producing(t)
                 PROVE  /\ job[task[t].job].task = t
                        /\ job[task[t].job].state \in {"DOWNLOADING", "WAITING_TORRENT", "STOPPING"}
      BY DEF SlotKeptWhileProducing
    <2>1. ProducesFor(t) /\ WorkerRuns /\ LoadingHolds
      BY ProducingMeans DEF Whole, Promptly
    <2> QED BY <2>1, ProducerRow
  <1> QED BY <1>1, WholeInvariance, PTL

\* A late result of a revoked execution never lets a task that ended run again.
THEOREM OutcomesAreFinal ==
    ASSUME ~DispatchStall
    PROVE  Spec => OutcomeIsFinal
  <1> DEFINE Final == \A t \in TaskId :
                 /\ task[t].status \in Terminal => task'[t].status \notin Queued
                 /\ task[t].status = "CANCELLED" => task'[t].status \in {"CANCELLED", "STOPPING"}
  <1>1. ASSUME Whole, [Next]_vars PROVE Final
    <2>1. Move /\ WorkerRuns
      BY <1>1, NextMoves DEF Whole, Promptly
    <2> SUFFICES ASSUME NEW t \in TaskId, task[t].status \in Terminal
                 PROVE  /\ task'[t].status \notin Queued
                        /\ task[t].status = "CANCELLED" => task'[t].status \in {"CANCELLED", "STOPPING"}
      BY DEF Terminal
    <2>2. Fate(t)
      BY <2>1 DEF Move, Fated, Terminal
    <2>3. CASE Stays(t) \/ Dropped(t)
      BY <2>3 DEF Stays, Dropped, Terminal, Queued
    <2>4. CASE Halted(t)
      BY <2>4 DEF Halted, Goes, Queued
    <2>5. CASE Queues(t) \/ Taken(t) \/ Orphaned(t) \/ Ended(t)
      BY <2>5 DEF Queues, Taken, Orphaned, Ended, Goes, Terminal
    <2>6. CASE ByWorker(t)
      <3>1. worker.pc = "completed" => task[t].status = "COMPLETED"
        BY <2>1, <2>6 DEF ByWorker, WorkerRuns
      <3>2. worker.pc \in Makes => task[t].status = "DOWNLOADING"
        BY <2>1, <2>6 DEF ByWorker, WorkerRuns, Makes, Early
      <3> QED BY <2>6, <3>1, <3>2 DEF ByWorker, Goes, Terminal, Queued
    <2>7. CASE ByPoller(t)
      BY <2>7 DEF ByPoller, Goes, Queued
    <2> QED BY <2>2, <2>3, <2>4, <2>5, <2>6, <2>7 DEF Fate
  <1> QED BY <1>1, WholeInvariance, PTL DEF Spec, OutcomeIsFinal

\* Without the hypothesis: what ended as cancelled or completed stays so.  Only a task that
\* was failed under a live execution can still be ended otherwise by it.
THEOREM EndsStay == Spec => EndsPrevail
  <1> DEFINE Prevails == \A t \in TaskId :
                 /\ task[t].status = "CANCELLED" => task'[t].status \in {"CANCELLED", "STOPPING"}
                 /\ task[t].status = "COMPLETED" => task'[t].status \notin Queued
  <1>1. ASSUME Whole, [Next]_vars PROVE Prevails
    <2>1. Move /\ WorkerApart
      BY <1>1, NextMoves DEF Whole, Always
    <2> SUFFICES ASSUME NEW t \in TaskId, task[t].status \in {"CANCELLED", "COMPLETED"}
                 PROVE  /\ task[t].status = "CANCELLED" => task'[t].status \in {"CANCELLED", "STOPPING"}
                        /\ task[t].status = "COMPLETED" => task'[t].status \notin Queued
      OBVIOUS
    <2>2. Fate(t)
      BY <2>1 DEF Move, Fated
    <2>3. CASE Stays(t) \/ Dropped(t)
      BY <2>3 DEF Stays, Dropped, Queued
    <2>4. CASE Halted(t)
      BY <2>4 DEF Halted, Goes, Queued
    <2>5. CASE Queues(t) \/ Taken(t) \/ Orphaned(t) \/ Ended(t)
      BY <2>5 DEF Queues, Taken, Orphaned, Ended, Goes
    <2>6. CASE ByWorker(t)
      <3>1. task[t].status = "COMPLETED" => task'[t].status = "FAILED"
        BY <2>6 DEF ByWorker, Goes
      <3>2. task[t].status # "CANCELLED"
        BY <2>6 DEF ByWorker, Goes
      <3> QED BY <3>1, <3>2 DEF Queued
    <2>7. CASE ByPoller(t)
      BY <2>7 DEF ByPoller, Goes, Queued
    <2> QED BY <2>2, <2>3, <2>4, <2>5, <2>6, <2>7 DEF Fate
  <1> QED BY <1>1, WholeInvariance, PTL DEF Spec, EndsPrevail

\* The operation processor has seen everything of a task end before it releases it.
LEMMA ConfirmedIsSilent ==
    ASSUME StopperClears, StopperConfirms, stopper.pc \in {"prepare", "confirmed"}
    PROVE  ~Producing(stopper.op.task)
  <1>1. ~(worker.pc \in Makes /\ TaskOf(worker) = stopper.op.task)
    BY DEF StopperClears, Past
  <1>2. ~(poller.pc \in Polls /\ TaskOf(poller) = stopper.op.task)
    BY DEF StopperClears, Past
  <1>3. NothingRemote(stopper.op.task)
    BY DEF StopperConfirms
  <1> QED BY <1>1, <1>2, <1>3, ProducingMeans DEF ProducesFor, Loading, NothingRemote

\* The stop barrier needs no hypothesis about time: a row is released from STOPPING only
\* when nothing produces for its task any more.
THEOREM StoppedRowsAreSilent == Spec => StoppedIsSilent
  <1> DEFINE Silent == \A j \in Job :
                 job[j].state = "STOPPING" /\ job'[j].state # "STOPPING" => ~Producing(job[j].task)
  <1>1. ASSUME Whole, [Next]_vars PROVE Silent
    <2> SUFFICES ASSUME NEW j \in Job, job[j].state = "STOPPING", job'[j].state # "STOPPING"
                 PROVE  ~Producing(job[j].task)
      OBVIOUS
    <2>1. Inv /\ Inv' /\ Fated /\ StopperClears /\ StopperConfirms
      BY <1>1, NextMoves DEF Whole, Always, Move
    <2>2. PICK t \in TaskId : t = job[j].task /\ task[t].job = j /\ task[t].status = "STOPPING"
      BY <2>1, TaskOfRow
    <2>3. Fate(t)
      BY <2>1, <2>2 DEF Fated
    <2>4. CASE Stays(t)
      <3>1. task'[t] = task[t] /\ job'[j].task = t
        BY <2>2, <2>4 DEF Stays, Current
      <3>2. job'[j].state # "NONE" => task'[job'[j].task].status = job'[j].state
        BY <2>1 DEF Inv, RowsLinked, JobLinked
      <3>3. job'[j].state # "NONE"
        BY <2>1, <2>2, <3>1, ConstantsAssumption DEF Inv, RowsLinked, JobLinked
      <3> QED BY <2>2, <3>1, <3>2, <3>3
    <2>5. CASE Dropped(t) \/ Halted(t) \/ Queues(t) \/ Taken(t) \/ Orphaned(t)
      BY <2>2, <2>5 DEF Dropped, Halted, Queues, Taken, Orphaned, Goes, Terminal
    <2>6. CASE ByWorker(t) \/ ByPoller(t)
      BY <2>2, <2>6 DEF ByWorker, ByPoller, Goes
    <2>7. CASE Ended(t)
      <3>1. stopper.pc \in {"prepare", "confirmed"} /\ stopper.op.task = t
        BY <2>7 DEF Ended
      <3> QED BY <2>1, <2>2, <3>1, ConfirmedIsSilent
    <2> QED BY <2>3, <2>4, <2>5, <2>6, <2>7 DEF Fate
  <1> QED BY <1>1, WholeInvariance, PTL DEF Spec, StoppedIsSilent

-----------------------------------------------------------------------------
(* The queue implements the slot of every work. *)

Holder == [w \in Work |-> IF HolderOf(w) = {} THEN None ELSE CHOOSE t \in HolderOf(w) : TRUE]
Producers == {t \in TaskId : Producing(t)}

\* The holder of a slot is the task of the row that occupies it.
HolderReads ==
    \A w \in Work :
        /\ \A j \in Job : WorkOf(j) = w /\ job[j].state \in Occupying => Holder[w] = job[j].task
        /\ Holder[w] # None => \E j \in Job :
              WorkOf(j) = w /\ job[j].state \in Occupying /\ job[j].task = Holder[w]

\* The unique index of the slot makes the holder unambiguous.
LEMMA HolderRead == Inv => HolderReads
  <1> SUFFICES ASSUME Inv, NEW w \in Work
               PROVE  /\ \A j \in Job : WorkOf(j) = w /\ job[j].state \in Occupying => Holder[w] = job[j].task
                      /\ Holder[w] # None => \E j \in Job :
                            WorkOf(j) = w /\ job[j].state \in Occupying /\ job[j].task = Holder[w]
    BY DEF HolderReads
  <1>1. ASSUME NEW j \in Job, WorkOf(j) = w, job[j].state \in Occupying
        PROVE  HolderOf(w) = {job[j].task}
    BY <1>1 DEF HolderOf, Inv, SlotUnique
  <1>2. \A j \in Job : WorkOf(j) = w /\ job[j].state \in Occupying => Holder[w] = job[j].task
    <2> SUFFICES ASSUME NEW j \in Job, WorkOf(j) = w, job[j].state \in Occupying
                 PROVE  Holder[w] = job[j].task
      OBVIOUS
    <2>1. HolderOf(w) = {job[j].task}
      BY <1>1
    <2> QED BY <2>1 DEF Holder
  <1>3. (\A j \in Job : ~(WorkOf(j) = w /\ job[j].state \in Occupying)) => HolderOf(w) = {}
    BY DEF HolderOf
  <1>4. HolderOf(w) = {} => Holder[w] = None
    BY DEF Holder
  <1> QED BY <1>2, <1>3, <1>4

\* Every row stays beside its work, and an occupying row has a task of its own.
LEMMA OccupyingTask ==
    Inv => \A j \in Job : job[j].state \in Occupying => job[j].task \in TaskId /\ task[job[j].task].job = j
  BY DEF Inv, RowsLinked, JobLinked, Occupying

\* As long as something produces for a task, its row occupies the slot.
ProducersOccupy == \A t \in TaskId : ProducesFor(t) => job[task[t].job].state \in Occupying

\* The same, as a state predicate.
LEMMA ProducersAreHolders == Whole /\ WorkerRuns /\ LoadingHolds => ProducersOccupy
  BY ProducerRow DEF ProducersOccupy, Occupying, JobState, Terminal

\* The same before and after a step.
Framed ==
    /\ Whole /\ Whole' /\ Move
    /\ WorkerRuns /\ LoadingHolds /\ WorkerRuns' /\ LoadingHolds'
    /\ HolderReads /\ HolderReads' /\ ProducersOccupy /\ ProducersOccupy'
    /\ \A t : Producing(t) <=> ProducesFor(t)
    /\ \A t : Producing(t)' <=> ProducesFor(t)'

\* All this holds around every step.
LEMMA StepFramed ==
    ASSUME ~DispatchStall, Whole, [Next]_vars
    PROVE  Framed
  <1>1. Whole' /\ Move
    BY NextMoves
  <1>2. Inv /\ Inv'
    BY <1>1 DEF Whole
  <1>3. HolderReads /\ HolderReads'
    <2>1. Inv' => HolderReads'
      BY HolderRead, PTL
    <2> QED BY <1>2, <2>1, HolderRead
  <1>4. WorkerRuns /\ LoadingHolds /\ WorkerRuns' /\ LoadingHolds'
    BY <1>1 DEF Whole, Promptly
  <1>5. \A t : Producing(t)' <=> ProducesFor(t)'
    BY DEF Producing, ProducesFor, Makes, Polls, Unresolved, Loading, Remote
  <1>6. ProducersOccupy /\ ProducersOccupy'
    <2>1. Whole' /\ WorkerRuns' /\ LoadingHolds' => ProducersOccupy'
      BY ProducersAreHolders, PTL
    <2> QED BY <1>1, <1>4, <2>1, ProducersAreHolders
  <1> QED BY <1>1, <1>3, <1>4, <1>5, <1>6, ProducingMeans DEF Framed

\* A work whose rows stay as they are keeps its holder.
LEMMA HolderStays ==
    ASSUME Framed, NEW w \in Work, \A i \in Job : WorkOf(i) = w => RowKept(i)
    PROVE  Holder'[w] = Holder[w]
  <1> USE DEF Framed, HolderReads, RowKept
  <1>1. CASE Holder[w] # None
    BY <1>1
  <1>2. CASE Holder[w] = None /\ Holder'[w] # None
    <2>1. PICK i \in Job : WorkOf(i) = w /\ job'[i].state \in Occupying
      BY <1>2
    <2>2. Holder[w] = job[i].task /\ job[i].task \in TaskId
      BY <2>1, OccupyingTask DEF Whole
    <2> QED BY <1>2, <2>2, ConstantsAssumption
  <1> QED BY <1>1, <1>2

\* Executions that were there keep their task.
LEMMA ExecutionsStay ==
    ASSUME Framed
    PROVE  /\ worker.pc # "idle" => attempt'[worker.attempt].task = TaskOf(worker)
           /\ poller.pc # "idle" => attempt'[poller.attempt].task = TaskOf(poller)
           /\ \A a \in AttemptId : Loading(a) => attempt'[a].task = attempt[a].task
  <1>1. Transferred
    BY DEF Framed, Move
  <1>2. \A a \in AttemptId : Loading(a) => attempt[a].status # "NONE"
    BY DEF Framed, Whole, Inv, RowsLinked, AttemptLinked, NoAttempt, Loading, Remote
  <1> QED BY <1>1, <1>2, WorkerKnown, PollerKnown DEF Framed, Transferred, TaskOf

\* Where nothing starts, nothing new produces.
LEMMA NothingStarts ==
    ASSUME Framed, WorkerRests, PollerRests, NEW t \in TaskId, ProducesFor(t)'
    PROVE  ProducesFor(t)
  <1>1. Move /\ Transferred
    BY DEF Framed, Move
  <1>2. CASE worker'.pc \in Makes /\ TaskOf(worker)' = t
    <2>1. worker.pc \in Makes
      BY <1>2 DEF WorkerRests
    <2>2. worker'.attempt = worker.attempt
      BY <1>1, <1>2, <2>1 DEF Move, WorkerMoves, WorkerClaims, WorkerProceeds, Makes
    <2>3. attempt'[worker.attempt].task = TaskOf(worker)
      BY <2>1, ExecutionsStay DEF Makes
    <2> QED BY <1>2, <2>1, <2>2, <2>3 DEF TaskOf, ProducesFor
  <1>3. CASE poller'.pc \in Polls /\ TaskOf(poller)' = t
    <2>1. poller.pc \in Polls
      BY <1>3 DEF PollerRests
    <2>2. poller'.attempt = poller.attempt
      BY <1>1, <1>3, <2>1 DEF Move, PollerMoves, PollerReads, PollerProceeds, Polls
    <2>3. attempt'[poller.attempt].task = TaskOf(poller)
      BY <2>1, ExecutionsStay DEF Polls
    <2> QED BY <1>3, <2>1, <2>2, <2>3 DEF TaskOf, ProducesFor
  <1>4. CASE \E a \in AttemptId : attempt'[a].task = t /\ Loading(a)'
    <2>1. PICK a \in AttemptId : attempt'[a].task = t /\ Loading(a)'
      BY <1>4
    <2>2. CASE Loading(a)
      BY <2>1, <2>2, ExecutionsStay DEF ProducesFor
    <2>3. CASE Intends(a)
      <3>1. worker.pc \in Makes /\ a = worker.attempt
        BY <2>3 DEF Intends, Makes
      <3>2. attempt'[worker.attempt].task = TaskOf(worker)
        BY <3>1, ExecutionsStay DEF Makes
      <3> QED BY <2>1, <3>1, <3>2 DEF ProducesFor
    <2> QED BY <1>1, <2>1, <2>2, <2>3 DEF Transferred
  <1> QED BY <1>2, <1>3, <1>4 DEF ProducesFor

\* What produces for a task that is spared goes on.
LEMMA SparedGoOn ==
    ASSUME Framed, NEW u, Spares(u), NEW t \in TaskId, t # u, ProducesFor(t)
    PROVE  ProducesFor(t)'
  <1>1. CASE worker.pc \in Makes /\ TaskOf(worker) = t
    <2>1. worker' = worker
      BY <1>1 DEF Spares
    <2>2. attempt'[worker.attempt].task = t
      BY <1>1, ExecutionsStay DEF Makes
    <2> QED BY <1>1, <2>1, <2>2 DEF ProducesFor, TaskOf
  <1>2. CASE poller.pc \in Polls /\ TaskOf(poller) = t
    <2>1. poller' = poller
      BY <1>2 DEF Spares
    <2>2. attempt'[poller.attempt].task = t
      BY <1>2, ExecutionsStay DEF Polls
    <2> QED BY <1>2, <2>1, <2>2 DEF ProducesFor, TaskOf
  <1>3. CASE \E a \in AttemptId : attempt[a].task = t /\ Loading(a)
    <2>1. PICK a \in AttemptId : attempt[a].task = t /\ Loading(a)
      BY <1>3
    <2>2. Loading(a)' /\ attempt'[a].task = t
      BY <2>1, ExecutionsStay DEF Spares
    <2> QED BY <2>2 DEF ProducesFor
  <1> QED BY <1>1, <1>2, <1>3 DEF ProducesFor

\* What a step that starts nothing and spares the others leaves of the producers.
LEMMA ProducersLeft ==
    ASSUME Framed, NEW u, Spares(u)
    PROVE  Producers' \in SUBSET Producers /\ Producers \ {u} \in SUBSET Producers'
  <1>1. \A t \in TaskId : ProducesFor(t)' => ProducesFor(t)
    BY NothingStarts DEF Spares
  <1>2. \A t \in TaskId \ {u} : ProducesFor(t) => ProducesFor(t)'
    BY SparedGoOn
  <1> QED BY <1>1, <1>2 DEF Producers, Framed

\* The slots as the refinement reads them.
LEMMA SlotSteps ==
    /\ Slot!End <=> Producers' \in SUBSET Producers /\ Holder' = Holder
    /\ \A w : Slot!Start(w) <=>
          Holder[w] # None /\ Producers' = Producers \union {Holder[w]} /\ Holder' = Holder
    /\ \A w : Slot!Release(w) <=>
          Holder[w] # None /\ Holder' = [Holder EXCEPT ![w] = None] /\ Producers' = Producers \ {Holder[w]}
    /\ \A w, t : Slot!Take(w, t) <=>
          /\ Holder[w] = None /\ t \notin Producers /\ \A v \in Work : Holder[v] # t
          /\ Holder' = [Holder EXCEPT ![w] = t] /\ Producers' = Producers
    /\ \A w, t : Slot!HandOver(w, t) <=>
          /\ Holder[w] # None /\ Holder[w] \notin Producers /\ t \notin Producers /\ \A v \in Work : Holder[v] # t
          /\ Holder' = [Holder EXCEPT ![w] = t] /\ Producers' = Producers
  BY DEF Slot!End, Slot!Start, Slot!Release, Slot!Take, Slot!HandOver, Holder, Producers

\* Only the slot of the work whose rows change changes its holder.
LEMMA HolderWritten ==
    ASSUME Framed, NEW w \in Work, \A i \in Job : WorkOf(i) # w => RowKept(i)
    PROVE  Holder' = [Holder EXCEPT ![w] = Holder'[w]]
  <1>1. \A v \in Work \ {w} : Holder'[v] = Holder[v]
    BY HolderStays
  <1>2. Holder = [v \in Work |-> Holder[v]] /\ Holder' = [v \in Work |-> Holder'[v]]
    BY DEF Holder
  <1> QED BY <1>1, <1>2

\* Nothing starts and no row moves: executions and transfers may end.
LEMMA EndStep ==
    ASSUME Framed, \A i \in Job : RowKept(i), WorkerRests, PollerRests
    PROVE  Slot!Next
  <1>1. Holder' = Holder
    <2>1. \A v \in Work : Holder'[v] = Holder[v]
      BY HolderStays
    <2> QED BY <2>1 DEF Holder
  <1>2. \A t \in TaskId : ProducesFor(t)' => ProducesFor(t)
    BY NothingStarts
  <1>3. Producers' \in SUBSET Producers
    BY <1>2 DEF Producers, Framed
  <1>4. Slot!End
    BY <1>1, <1>3, SlotSteps
  <1> QED BY <1>4 DEF Slot!Next

\* One row changes its state: it keeps its slot, gives it up, takes it, or stays without.
LEMMA RowStep ==
    ASSUME Framed, NEW j \in Job, RowGoes(j)
    PROVE  Slot!Next
  <1> PICK w : w = WorkOf(j)
    OBVIOUS
  <1> PICK t : t = job[j].task
    OBVIOUS
  <1>1. /\ job[j].state # "NONE" /\ job'[j].task = t /\ \A i \in Job \ {j} : RowKept(i)
        /\ Spares(t)
    BY DEF RowGoes
  <1>2. w \in Work
    BY DEF WorkOf, Job
  <1>3. Inv /\ Inv' /\ Owned /\ HolderReads /\ HolderReads'
    BY DEF Framed, Whole, Always
  <1>4. t \in TaskId /\ task[t].job = j /\ task[t].status = job[j].state
    BY <1>1, <1>3, TaskOfRow
  <1>5. job'[j].state # "NONE" /\ task'[t].job = j
    BY <1>1, <1>3, <1>4, ConstantsAssumption DEF Inv, RowsLinked, JobLinked
  <1>6. Holder' = [Holder EXCEPT ![w] = Holder'[w]]
    BY <1>1, <1>2, HolderWritten
  <1>7. Producers' \in SUBSET Producers /\ Producers \ {t} \in SUBSET Producers'
    BY <1>1, ProducersLeft
  <1>8. job[j].state \notin Occupying => t \notin Producers
    <2>1. ASSUME ProducesFor(t) PROVE job[j].state \in Occupying
      BY <1>4, <2>1 DEF Framed, ProducersOccupy
    <2> QED BY <2>1 DEF Producers, Framed
  <1>9. job'[j].state \notin Occupying => t \notin Producers'
    <2>1. ASSUME ProducesFor(t)' PROVE job'[task'[t].job].state \in Occupying
      BY <1>4, <2>1 DEF Framed, ProducersOccupy
    <2> QED BY <1>5, <2>1 DEF Producers, Framed
  <1>10. CASE job[j].state \in Occupying /\ job'[j].state \in Occupying
    <2>1. Holder[w] = t /\ Holder'[w] = t
      BY <1>1, <1>2, <1>3, <1>10 DEF HolderReads
    <2>2. Holder' = Holder
      BY <1>2, <1>6, <2>1 DEF Holder
    <2> QED BY <1>7, <2>2, SlotSteps DEF Slot!Next
  <1>11. CASE job[j].state \in Occupying /\ job'[j].state \notin Occupying
    <2>1. Holder[w] = t /\ t # None
      BY <1>2, <1>3, <1>4, <1>11, ConstantsAssumption DEF HolderReads
    <2>2. Holder'[w] = None
      <3>1. \A i \in Job : WorkOf(i) = w => job'[i].state \notin Occupying
        BY <1>1, <1>3, <1>11 DEF RowKept, Inv, SlotUnique
      <3> QED BY <1>2, <1>3, <3>1 DEF HolderReads
    <2>3. Slot!Release(w)
      BY <1>6, <1>7, <1>9, <1>11, <2>1, <2>2, SlotSteps
    <2> QED BY <1>2, <2>3 DEF Slot!Next
  <1>12. CASE job[j].state \notin Occupying /\ job'[j].state \in Occupying
    <2>1. Holder'[w] = t
      BY <1>1, <1>2, <1>3, <1>12 DEF HolderReads
    <2>2. Holder[w] = None
      <3>1. \A i \in Job : WorkOf(i) = w => job[i].state \notin Occupying
        BY <1>1, <1>3, <1>12 DEF RowKept, Inv, SlotUnique
      <3> QED BY <1>2, <1>3, <3>1 DEF HolderReads
    <2>3. ASSUME NEW v \in Work, Holder[v] = t PROVE FALSE
      <3>1. PICK i \in Job : job[i].state \in Occupying /\ job[i].task = t
        BY <1>3, <1>4, <2>3, ConstantsAssumption DEF HolderReads
      <3> QED BY <1>3, <1>4, <1>12, <3>1, OccupyingTask
    <2>4. Producers' = Producers
      BY <1>7, <1>8, <1>12
    <2>5. Slot!Take(w, t)
      BY <1>6, <1>8, <1>12, <2>1, <2>2, <2>3, <2>4, SlotSteps
    <2> QED BY <1>2, <1>4, <2>5 DEF Slot!Next
  <1>13. CASE job[j].state \notin Occupying /\ job'[j].state \notin Occupying
    <2>1. Holder'[w] = Holder[w]
      <3>1. Holder[w] # None \/ Holder'[w] # None => \E i \in Job \ {j} : 
               WorkOf(i) = w /\ job[i].state \in Occupying /\ job'[i].state \in Occupying /\ job'[i].task = job[i].task
        BY <1>1, <1>2, <1>3, <1>13 DEF HolderReads, RowKept
      <3> QED BY <1>2, <1>3, <3>1 DEF HolderReads
    <2>2. Holder' = Holder
      BY <1>2, <1>6, <2>1 DEF Holder
    <2> QED BY <1>7, <2>2, SlotSteps DEF Slot!Next
  <1> QED BY <1>10, <1>11, <1>12, <1>13

\* A new task takes a free slot, or the slot of a task whose stop is confirmed.
LEMMA RenewStep ==
    ASSUME Framed, NEW j \in Job, NEW k \in Job, NEW u \in TaskId, RowRenews(j, k, u)
    PROVE  Slot!Next
  <1> PICK w : w = WorkOf(j)
    OBVIOUS
  <1> PICK t : t = job[j].task
    OBVIOUS
  <1>1. /\ u \in UnusedTask /\ job'[k].task = u /\ job'[k].state = "PENDING" /\ WorkOf(k) = w
        /\ \A i \in Job \ {j, k} : RowKept(i)
        /\ Spares(u)
    BY DEF RowRenews
  <1>2. w \in Work
    BY DEF WorkOf, Job
  <1>3. Inv /\ Inv' /\ Owned /\ HolderReads /\ HolderReads'
    BY DEF Framed, Whole, Always
  <1>4. task[u].status = "NONE"
    BY <1>1 DEF UnusedTask
  <1>5. u \notin Producers
    <2>1. ~ProducesFor(u)
      BY <1>4, ProducerRow DEF Framed
    <2> QED BY <2>1 DEF Producers, Framed
  <1>6. Producers' = Producers
    <2>1. Producers' \in SUBSET Producers /\ Producers \ {u} \in SUBSET Producers'
      BY <1>1, ProducersLeft
    <2> QED BY <1>5, <2>1
  <1>7. Holder' = [Holder EXCEPT ![w] = u]
    <2>1. \A i \in Job : WorkOf(i) # w => RowKept(i)
      BY <1>1
    <2>2. Holder' = [Holder EXCEPT ![w] = Holder'[w]]
      BY <1>2, <2>1, HolderWritten
    <2>3. Holder'[w] = u
      BY <1>1, <1>2, <1>3 DEF HolderReads, Occupying, JobState, Terminal
    <2> QED BY <2>2, <2>3
  <1>8. ASSUME NEW v \in Work, Holder[v] = u PROVE FALSE
    <2>1. PICK i \in Job : job[i].state \in Occupying /\ job[i].task = u
      BY <1>3, <1>8, ConstantsAssumption DEF HolderReads
    <2> QED BY <1>3, <1>4, <2>1, TaskOfRow DEF Occupying
  <1>9. CASE job[j].state \notin Occupying /\ SlotFree(j)
    <2>1. \A i \in Job : WorkOf(i) = w => job[i].state \notin Occupying
      BY <1>9 DEF SlotFree
    <2>2. Holder[w] = None
      BY <1>2, <1>3, <2>1 DEF HolderReads
    <2>3. Slot!Take(w, u)
      BY <1>5, <1>6, <1>7, <1>8, <2>2, SlotSteps
    <2> QED BY <1>2, <2>3 DEF Slot!Next
  <1>10. CASE job[j].state = "STOPPING" /\ stopper.pc \in {"prepare", "confirmed"} /\ stopper.op.task = t
    <2>1. t \in TaskId
      BY <1>3, <1>10, TaskOfRow
    <2>2. Holder[w] = t /\ t # None
      BY <1>2, <1>3, <1>10, <2>1, ConstantsAssumption DEF HolderReads, Occupying, JobState, Terminal
    <2>3. StopperClears /\ StopperConfirms
      BY DEF Framed, Whole, Always
    <2>4. NothingRemote(t)
      BY <1>10, <2>3 DEF StopperConfirms
    <2>5. ~ProducesFor(t)
      BY <1>10, <2>3, <2>4 DEF StopperClears, Past, ProducesFor, NothingRemote, Loading
    <2>6. Holder[w] # None /\ Holder[w] \notin Producers
      <3>1. t \notin Producers
        BY <2>5 DEF Producers, Framed
      <3> QED BY <2>2, <3>1
    <2>7. \A v \in Work : Holder[v] # u
      BY <1>8
    <2>8. Slot!HandOver(w, u)
      BY <1>5, <1>6, <1>7, <2>6, <2>7, SlotSteps
    <2> QED BY <1>2, <2>8 DEF Slot!Next
  <1> QED BY <1>9, <1>10 DEF RowRenews

\* Only the holder of a slot starts to produce.
LEMMA StartStep ==
    ASSUME Framed, SlotStarts
    PROVE  Slot!Next
  <1>1. UNCHANGED <<job, task, attempt>>
    BY DEF SlotStarts, tables
  <1>2. Holder' = Holder
    <2>1. \A v \in Work : Holder'[v] = Holder[v]
      BY <1>1, HolderStays DEF RowKept
    <2> QED BY <2>1 DEF Holder
  <1>3. ASSUME NEW t \in TaskId, Current(t), task[t].status \in {"DOWNLOADING", "WAITING_TORRENT"},
               \A x \in TaskId : ProducesFor(x)' <=> ProducesFor(x) \/ x = t
        PROVE  Slot!Next
    <2>1. Inv /\ Owned /\ HolderReads
      BY DEF Framed, Whole, Always
    <2> PICK j : j = task[t].job
      OBVIOUS
    <2>2. j \in Job /\ job[j].task = t /\ job[j].state = task[t].status
      BY <1>3, <2>1, RowOfCurrent
    <2>3. WorkOf(j) \in Work
      BY <2>2 DEF WorkOf, Job
    <2>4. Holder[WorkOf(j)] = t /\ t # None
      BY <1>3, <2>1, <2>2, <2>3, ConstantsAssumption DEF HolderReads, Occupying, JobState, Terminal
    <2>5. Producers' = Producers \union {t}
      BY <1>3 DEF Producers, Framed
    <2>6. Slot!Start(WorkOf(j))
      BY <1>2, <2>4, <2>5, SlotSteps
    <2> QED BY <2>3, <2>6 DEF Slot!Next
  <1>4. \A a \in AttemptId : Loading(a)' <=> Loading(a)
    BY <1>1 DEF Loading, Remote
  <1>5. CASE /\ worker.pc = "registered" /\ worker'.pc = "running" /\ Valid(worker)
             /\ worker'.attempt = worker.attempt /\ UNCHANGED poller
    <2> PICK t : t = TaskOf(worker)
      OBVIOUS
    <2>1. t \in TaskId /\ Current(t)
      BY <1>5, WorkerKnown, TaskOfAttempt DEF Framed, Whole, Always, Valid, TaskOf, Current
    <2>2. task[t].status = "DOWNLOADING"
      BY <1>5 DEF Framed, WorkerRuns, Early
    <2>3. TaskOf(worker)' = t /\ TaskOf(poller)' = TaskOf(poller)
      BY <1>1, <1>5 DEF TaskOf
    <2>4. \A x \in TaskId : ProducesFor(x)' <=> ProducesFor(x) \/ x = t
      BY <1>1, <1>4, <1>5, <2>3 DEF ProducesFor, Makes
    <2> QED BY <1>3, <2>1, <2>2, <2>4
  <1>6. CASE /\ poller.pc = "read" /\ poller'.pc = "polling" /\ Valid(poller)
             /\ poller'.attempt = poller.attempt /\ UNCHANGED worker
    <2> PICK t : t = TaskOf(poller)
      OBVIOUS
    <2>1. t \in TaskId /\ Current(t)
      BY <1>6, PollerKnown, TaskOfAttempt DEF Framed, Whole, Always, Valid, TaskOf, Current
    <2>2. task[t].status = "WAITING_TORRENT"
      BY <1>6 DEF Framed, Whole, Always, PollerSees, Looks
    <2>3. TaskOf(poller)' = t /\ TaskOf(worker)' = TaskOf(worker)
      BY <1>1, <1>6 DEF TaskOf
    <2>4. \A x \in TaskId : ProducesFor(x)' <=> ProducesFor(x) \/ x = t
      BY <1>1, <1>4, <1>6, <2>3 DEF ProducesFor, Polls
    <2> QED BY <1>3, <2>1, <2>2, <2>4
  <1> QED BY <1>5, <1>6 DEF SlotStarts

\* Every step of the queue is a step of the slots.
LEMMA SlotNext ==
    ASSUME ~DispatchStall, Whole, [Next]_vars
    PROVE  Slot!Next
  <1>1. Framed /\ SlotsMove
    BY StepFramed DEF Framed, Move
  <1> QED BY <1>1, EndStep, RowStep, RenewStep, StartStep DEF SlotsMove

\* An empty queue holds no slot.
LEMMA SlotInit == Init => Slot!Init
  <1> SUFFICES ASSUME Init PROVE Slot!Init
    OBVIOUS
  <1>1. \A w \in Work : HolderOf(w) = {}
    BY DEF Init, HolderOf, NoJob, Occupying
  <1>2. \A t \in TaskId : ~Producing(t)
    BY DEF Init, Producing, Idle, NoAttempt, Unresolved
  <1>3. Holder = [w \in Work |-> None] /\ Producers = {}
    BY <1>1, <1>2 DEF Holder, Producers
  <1> QED BY <1>3 DEF Slot!Init, Holder, Producers

\* The queue implements WorkSlot: a slot is taken only when it is free, only its holder
\* starts to produce, and it is given up or handed over only when nothing produces for
\* the holder any more.
THEOREM QueueImplementsSlots ==
    ASSUME ~DispatchStall
    PROVE  Spec => SlotSpec
  <1>1. Init => Slot!Init
    BY SlotInit
  <1>2. Whole /\ [Next]_vars => [Slot!Next]_(Slot!vars)
    BY SlotNext
  <1> QED BY <1>1, <1>2, WholeInvariance, PTL DEF Spec, SlotSpec, Slot!Spec
=============================================================================
