--------------------------- MODULE DownloadQueue ---------------------------
(***************************************************************************)
(* The durable download queue of EhBot: the queue's tables, the worker     *)
(* that runs one attempt at a time, the torrent poller, the operation      *)
(* processor that confirms stops, the administrator's commands, and loss   *)
(* of the process at any point.                                            *)
(*                                                                         *)
(* Every action is one SQLite transaction or one uninterrupted stretch of  *)
(* the asyncio loop; the actors interleave between them.                   *)
(***************************************************************************)
EXTENDS QueueRecords, FiniteSets

CONSTANT DispatchStall  \* a claim may outlive its lease before its coroutine starts

ASSUME DispatchStallAssumption == DispatchStall \in BOOLEAN

VARIABLES
    job,       \* download_jobs
    task,      \* queue_tasks
    attempt,   \* queue_attempts with the queue_remote_resources row of each
    artifact,  \* artifacts: the attempt that produced the job's current archive
    ops,       \* queue_operations that are not finished
    leased,    \* attempts whose lease this process holds and has not let expire
    up,        \* the backend process owns the worker lock
    worker,    \* the execution of DownloadService._run_worker
    poller,    \* the execution of TorrentService._run_poller
    stopper    \* the operation DownloadService.process_operations is working on

vars == <<job, task, attempt, artifact, ops, leased, up, worker, poller, stopper>>
tables == <<job, task, attempt, artifact, ops, leased>>

-----------------------------------------------------------------------------
(* Executions. *)

WorkerPc == {"idle", "claimed", "registered", "running", "pushing", "pushed",
             "artifact", "failing", "completed", "exiting"}
PollerPc == {"idle", "read", "polling", "delivered", "cleanup", "detached", "failing"}
StopperPc == {"idle", "local", "remote", "prepare", "confirmed"}

Idle == [pc |-> "idle", attempt |-> None, generation |-> 0, cancelled |-> FALSE]
NoStop == [pc |-> "idle", op |-> None]

Execution(pcs) == [pc : pcs, attempt : AttemptId \union {None}, generation : Nat, cancelled : BOOLEAN]

TaskOf(x) == attempt[x.attempt].task
JobOf(x) == task[TaskOf(x)].job

\* _active_attempts: a claimed execution is not registered until its coroutine is created.
WorkerHandleNotPushing(t) == worker.pc \notin {"idle", "claimed", "pushing"} /\ TaskOf(worker) = t
WorkerHandle(t) == worker.pc \notin {"idle", "claimed"} /\ TaskOf(worker) = t
PollerHandle(t) == poller.pc \notin {"idle", "read", "failing"} /\ TaskOf(poller) = t
\* WorkerSession.active
Active(a) == worker.pc \notin {"idle", "claimed"} /\ worker.attempt = a

\* Execution.check, run inside every transaction an execution commits.
ValidWithoutGeneration(x) ==
    LET t == TaskOf(x) IN
    /\ task[t].attempt = x.attempt
    /\ job[task[t].job].task = t
Valid(x) ==
    LET t == TaskOf(x) IN
    /\ task[t].attempt = x.attempt
    /\ task[t].generation = x.generation
    /\ task[t].status \notin {"STOPPING", "CANCELLED"}
    /\ job[task[t].job].task = t

-----------------------------------------------------------------------------
(* What the transactions read. *)

Unresolved(t) == {a \in AttemptId : attempt[a].task = t /\ attempt[a].resource \in {"INTENDED", "REGISTERED"}}

RemoteTasksDownloading ==
    {t \in TaskId : \E j \in Job : IsTorrent(j) /\ job[j].task = t /\ job[j].state = "DOWNLOADING"}
\* budgets.remote_available counts these; the limit REMOTE_INFLIGHT is one.
RemoteTasks ==
    {t \in TaskId :
        \/ \E a \in Unresolved(t) : ~attempt[a].payload
        \/ \E j \in Job : /\ IsTorrent(j) /\ job[j].task = t
                          /\ job[j].state \in {"DOWNLOADING", "WAITING_TORRENT", "STOPPING"}}

\* budgets.local_available
LocalAvailable ==
    /\ \A j \in Job : job[j].state = "DOWNLOADING" =>
          /\ ~Active(task[job[j].task].attempt)
          /\ task[job[j].task].attempt \notin leased
    /\ \A a \in AttemptId : Active(a) => task[attempt[a].task].status # "STOPPING"

NoSlotCheck(j) == TRUE
\* The unique index queue_download_slot.
SlotFree(j) == \A i \in Job \ {j} : WorkOf(i) = WorkOf(j) => job[i].state \notin Occupying

\* QueueControl._operation refuses a second unfinished operation of a task.
HasOperation(t) == \E o \in ops : o.task = t
AttemptOf(j) == task[job[j].task].attempt
UnusedTask == {t \in TaskId : task[t].status = "NONE"}
UnusedAttempt == {a \in AttemptId : attempt[a].status = "NONE"}

NeedsRemoteStopHashOnly(j) == IsTorrent(j) /\ job[j].details.hash
\* A torrent that may still run remotely has to be stopped before it is queued again.
NeedsRemoteStop(j) == IsTorrent(j) /\ (job[j].details.hash \/ Unresolved(job[j].task) # {})

-----------------------------------------------------------------------------
(* What the transactions write. *)

\* UPDATE download_jobs SET state = s on a row that keeps its task identity: the
\* mirrored task must get past the slot's unique index.
SetState(j, s) ==
    /\ s \in Occupying => SlotFree(j)
    /\ task' = [task EXCEPT ![job[j].task] = Mirror(@, s)]
    /\ attempt' = IF AttemptOf(j) = None THEN attempt
                  ELSE [attempt EXCEPT ![AttemptOf(j)] = Record(@, s)]
    /\ leased' = leased \ {AttemptOf(j)}

\* The same for the failure that turns into STOPPING inside one transaction.
SetFailedThenStopping(j) ==
    /\ SlotFree(j)
    /\ task' = [task EXCEPT ![job[j].task] = Mirror(Mirror(@, "FAILED"), "STOPPING")]
    /\ attempt' = [attempt EXCEPT ![AttemptOf(j)] = Record(@, "FAILED")]
    /\ leased' = leased \ {AttemptOf(j)}

NewOperationAfterStop(j, action, target, exhausted, interrupt) ==
    [task |-> job[j].task, attempt |-> AttemptOf(j), generation |-> task[job[j].task].generation + 1, job |-> j,
     action |-> action, target |-> target, exhausted |-> exhausted, interrupt |-> interrupt]
\* QueueControl._operation, called before the row becomes STOPPING.
NewOperation(j, action, target, exhausted, interrupt) ==
    [task |-> job[j].task, attempt |-> AttemptOf(j), generation |-> task[job[j].task].generation, job |-> j,
     action |-> action, target |-> target, exhausted |-> exhausted, interrupt |-> interrupt]

RequeueUnlinked(j, t, details, recovery) ==
    job' = [job EXCEPT ![j] = [state |-> "PENDING", task |-> @.task, details |-> details,
                               recovery |-> recovery, permanent |-> FALSE]]
\* Triggers queue_job_insert and queue_job_restart: row j continues as the new task t.
Requeue(j, t, details, recovery) ==
    job' = [job EXCEPT ![j] = [state |-> "PENDING", task |-> t, details |-> details,
                               recovery |-> recovery, permanent |-> FALSE]]
NextGeneration(j) == IF job[j].state = "NONE" THEN 1 ELSE task[job[j].task].generation + 1

\* artifacts keeps one current archive per job: a later one replaces it.
SaveArtifactOnce(j, a) == artifact' = IF artifact[j] = None THEN [artifact EXCEPT ![j] = a] ELSE artifact
SaveArtifact(j, a) == artifact' = [artifact EXCEPT ![j] = a]

\* _apply strips the account choice of the finished round from the saved details.
StripAccount(j, d) ==
    [d EXCEPT !.replaced = 0, !.account = IF j[2] \in Pooled \ BoundAtEnqueue THEN FALSE ELSE @]

-----------------------------------------------------------------------------
(* Enqueueing and the administrator's commands. *)

\* _enqueue_sync: a new row, or a finished row revived as a new task.
Enqueue(j) ==
    /\ up
    /\ SlotFree(j)
    /\ \/ job[j].state = "NONE"
       \/ job[j].state \in Terminal /\ RestartAllowed(j, job[j])
    /\ \E t \in UnusedTask :
          /\ Requeue(j, t, InitialDetails(j), job[j].recovery)
          /\ task' = [task EXCEPT ![t] = FreshTask(j, NextGeneration(j))]
    /\ UNCHANGED <<attempt, artifact, ops, leased, up, worker, poller, stopper>>

Pause(j) ==
    /\ up
    /\ job[j].state = "PENDING"
    /\ job' = [job EXCEPT ![j].state = "PAUSED", ![j].permanent = FALSE]
    /\ SetState(j, "PAUSED")
    /\ UNCHANGED <<artifact, ops, up, worker, poller, stopper>>

Resume(j) ==
    /\ up
    /\ job[j].state = "PAUSED"
    /\ RestartAllowed(j, job[j])
    /\ job' = [job EXCEPT ![j].state = "PENDING", ![j].permanent = FALSE]
    /\ SetState(j, "PENDING")
    /\ UNCHANGED <<artifact, ops, up, worker, poller, stopper>>

\* retry and restart of a row with nothing left to stop remotely.
RetryQueued(j) ==
    /\ up
    /\ job[j].state \in Terminal \union {"PAUSED"}
    /\ ~job[j].permanent
    /\ ~NeedsRemoteStop(j)
    /\ SlotFree(j)
    /\ RestartAllowed(j, job[j])
    /\ IF job[j].state = "PAUSED"
       THEN /\ Requeue(j, job[j].task, StripAccount(j, job[j].details), 0)
            /\ SetState(j, "PENDING")
       ELSE /\ \E t \in UnusedTask :
                  /\ Requeue(j, t, StripAccount(j, job[j].details), 0)
                  /\ task' = [task EXCEPT ![t] = FreshTask(j, NextGeneration(j))]
            /\ UNCHANGED <<attempt, leased>>
    /\ UNCHANGED <<artifact, ops, up, worker, poller, stopper>>

\* retry and restart of a torrent that may still run remotely: stop it first.
RetryBarrier(j) ==
    /\ up
    /\ job[j].state \in Terminal \union {"PAUSED"}
    /\ ~job[j].permanent
    /\ NeedsRemoteStop(j)
    /\ task[job[j].task].generation < MaxGeneration
    /\ ~HasOperation(job[j].task)
    /\ ops' = ops \union {NewOperation(j, "retry", None, FALSE, TRUE)}
    /\ job' = [job EXCEPT ![j] = [job[j] EXCEPT !.state = "STOPPING", !.recovery = 0, !.permanent = FALSE,
                                                 !.details = StripAccount(j, job[j].details)]]
    /\ SetState(j, "STOPPING")
    /\ UNCHANGED <<artifact, up, worker, poller, stopper>>

\* cancel of queued work: there is no execution to stop.
CancelQueued(j) ==
    /\ up
    /\ job[j].state \in {"PENDING", "PAUSED"}
    /\ job' = [job EXCEPT ![j].state = "CANCELLED"]
    /\ SetState(j, "CANCELLED")
    /\ UNCHANGED <<artifact, ops, up, worker, poller, stopper>>

\* cancel of anything that ran: keep the slot until the stop is confirmed.
CancelBarrier(j) ==
    /\ up
    /\ job[j].state \in {"DOWNLOADING", "WAITING_TORRENT", "FAILED"}
    /\ ~HasOperation(job[j].task)
    /\ ops' = ops \union {NewOperation(j, "cancel", None, FALSE, TRUE)}
    /\ job' = [job EXCEPT ![j].state = "STOPPING"]
    /\ SetState(j, "STOPPING")
    /\ UNCHANGED <<artifact, up, worker, poller, stopper>>

\* cancel while an account replacement is pending takes that operation over.
CancelReplacement(j) ==
    /\ up
    /\ job[j].state = "STOPPING"
    /\ \E o \in ops :
          /\ o.task = job[j].task
          /\ o.action = "replace-account"
          /\ ops' = (ops \ {o}) \union {[o EXCEPT !.action = "cancel"]}
    /\ UNCHANGED <<job, task, attempt, artifact, leased, up, worker, poller, stopper>>

SwitchSource(j, p) ==
    /\ up
    /\ p \in SwitchTarget
    /\ job[j].state \in {"PENDING", "PAUSED", "DOWNLOADING", "WAITING_TORRENT", "FAILED"}
    /\ ~HasOperation(job[j].task)
    /\ ops' = ops \union {NewOperation(j, "switch-source", p, FALSE, TRUE)}
    /\ job' = [job EXCEPT ![j].state = "STOPPING"]
    /\ SetState(j, "STOPPING")
    /\ UNCHANGED <<artifact, up, worker, poller, stopper>>

StopSeeding(j) ==
    /\ up
    /\ IsTorrent(j)
    /\ job[j].state = "COMPLETED"
    /\ ~HasOperation(job[j].task)
    /\ ops' = ops \union {NewOperation(j, "stop-seeding", None, FALSE, TRUE)}
    /\ UNCHANGED <<job, task, attempt, artifact, leased, up, worker, poller, stopper>>

\* AccountLifecycle._stop_bound_executions: the account of the current attempt
\* is being disabled, so the task is stopped and handed to another account.
\* (Where no replacement is possible it issues cancel or stop-seeding instead.)
ReplaceStoppedAccount(j) ==
    /\ up
    /\ j[2] \in Pooled
    /\ job[j].details.account
    /\ job[j].state \in Occupying
    /\ task[job[j].task].generation < MaxGeneration
    /\ AttemptOf(j) # None
    /\ attempt[AttemptOf(j)].finished => attempt[AttemptOf(j)].status = "INTERRUPTED"
    /\ j[2] \notin BoundAtEnqueue => Unresolved(job[j].task) = {}
    /\ ~HasOperation(job[j].task)
    /\ ops' = ops \union {NewOperation(j, "replace-account", None, FALSE, TRUE)}
    /\ job' = [job EXCEPT ![j].state = "STOPPING", ![j].permanent = FALSE]
    /\ SetState(j, "STOPPING")
    /\ UNCHANGED <<artifact, up, worker, poller, stopper>>

-----------------------------------------------------------------------------
(* The download worker: one attempt at a time. *)

WorkerAt(pc) == up /\ worker.pc = pc
WorkerTo(pc) == worker' = [worker EXCEPT !.pc = pc]
StrangerHoldsRemote(t) == RemoteTasks \ {t} # {}

\* _claim_pending_job_sync.  Which of the claimable rows comes first (priority,
\* then id) is left open.
Claim(j) ==
    /\ WorkerAt("idle")
    /\ job[j].state = "PENDING"
    /\ LocalAvailable
    /\ IsTorrent(j) => RemoteTasks = {}
    /\ \E a \in UnusedAttempt :
          LET t == job[j].task IN
          /\ job' = [job EXCEPT ![j].state = "DOWNLOADING"]
          /\ task' = [task EXCEPT ![t] = [Mirror(@, "DOWNLOADING") EXCEPT !.attempt = a]]
          /\ attempt' = [attempt EXCEPT ![a] = FreshAttempt(t, task[t].generation)]
          /\ leased' = leased \union {a}
          /\ worker' = [pc |-> "claimed", attempt |-> a, generation |-> task[t].generation, cancelled |-> FALSE]
    /\ UNCHANGED <<artifact, ops, up, poller, stopper>>

\* _process_one: the coroutine exists and is entered in _active_attempts.
Register ==
    /\ WorkerAt("claimed")
    /\ WorkerTo("registered")
    /\ UNCHANGED <<tables, up, poller, stopper>>

\* _execute_attempt: the first check of the claimed identity.
Begin ==
    /\ WorkerAt("registered")
    /\ worker' = IF Valid(worker) THEN [worker EXCEPT !.pc = "running"] ELSE Idle
    /\ UNCHANGED <<tables, up, poller, stopper>>

\* _save_account_selection_sync
SelectAccount ==
    /\ WorkerAt("running")
    /\ Valid(worker)
    /\ JobOf(worker)[2] \in Pooled \ BoundAtEnqueue
    /\ job' = [job EXCEPT ![JobOf(worker)].details.account = TRUE]
    /\ UNCHANGED <<task, attempt, artifact, ops, leased, up, worker, poller, stopper>>

\* The archive is registered.  Telegram sources finish the job in the same
\* transaction (_record_artifact_sync); delegated providers leave that to the worker.
RecordArtifact ==
    LET j == JobOf(worker) IN
    /\ WorkerAt("running")
    /\ Valid(worker)
    /\ ~IsTorrent(j)
    /\ j[2] \in Pooled => job[j].details.account
    /\ SaveArtifact(j, worker.attempt)
    /\ IF j[2] \in Delegated
       THEN /\ WorkerTo("artifact")
            /\ UNCHANGED <<job, task, attempt, leased>>
       ELSE /\ WorkerTo("completed")
            /\ job' = [job EXCEPT ![j].state = "COMPLETED", ![j].permanent = FALSE]
            /\ SetState(j, "COMPLETED")
    /\ UNCHANGED <<ops, up, poller, stopper>>

\* _mark_job_completed_sync after a delegated provider returned.
CompleteJob ==
    LET j == JobOf(worker) IN
    /\ WorkerAt("artifact")
    /\ Valid(worker)
    /\ WorkerTo("completed")
    /\ job' = [job EXCEPT ![j].state = "COMPLETED", ![j].permanent = FALSE]
    /\ SetState(j, "COMPLETED")
    /\ UNCHANGED <<artifact, ops, up, poller, stopper>>

\* _push_owned saves the intention before the request becomes visible remotely.
PushIntent ==
    LET t == TaskOf(worker) IN
    /\ WorkerAt("running")
    /\ Valid(worker)
    /\ IsTorrent(JobOf(worker))
    /\ ~StrangerHoldsRemote(t)
    /\ attempt' = [attempt EXCEPT ![worker.attempt].resource = "INTENDED"]
    /\ WorkerTo("pushing")
    /\ UNCHANGED <<job, task, artifact, ops, leased, up, poller, stopper>>

\* The answer of the client, recorded even for an execution revoked meanwhile:
\* refused or already there, registered under our tag, or still unknown.
PushOutcome ==
    /\ WorkerAt("pushing")
    /\ \E answer \in {<<"STOP_CONFIRMED", "failing">>, <<"REGISTERED", "pushed">>,
                      <<"INTENDED", "pushed">>, <<"INTENDED", "failing">>} :
          /\ attempt' = [attempt EXCEPT ![worker.attempt].resource = answer[1]]
          /\ WorkerTo(answer[2])
    /\ UNCHANGED <<job, task, artifact, ops, leased, up, poller, stopper>>

\* _park_job_sync: the transfer now belongs to the poller.
Park ==
    LET j == JobOf(worker) IN
    /\ WorkerAt("pushed")
    /\ Valid(worker)
    /\ WorkerTo("exiting")
    /\ job' = [job EXCEPT ![j].state = "WAITING_TORRENT", ![j].permanent = FALSE, ![j].details.hash = TRUE]
    /\ SetState(j, "WAITING_TORRENT")
    /\ UNCHANGED <<artifact, ops, up, poller, stopper>>

\* A pooled job may go on with another account if nothing runs remotely.
Replaceable(j) ==
    /\ j[2] \in Pooled
    /\ job[j].state = "DOWNLOADING"
    /\ job[j].details.account
    /\ j[2] \notin BoundAtEnqueue => Unresolved(job[j].task) = {}

\* _mark_job_failed_sync: FAILED; or FAILED and, in the same transaction, back
\* to STOPPING to change the account or to clean up the remote transfer.
FailJob ==
    LET j == JobOf(worker) IN
    /\ up
    /\ worker.pc \in {"running", "artifact", "pushed", "failing", "completed"}
    /\ Valid(worker)
    /\ WorkerTo("exiting")
    /\ \E permanent \in BOOLEAN :
          \/ /\ ~NeedsRemoteStop(j)
             /\ job' = [job EXCEPT ![j].state = "FAILED", ![j].permanent = permanent]
             /\ SetState(j, "FAILED")
             /\ UNCHANGED ops
          \/ \E action \in {"replace-account", "cancel"} :
                /\ IF action = "cancel" THEN NeedsRemoteStop(j) ELSE Replaceable(j)
                /\ ~HasOperation(job[j].task)
                /\ ops' = ops \union {NewOperation(j, action, None, FALSE, FALSE)}
                /\ job' = [job EXCEPT ![j].state = "STOPPING", ![j].permanent = permanent]
                /\ SetFailedThenStopping(j)
    /\ UNCHANGED <<artifact, up, poller, stopper>>

\* The attempt's coroutine ends: done, cancelled, its commit rejected, or an error
\* that reached nobody.  A thread it waits for, such as a push, finishes first.
WorkerExit ==
    /\ up
    /\ worker.pc \notin {"idle", "claimed", "pushing"}
    /\ worker' = Idle
    /\ UNCHANGED <<tables, up, poller, stopper>>

-----------------------------------------------------------------------------
(* The torrent poller: parked jobs, one child task per job and pass. *)

PollerAt(pc) == up /\ poller.pc = pc
PollerTo(pc) == poller' = [poller EXCEPT !.pc = pc]

\* _waiting_jobs_sync: the identity is read long before the job's turn comes.
PollRead(j) ==
    /\ PollerAt("idle")
    /\ IsTorrent(j)
    /\ job[j].state = "WAITING_TORRENT"
    /\ poller' = [pc |-> "read", attempt |-> AttemptOf(j), generation |-> task[job[j].task].generation,
                  cancelled |-> FALSE]
    /\ UNCHANGED <<tables, up, worker, stopper>>

\* _run_poll_attempt: the child task is entered in _active_attempts and checks.
PollBegin ==
    /\ PollerAt("read")
    /\ poller' = IF Valid(poller) THEN [poller EXCEPT !.pc = "polling"] ELSE Idle
    /\ UNCHANGED <<tables, up, worker, stopper>>

\* _observe_resource_sync: the client shows the torrent under our tag; either
\* the transfer goes on, or its payload is complete.
PollObserve ==
    /\ PollerAt("polling")
    /\ Valid(poller)
    /\ attempt[poller.attempt].resource \in {"INTENDED", "REGISTERED"}
    /\ attempt' = [attempt EXCEPT ![poller.attempt].resource = "REGISTERED"]
    /\ poller' \in {Idle, [poller EXCEPT !.pc = "delivered"]}
    /\ UNCHANGED <<job, task, artifact, ops, leased, up, worker, stopper>>

\* _complete_sync: the archive, the finished payload and the state land together.
PollComplete ==
    LET j == JobOf(poller)
        t == TaskOf(poller) IN
    /\ PollerAt("delivered")
    /\ Valid(poller)
    /\ job' = [job EXCEPT ![j].state = "COMPLETED", ![j].permanent = FALSE, ![j].details.seeding = TRUE]
    /\ task' = [task EXCEPT ![t] = Mirror(@, "COMPLETED")]
    /\ attempt' = [a \in AttemptId |->
                      LET r == attempt[a] IN
                      IF r.task # t THEN r
                      ELSE [(IF a = poller.attempt THEN Record(r, "COMPLETED") ELSE r)
                               EXCEPT !.payload = r.resource # "NONE"]]
    /\ SaveArtifact(j, poller.attempt)
    /\ PollerTo("cleanup")
    /\ UNCHANGED <<ops, leased, up, worker, stopper>>

\* _cleanup_completed_resource when seeding is not kept: the remote entry goes first ...
PollDetach ==
    /\ PollerAt("cleanup")
    /\ Valid(poller)
    /\ attempt' = [attempt EXCEPT ![poller.attempt].resource = "STOP_CONFIRMED"]
    /\ PollerTo("detached")
    /\ UNCHANGED <<job, task, artifact, ops, leased, up, worker, stopper>>

\* ... and then the row says that nothing is seeding any more.
PollUnseed ==
    /\ PollerAt("detached")
    /\ Valid(poller)
    /\ job' = [job EXCEPT ![JobOf(poller)].details.seeding = FALSE]
    /\ poller' = Idle
    /\ UNCHANGED <<task, attempt, artifact, ops, leased, up, worker, stopper>>

\* The child task raised: poll_once records the failure outside of it.
PollError ==
    /\ up
    /\ poller.pc \in {"polling", "delivered", "cleanup", "detached"}
    /\ ~poller.cancelled
    /\ PollerTo("failing")
    /\ UNCHANGED <<tables, up, worker, stopper>>

\* _mark_failed_sync of the torrent service.
PollFail ==
    LET j == JobOf(poller)
        remote == \E t \in TaskId : task[t].job = j /\ Unresolved(t) # {} IN
    /\ PollerAt("failing")
    /\ Valid(poller)
    /\ poller' = Idle
    /\ \E permanent \in BOOLEAN :
          IF remote
          THEN /\ ~HasOperation(job[j].task)
               /\ ops' = ops \union {NewOperation(j, "cancel", None, FALSE, FALSE)}
               /\ job' = [job EXCEPT ![j].state = "STOPPING", ![j].permanent = permanent]
               /\ SetFailedThenStopping(j)
          ELSE /\ job' = [job EXCEPT ![j].state = "FAILED", ![j].permanent = permanent]
               /\ SetState(j, "FAILED")
               /\ UNCHANGED ops
    /\ UNCHANGED <<artifact, up, worker, stopper>>

\* The pass over this job ends: done, cancelled or its commit rejected.
PollExit ==
    /\ up
    /\ poller.pc \notin {"idle", "read"}
    /\ poller' = Idle
    /\ UNCHANGED <<tables, up, worker, stopper>>

-----------------------------------------------------------------------------
(* The operation processor: confirm the physical stop, then release the slot. *)

StopperAt(pc) == up /\ stopper.pc = pc
StopperTo(pc) == stopper' = [stopper EXCEPT !.pc = pc]

\* Once the local execution is gone: stop_for_operation cancels the poller's
\* child task before it looks at the remote side.
ProceedFromLocal(o) ==
    /\ stopper' = [pc |-> IF o.action = "replace-account" THEN "prepare"
                          ELSE IF IsTorrent(o.job) THEN "remote" ELSE "confirmed",
                   op |-> o]
    /\ poller' = IF stopper'.pc = "remote" /\ PollerHandle(o.task) THEN [poller EXCEPT !.cancelled = TRUE]
                 ELSE poller

\* process_operations takes up a pending operation as read at that moment, and
\* stop_attempt cancels the execution if there is one.  Only the replacement
\* that a failure asked for lets the execution leave by itself.
StopPick(o) ==
    /\ StopperAt("idle")
    /\ o \in ops
    /\ IF WorkerHandle(o.task)
       THEN /\ stopper' = [pc |-> "local", op |-> o]
            /\ worker' = [worker EXCEPT !.cancelled = @ \/ o.action # "replace-account" \/ o.interrupt]
            /\ UNCHANGED poller
       ELSE ProceedFromLocal(o) /\ UNCHANGED worker
    /\ UNCHANGED <<tables, up>>

\* The awaited execution has ended.
StopLocal ==
    /\ StopperAt("local")
    /\ ~WorkerHandle(stopper.op.task)
    /\ ProceedFromLocal(stopper.op)
    /\ UNCHANGED <<tables, up, worker>>

PollerGone == ~(poller.cancelled /\ PollerHandle(stopper.op.task))

\* A resource of the task is shown to be deleted at the client (_confirm_resource_sync).
StopResource(a) ==
    /\ StopperAt("remote")
    /\ PollerGone
    /\ a \in Unresolved(stopper.op.task)
    /\ attempt' = [attempt EXCEPT ![a].resource = "STOP_CONFIRMED"]
    /\ UNCHANGED <<job, task, artifact, ops, leased, up, worker, poller, stopper>>

StopRemote ==
    /\ StopperAt("remote")
    /\ PollerGone
    /\ Unresolved(stopper.op.task) = {}
    /\ StopperTo("confirmed")
    /\ UNCHANGED <<tables, up, worker, poller>>

\* operation_error: nothing is released; the operation is taken up again later.
StopError ==
    /\ up
    /\ stopper.pc \in {"remote", "prepare", "confirmed"}
    /\ stopper' = NoStop
    /\ UNCHANGED <<tables, up, worker, poller>>

\* finish_operation works on the operation as it is saved now, for the task it was saved for.
Finishing(p) ==
    /\ up
    /\ stopper.pc \in {"prepare", "confirmed"}
    /\ stopper.pc = "prepare" <=> stopper.op.action = "replace-account"
    /\ p \in ops
    /\ p.task = stopper.op.task
    /\ job[p.job].task = p.task
    /\ p.action # "stop-seeding" => task[p.task].status = "STOPPING"
    /\ ops' = ops \ {p}
    /\ stopper' = NoStop

CancelWith(p) ==
    /\ Finishing(p)
    /\ job' = [job EXCEPT ![p.job].state = "CANCELLED"]
    /\ SetState(p.job, "CANCELLED")
    /\ UNCHANGED <<artifact, up, worker, poller>>

FinishCancel(p) == p.action = "cancel" /\ CancelWith(p)

\* A pending change of the work's reference forbids the successor.
FinishForbidden(p) == p.action \in {"retry", "switch-source", "replace-account"} /\ CancelWith(p)

\* retry and restart: the row goes on as a new task, unless the guard of the
\* restart refuses it; the whole transaction is then undone (StopError).
FinishRetry(p) ==
    LET j == p.job IN
    /\ stopper.pc = "confirmed"
    /\ p.action = "retry"
    /\ ~p.exhausted
    /\ Finishing(p)
    /\ RestartAllowed(j, job[j])
    /\ \E t \in UnusedTask :
          LET old == Mirror(task[p.task], "CANCELLED") IN
          /\ Requeue(j, t, EmptyDetails, job[j].recovery)
          /\ task' = [task EXCEPT ![p.task] = old, ![t] = FreshTask(j, old.generation + 1)]
    /\ attempt' = IF AttemptOf(j) = None THEN attempt
                  ELSE [attempt EXCEPT ![AttemptOf(j)] = Record(@, "CANCELLED")]
    /\ leased' = leased \ {AttemptOf(j)}
    /\ UNCHANGED <<artifact, up, worker, poller>>

\* restart after the last automatic recovery: give up (queue_stopping_guard of 038).
FinishExhausted(p) ==
    /\ stopper.pc = "confirmed"
    /\ p.action = "retry"
    /\ p.exhausted
    /\ Finishing(p)
    /\ p.attempt = task[p.task].attempt
    /\ p.generation + 1 = task[p.task].generation
    /\ Unresolved(p.task) = {}
    /\ job' = [job EXCEPT ![p.job].state = "FAILED", ![p.job].permanent = FALSE]
    /\ SetState(p.job, "FAILED")
    /\ UNCHANGED <<artifact, up, worker, poller>>

\* switch-source: cancel this row and queue the row of the other source.
FinishSwitch(p) ==
    LET j == p.job
        k == <<WorkOf(j), p.target>>
        old == Mirror(task[p.task], "CANCELLED")
        generation == IF k = j THEN old.generation + 1 ELSE NextGeneration(k) IN
    /\ stopper.pc = "confirmed"
    /\ p.action = "switch-source"
    /\ Finishing(p)
    /\ \E t \in UnusedTask :
          /\ job' = [[job EXCEPT ![j].state = "CANCELLED"] EXCEPT
                        ![k] = [state |-> "PENDING", task |-> t, details |-> EmptyDetails,
                                recovery |-> @.recovery, permanent |-> FALSE]]
          /\ task' = [task EXCEPT ![p.task] = old, ![t] = FreshTask(k, generation)]
    /\ attempt' = IF AttemptOf(j) = None THEN attempt
                  ELSE [attempt EXCEPT ![AttemptOf(j)] = Record(@, "CANCELLED")]
    /\ leased' = leased \ {AttemptOf(j)}
    /\ UNCHANGED <<artifact, up, worker, poller>>

\* The account pool was frozen when the round began; each replacement uses it up.
PoolIgnored(j) == TRUE
PoolLeft(j) == job[j].details.replaced < PoolSize

NextAccount(d) == [d EXCEPT !.account = TRUE, !.replaced = d.replaced + 1]

\* replace-account: the same task goes on with the next account of the frozen
\* pool, or fails when the pool is used up.
FinishReplacement(p) ==
    LET j == p.job IN
    /\ stopper.pc = "prepare"
    /\ p.action = "replace-account"
    /\ Finishing(p)
    /\ p.attempt = task[p.task].attempt
    /\ p.generation + 1 = task[p.task].generation
    /\ attempt' = [attempt EXCEPT ![p.attempt] = Record(@, "CANCELLED")]
    /\ \/ /\ PoolLeft(j)
          /\ task' = [task EXCEPT ![p.task] = Mirror(@, "PENDING")]
          /\ job' = [job EXCEPT ![j] = [job[j] EXCEPT !.state = "PENDING", !.permanent = FALSE, !.details = NextAccount(job[j].details)]]
       \/ /\ task' = [task EXCEPT ![p.task] = Mirror(@, "FAILED")]
          /\ \E permanent \in BOOLEAN :
                job' = [job EXCEPT ![j].state = "FAILED", ![j].permanent = permanent]
    /\ leased' = leased \ {p.attempt}
    /\ UNCHANGED <<artifact, up, worker, poller>>

FinishSeeding(p) ==
    /\ stopper.pc = "confirmed"
    /\ p.action = "stop-seeding"
    /\ Finishing(p)
    /\ job' = [job EXCEPT ![p.job].details.seeding = FALSE]
    /\ UNCHANGED <<task, attempt, artifact, leased, up, worker, poller>>

Complete(p) ==
    \/ FinishCancel(p)
    \/ FinishRetry(p)
    \/ FinishExhausted(p)
    \/ FinishSwitch(p)
    \/ FinishReplacement(p)
    \/ FinishSeeding(p)

-----------------------------------------------------------------------------
(* Orphaned claims, leases and loss of the process. *)

\* _reclaim_expired_leases_sync, run every 15 seconds and when the worker starts.
Reclaim(j) ==
    LET a == AttemptOf(j)
        exhausted == job[j].recovery + 1 > MaxRecoveries
        interrupted == IF attempt[a].finished THEN attempt[a]
                       ELSE [attempt[a] EXCEPT !.status = "INTERRUPTED", !.finished = TRUE] IN
    /\ up
    /\ job[j].state = "DOWNLOADING"
    /\ ~Active(a)
    /\ a \notin leased
    /\ attempt' = [attempt EXCEPT ![a] = interrupted]
    /\ \E s \in JobState :
          /\ IF NeedsRemoteStop(j)
             THEN /\ s = "STOPPING"
                  /\ ~HasOperation(job[j].task)
                  /\ ops' = ops \union {NewOperation(j, "retry", None, exhausted, TRUE)}
             ELSE /\ s = IF exhausted THEN "FAILED" ELSE "PENDING"
                  /\ UNCHANGED ops
          /\ job' = [job EXCEPT ![j] = [job[j] EXCEPT !.state = s, !.recovery = job[j].recovery + 1]]
          /\ task' = [task EXCEPT ![job[j].task] = Mirror(@, s)]
    /\ UNCHANGED <<artifact, leased, up, worker, poller, stopper>>

\* _renew_lease_forever renews the lease of a registered execution; with a stalled
\* dispatch a claim may lose its lease before it is registered.
UnrenewedStalled(a) == a \in UnusedAttempt
Unrenewed(a) == ~Active(a) /\ (worker.attempt = a => DispatchStall)

LeaseExpire(a) ==
    /\ up
    /\ a \in leased
    /\ Unrenewed(a)
    /\ leased' = leased \ {a}
    /\ UNCHANGED <<job, task, attempt, artifact, ops, up, worker, poller, stopper>>

\* The process is gone with its executions; no other session honours its leases.
Crash ==
    /\ up
    /\ up' = FALSE
    /\ worker' = Idle
    /\ poller' = Idle
    /\ stopper' = NoStop
    /\ leased' = {}
    /\ UNCHANGED <<job, task, attempt, artifact, ops>>

Restart ==
    /\ ~up
    /\ up' = TRUE
    /\ UNCHANGED <<tables, worker, poller, stopper>>

-----------------------------------------------------------------------------

Init ==
    /\ job = [j \in Job |-> NoJob]
    /\ task = [t \in TaskId |-> NoTask]
    /\ attempt = [a \in AttemptId |-> NoAttempt]
    /\ artifact = [j \in Job |-> None]
    /\ ops = {}
    /\ leased = {}
    /\ up = TRUE
    /\ worker = Idle
    /\ poller = Idle
    /\ stopper = NoStop

Command(j) ==
    \/ Enqueue(j)
    \/ Pause(j)
    \/ Resume(j)
    \/ RetryQueued(j)
    \/ RetryBarrier(j)
    \/ CancelQueued(j)
    \/ CancelBarrier(j)
    \/ CancelReplacement(j)
    \/ \E p \in Provider : SwitchSource(j, p)
    \/ StopSeeding(j)
    \/ ReplaceStoppedAccount(j)

WorkerStep ==
    \/ \E j \in Job : Claim(j)
    \/ Register
    \/ Begin
    \/ SelectAccount
    \/ RecordArtifact
    \/ CompleteJob
    \/ PushIntent
    \/ PushOutcome
    \/ Park
    \/ FailJob
    \/ WorkerExit

PollerStep ==
    \/ \E j \in Job : PollRead(j)
    \/ PollBegin
    \/ PollObserve
    \/ PollComplete
    \/ PollDetach
    \/ PollUnseed
    \/ PollError
    \/ PollFail
    \/ PollExit

StopperStep ==
    \/ \E o \in ops : StopPick(o)
    \/ StopLocal
    \/ \E a \in AttemptId : StopResource(a)
    \/ StopRemote
    \/ StopError
    \/ \E p \in ops : Complete(p) \/ FinishForbidden(p)

ProcessStep ==
    \/ \E j \in Job : Reclaim(j)
    \/ \E a \in AttemptId : LeaseExpire(a)
    \/ Crash
    \/ Restart

Next ==
    \/ \E j \in Job : Command(j)
    \/ WorkerStep
    \/ PollerStep
    \/ StopperStep
    \/ ProcessStep

Spec == Init /\ [][Next]_vars

(***************************************************************************)
(* What the scheduling of the code justifies.  Both loops run for ever: a   *)
(* registered execution is started, and ends because every provider call   *)
(* has a timeout and a cancelled one is awaited; process_operations takes  *)
(* up every pending operation on every pass, and reclaim runs every 15     *)
(* seconds.  The strong conditions on StopResource, StopRemote and         *)
(* Complete are the assumption on the environment: qBittorrent is          *)
(* reachable and answers, and accounts stop changing, often enough.        *)
(***************************************************************************)
Fairness ==
    /\ WF_vars(Register)
    /\ WF_vars(Begin)
    /\ WF_vars(PushOutcome)
    /\ WF_vars(WorkerExit)
    /\ WF_vars(PollBegin)
    /\ WF_vars(PollExit)
    /\ WF_vars(StopLocal)
    /\ WF_vars(StopError \/ \E p \in ops : Complete(p))
    /\ SF_vars(StopRemote)
    /\ \A a \in AttemptId : SF_vars(StopResource(a)) /\ WF_vars(LeaseExpire(a))
    /\ \A j \in Job :
          /\ SF_vars(\E o \in ops : o.job = j /\ StopPick(o))
          /\ SF_vars(\E o \in ops : o.job = j /\ Complete(o))
          /\ WF_vars(Reclaim(j))

FairSpec == Spec /\ Fairness

-----------------------------------------------------------------------------
(* Types. *)

\* The rows have the shape the schema gives them; in particular a round never
\* takes more replacement accounts than the pool frozen with it holds
\* (_prepare_account_replacement, FinishReplacement), and no execution is left at
\* a step its coroutine does not have.
TypeOK ==
    /\ job \in [Job -> JobRow]
    /\ task \in [TaskId -> TaskRow]
    /\ attempt \in [AttemptId -> AttemptRow]
    /\ artifact \in [Job -> AttemptId \union {None}]
    /\ ops \subseteq Operation
    /\ leased \subseteq AttemptId
    /\ up \in BOOLEAN
    /\ worker \in Execution(WorkerPc)
    /\ poller \in Execution(PollerPc)
    /\ stopper \in [pc : StopperPc, op : Operation \union {None}]

-----------------------------------------------------------------------------
(* Safety. *)

\* The row and its task are a pair, and the task mirrors the state of the row.
JobLinked(j) ==
    IF job[j].state = "NONE"
    THEN job[j].task = None
    ELSE /\ job[j].task \in TaskId
         /\ task[job[j].task].job = j
         /\ task[job[j].task].status = job[j].state

\* Every execution belongs to a task of some row, and a row that runs or is
\* parked has a current execution of its own.
AttemptLinked(a) ==
    IF attempt[a].status = "NONE"
    THEN attempt[a] = NoAttempt
    ELSE attempt[a].task \in TaskId /\ task[attempt[a].task].job \in Job
TaskLinked(t) ==
    /\ task[t].status \in {"DOWNLOADING", "WAITING_TORRENT"} => task[t].attempt # None
    /\ task[t].attempt # None =>
          attempt[task[t].attempt].task = t /\ attempt[task[t].attempt].status # "NONE"

\* What the actors hold in memory refers to rows that exist.
ExecutionLinked(x) == x.pc # "idle" => x.attempt \in AttemptId /\ attempt[x.attempt].status # "NONE"
OperationLinked(o) ==
    /\ task[o.task].job = o.job
    /\ task[o.task].status # "NONE"
    /\ o.action = "switch-source" => o.target \in Provider

\* The legacy row, which most of the program reads, and the task and execution that
\* the triggers keep beside it never drift apart, whoever wrote last and
\* however the process was lost.
RowsLinked ==
    /\ \A j \in Job : JobLinked(j)
    /\ \A a \in AttemptId : AttemptLinked(a)
    /\ \A t \in TaskId : TaskLinked(t)
    /\ ExecutionLinked(worker) /\ ExecutionLinked(poller)
    /\ \A o \in ops : OperationLinked(o)
    /\ stopper.pc # "idle" => stopper.op \in Operation

\* The sources of a work never run side by side: whatever enqueues, retries,
\* resumes, switches and finished operations are mixed, at most one row of the
\* work is queued, running, parked, paused or being stopped.
SlotUnique ==
    \A i, j \in Job :
        i # j /\ WorkOf(i) = WorkOf(j) => job[i].state \notin Occupying \/ job[j].state \notin Occupying

\* Something still produces bytes for task t: the worker's provider call, the
\* poller's child task, or a torrent the client has not finished.
Producing(t) ==
    \/ worker.pc \in {"running", "pushing", "pushed", "artifact", "failing"} /\ TaskOf(worker) = t
    \/ poller.pc \in {"polling", "delivered"} /\ TaskOf(poller) = t
    \/ \E a \in Unresolved(t) : ~attempt[a].payload

\* A work's slot is not given away under a running download: as long as anything
\* produces for a task, locally or in qBittorrent, that task is its row's current one
\* and the row is running, parked or STOPPING.  This is what the stop barrier
\* (operation, confirmed stop, then release) is for.
SlotKeptWhileProducing ==
    \A t \in TaskId : Producing(t) =>
        LET j == task[t].job IN
        /\ job[j].task = t
        /\ job[j].state \in {"DOWNLOADING", "WAITING_TORRENT", "STOPPING"}

\* REMOTE_INFLIGHT = 1: however pushes, failures, retries and crashes are
\* interleaved, at most one task has an unfinished torrent that may be in the client.
OneRemoteTransfer ==
    Cardinality({t \in TaskId : \E a \in Unresolved(t) : ~attempt[a].payload}) <= 1

\* A row is STOPPING exactly as long as an operation will release it, and that
\* operation still names the row's execution and the generation before the
\* stop; otherwise the row is stuck, because finish_operation and the stopping guard
\* of migration 038 compare these snapshots.
StopBarrier ==
    \A j \in Job : job[j].state = "STOPPING" <=>
        \E o \in ops : /\ o.job = j
                       /\ o.action # "stop-seeding"
                       /\ o.task = job[j].task
                       /\ o.attempt = AttemptOf(j)
                       /\ o.generation + 1 = task[o.task].generation

\* At most one unfinished operation per task, and one that stops a row's current task
\* finds that row STOPPING with the execution and generation it was accepted for.
OneOperation == \A o, p \in ops : o.task = p.task => o = p
OperationCurrent(o) ==
    /\ o.action # "stop-seeding"
    /\ job[o.job].task = o.task
    => /\ job[o.job].state = "STOPPING"
       /\ o.attempt = AttemptOf(o.job)
       /\ o.generation + 1 = task[o.task].generation
OperationsCurrent == \A o \in ops : OperationCurrent(o)

\* A finished download shows the archive of the task that finished, never the one an
\* earlier round of the same row left behind.
CompletedHasArtifact ==
    \A j \in Job : job[j].state = "COMPLETED" =>
        artifact[j] # None /\ attempt[artifact[j]].task = job[j].task

-----------------------------------------------------------------------------
(* Action properties. *)

\* The history of executions is written once: what a finished attempt ended as is
\* not changed by the later life of its task (trigger queue_job_update of 028).
FrozenAttempts ==
    [][\A a \in AttemptId : attempt[a].finished =>
          /\ attempt'[a].status = attempt[a].status
          /\ attempt'[a].finished]_vars

Queued == {"PENDING", "PAUSED", "DOWNLOADING", "WAITING_TORRENT"}

\* A late result of a revoked execution does not resurrect its task: a task that
\* ended never runs again (a retry is a new task), and a cancelled one can only be
\* stopped once more.
OutcomeIsFinal ==
    [][\A t \in TaskId :
          /\ task[t].status \in Terminal => task'[t].status \notin Queued
          /\ task[t].status = "CANCELLED" => task'[t].status \in {"CANCELLED", "STOPPING"}]_vars

\* The barrier holds also where a claim outlives its lease and its row is reclaimed under
\* it: a row leaves STOPPING, by whatever operation, only when the call the worker made
\* for its task, the poller's child task and every torrent of it are gone
\* (stop_attempt, stop_for_operation and _confirm_resource_sync before finish_operation).
StoppedIsSilent ==
    [][\A j \in Job :
          job[j].state = "STOPPING" /\ job'[j].state # "STOPPING" => ~Producing(job[j].task)]_vars

\* So do two of the three outcomes: a late result, even of an execution that was reclaimed
\* and goes on, neither revives a cancelled task nor puts a completed one back to work.
\* (A task that failed because its claim was given up for lost may still be completed.)
EndsPrevail ==
    [][\A t \in TaskId :
          /\ task[t].status = "CANCELLED" => task'[t].status \in {"CANCELLED", "STOPPING"}
          /\ task[t].status = "COMPLETED" => task'[t].status \notin Queued]_vars

-----------------------------------------------------------------------------
(* Liveness, once the process stays up. *)

Requested(j, action) == \E o \in ops : o.job = j /\ o.action = action


\* A claimed job does not stay DOWNLOADING for ever: the execution ends it, or its lease
\* runs out and reclaim gives it back, also when the process was lost meanwhile.
ClaimIsSettled ==
    \A j \in Job : <>[]up => (job[j].state = "DOWNLOADING" ~> job[j].state # "DOWNLOADING")

\* docs/REALTIME_API.md: once the stop is confirmed, the operation is completed
\* and the retried target is queued.
RetryIsSettled ==
    \A j \in Job : <>[]up => (Requested(j, "retry") ~> ~Requested(j, "retry") \/ UnusedTask = {})

-----------------------------------------------------------------------------
(* The queue implements the slot of every work. *)

HolderOf(w) == {job[j].task : j \in {i \in Job : WorkOf(i) = w /\ job[i].state \in Occupying}}

Slot == INSTANCE WorkSlot WITH
    holder <- [w \in Work |-> IF HolderOf(w) = {} THEN None ELSE CHOOSE t \in HolderOf(w) : TRUE],
    producing <- {t \in TaskId : Producing(t)}

\* Seen from outside, a slot is taken only when free, production starts only for
\* its holder, and it is handed over or given up only when nothing produces for the
\* holder any more.
SlotSpec == Slot!Spec
=============================================================================
