---------------------------- MODULE QueueRecords ----------------------------
(***************************************************************************)
(* The rows of the durable download queue and what the SQL triggers of     *)
(* db/migrations/027, 028, 029, 035 and 038 do to them whenever a writer   *)
(* sets download_jobs.state.  Every state-changing transaction of the      *)
(* queue is built from these operators, as every writer of the program     *)
(* goes through those triggers.                                            *)
(***************************************************************************)
EXTENDS Naturals

CONSTANTS
    Work,            \* candidates with a standing approval
    Provider,        \* download sources
    Torrent,         \* the EH_TORRENT source: its transfer runs in qBittorrent
    Delegated,       \* sources that register the archive themselves (EXHENTAI, TELEGRAPH)
    SwitchTarget,    \* sources a running download may be switched to
    Pooled,          \* sources that download with an external account
    BoundAtEnqueue,  \* pooled sources whose account is chosen at enqueue (Telegram)
    TaskId,          \* UUIDs of logical tasks
    AttemptId,       \* UUIDs of executions
    PoolSize,        \* replacements the frozen account pool of a round allows
    MaxRecoveries,   \* budgets.MAX_AUTO_RECOVERIES
    MaxGeneration,   \* bound of the models: a task is not stopped again beyond it
    None             \* SQL NULL

ASSUME ConstantsAssumption ==
    /\ Torrent \in Provider
    /\ Delegated \subseteq Provider \ {Torrent}
    /\ SwitchTarget \subseteq Delegated
    /\ BoundAtEnqueue \subseteq Pooled
    /\ Pooled \subseteq Provider
    /\ Torrent \notin BoundAtEnqueue
    /\ PoolSize \in Nat
    /\ MaxRecoveries \in Nat
    /\ MaxGeneration \in Nat
    /\ None \notin TaskId
    /\ None \notin AttemptId
    /\ None \notin Work \X Provider
    /\ None \notin Provider

\* One download_jobs row per idempotency key, that is per work and source; the
\* attachments of a Telegram work are sources of their own.
Job == Work \X Provider
WorkOf(j) == j[1]
IsTorrent(j) == j[2] = Torrent

Terminal == {"COMPLETED", "FAILED", "CANCELLED"}
JobState == {"NONE", "PENDING", "DOWNLOADING", "WAITING_TORRENT", "PAUSED", "STOPPING"} \union Terminal
\* States that occupy the work's unique download slot.
Occupying == JobState \ (Terminal \union {"NONE"})

(***************************************************************************)
(* details_json, reduced to what the queue branches on: an account has     *)
(* been selected, a torrent hash is saved, the payload is still seeding,   *)
(* and how often the frozen account pool supplied a replacement.              *)
(***************************************************************************)
Details == [account : BOOLEAN, hash : BOOLEAN, seeding : BOOLEAN, replaced : 0..PoolSize]
EmptyDetails == [account |-> FALSE, hash |-> FALSE, seeding |-> FALSE, replaced |-> 0]
\* What enqueue_*_download saves: Telegram sources bind an account, the rest save '{}'.
InitialDetails(j) == [EmptyDetails EXCEPT !.account = j[2] \in BoundAtEnqueue]

JobRow == [state : JobState, task : TaskId \union {None}, details : Details,
           recovery : Nat, permanent : BOOLEAN]
TaskRow == [job : Job \union {None}, status : JobState, generation : Nat, attempt : AttemptId \union {None}]
Resource == {"NONE", "INTENDED", "REGISTERED", "STOP_CONFIRMED"}
AttemptRow == [task : TaskId \union {None}, generation : Nat, status : JobState \union {"INTERRUPTED"},
               finished : BOOLEAN, resource : Resource, payload : BOOLEAN]

NoJob == [state |-> "NONE", task |-> None, details |-> EmptyDetails, recovery |-> 0, permanent |-> FALSE]
NoTask == [job |-> None, status |-> "NONE", generation |-> 0, attempt |-> None]
NoAttempt == [task |-> None, generation |-> 0, status |-> "NONE", finished |-> FALSE,
              resource |-> "NONE", payload |-> FALSE]

(***************************************************************************)
(* queue_operations rows that are not COMPLETED or FAILED.  The attempt    *)
(* and generation are those of the task when the operation was accepted.   *)
(***************************************************************************)
Action == {"cancel", "retry", "switch-source", "replace-account", "stop-seeding"}
Operation == [task : TaskId, attempt : AttemptId \union {None}, generation : Nat, job : Job, action : Action,
              target : Provider \union {None}, exhausted : BOOLEAN, interrupt : BOOLEAN]

(***************************************************************************)
(* Trigger queue_job_update on the task row: mirror the state; entering    *)
(* STOPPING or CANCELLED starts a new generation, which revokes whatever   *)
(* execution holds the old one.                                            *)
(***************************************************************************)
Mirror(r, s) ==
    [r EXCEPT !.status = s,
              !.generation = IF s # r.status /\ s \in {"STOPPING", "CANCELLED"} THEN @ + 1 ELSE @]

\* Trigger queue_job_update on the attempt row (028): a finished attempt is frozen.
RecordOverwriting(r, s) == [r EXCEPT !.status = s, !.finished = s \in Terminal]
Record(r, s) ==
    IF r.finished THEN r ELSE [r EXCEPT !.status = s, !.finished = s \in Terminal]

\* Triggers queue_job_insert and queue_job_restart: a queued row gets a task identity of its own.
FreshTask(j, generation) == [job |-> j, status |-> "PENDING", generation |-> generation, attempt |-> None]

\* Trigger queue_job_claim: every execution gets an identity of its own.
FreshAttempt(t, generation) == [NoAttempt EXCEPT !.task = t, !.generation = generation, !.status = "DOWNLOADING"]

\* Trigger queue_remote_restart_guard, on the row as it was before the update.
RestartAllowed(j, r) == IsTorrent(j) => r.details = EmptyDetails
=============================================================================
