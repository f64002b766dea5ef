------------------------------ MODULE Packing ------------------------------
(***************************************************************************)
(* Packing of one work: the row of the pack queue, the requests that fill  *)
(* it, and the journaled publication that replaces the CBZ in the library. *)
(* The publication survives loss of the process at any point, a cancel     *)
(* while its thread is running, several recoveries at once, and changes of *)
(* the file by other programs.                                             *)
(*                                                                         *)
(* A step that inspects files and then opens a transaction is one action:  *)
(* the transaction compares the stamps it saw, and fails when they differ. *)
(*                                                                         *)
(* QueuedUnbound, RestorableFromBackup, UnresolvedRequired, RestoreNothing, *)
(* ReplacesUnchecked, CleansUpAlways, InUseIgnored and StopSettledClean are *)
(* faulty variants of the operators they precede, and used by no action.   *)
(***************************************************************************)
EXTENDS Naturals

CONSTANTS
    Content,      \* bytes of a packed CBZ
    Foreign,      \* bytes another program left at the destination
    None,         \* no file
    Keeper,       \* coroutines that may run a recovery at the same time
    MaxAttempt,   \* bound: executions of the pack
    MaxTask,      \* bound: tasks of the row
    MaxVersion,   \* bound: completed downloads of the work
    MaxTouch      \* bound: changes of the destination by other programs

ASSUME PackingAssumption ==
    /\ {MaxAttempt, MaxTask, MaxVersion, MaxTouch} \subseteq Nat
    /\ None \notin Content \union {Foreign}
    /\ Foreign \notin Content
    /\ Keeper \cap {"worker"} = {}

VARIABLES
    job,       \* the CONVERSION row of download_jobs with its queue task
    pub,       \* queue_publications, by attempt
    dest,      \* bytes at the destination in the library
    staged,    \* bytes of each attempt's staged archive
    backup,    \* bytes of each attempt's copy of the previous archive
    linked,    \* backups that are hard links of the file at the destination
    artifact,  \* digest of the CBZ in artifacts
    source,    \* downloaded archives that still exist
    intent,    \* the latest row of queue_pack_intents
    proc,      \* what the worker thread and the recoveries are doing
    stop,      \* Execution.stop_requested of the running attempt
    phase,     \* the backend process
    touched    \* history: how often another program changed the destination

vars == <<job, pub, dest, staged, backup, linked, artifact, source, intent, proc, stop, phase, touched>>
files == <<dest, staged, backup, linked>>

-----------------------------------------------------------------------------
Attempt == 1..MaxAttempt
Version == 1..MaxVersion     \* downloaded archives of the work, inputs of a pack; 0 is none
Bytes == Content \union {Foreign, None}
Actor == Keeper \union {"worker"}

JobState == {"NONE", "PENDING", "PAUSED", "RUNNING", "WAITING", "FAILED", "COMPLETED", "STOPPING", "CANCELLED"}
Terminal == {"COMPLETED", "FAILED", "CANCELLED"}
Unsettled == {"PREPARED", "RECOVERY_REQUIRED"}
Duty == {"none", "publish", "leave", "files", "reclaim", "stop", "retry"}
Pc == {"idle", "packing", "staged", "backed", "changed", "replace", "finish", "cleanup", "failed", "leaving", "select", "next"}

NoPub == [status |-> "NONE", task |-> 0, input |-> 0, old |-> None, new |-> None, keep |-> TRUE, cleaned |-> FALSE]
Resting == [pc |-> "idle", duty |-> "none", task |-> 0, at |-> 0, todo |-> {}, old |-> None]

Worker == proc["worker"]
\* WorkerSession.active
Active(a) == Worker.pc # "idle" /\ job.attempt = a

\* Execution.check: the worker's attempt is the newest one, so task and state decide.
Valid == job.task = Worker.task /\ job.state \notin {"STOPPING", "CANCELLED"}

\* Publications._eligible
Eligible(x, a) ==
    /\ x = "worker" => ~stop
    /\ job.state = "RUNNING" /\ job.attempt = a

RestorableFromBackup(a) == pub[a].old # None /\ backup[a] = pub[a].old
\* The previous archive can be put back.
Restorable(a) == pub[a].old = None \/ backup[a] = pub[a].old

\* The file at the destination is one of the record's, and can be undone.
Known(a) == dest = pub[a].old \/ (dest = pub[a].new /\ Restorable(a))

UnresolvedRequired == {a \in Attempt : pub[a].status = "RECOVERY_REQUIRED"}
Unresolved == {a \in Attempt : \/ pub[a].status \in Unsettled
                               \/ (pub[a].status \in {"COMMITTED", "ROLLED_BACK"} /\ ~pub[a].cleaned)}
OfTask(t) == {a \in Attempt : pub[a].task = t}
RecoveryRequired(t) == \E a \in OfTask(t) : pub[a].status = "RECOVERY_REQUIRED"

To(x, pc) == proc' = [proc EXCEPT ![x].pc = pc]
Rest(x) == proc' = [proc EXCEPT ![x] = Resting]
SetState(s) == job' = [job EXCEPT !.state = s]

-----------------------------------------------------------------------------
(* Requests. *)

\* Trigger queue_job_restart: a finished row continues as a new task.
NextTask == IF job.state \in Terminal \union {"NONE"} THEN job.task + 1 ELSE job.task
TaskLeft == NextTask <= MaxTask
QueuedUnbound(v) == [job EXCEPT !.state = "PENDING", !.task = NextTask]
Queued(v) == [job EXCEPT !.state = "PENDING", !.task = NextTask, !.input = v]
Requeueable == {"NONE", "WAITING", "FAILED", "COMPLETED"}

\* _enqueue_sync for a pack (the bound on tasks is the model's).
EnqueueAllowed == \A a \in Attempt : pub[a].status # "RECOVERY_REQUIRED"
Enqueue(v) ==
    /\ EnqueueAllowed
    /\ job.state \in Requeueable /\ TaskLeft
    /\ job' = Queued(v)

\* An operator asks for a pack; whether the archive still exists is found out by the worker.
RequestPack(v) ==
    /\ phase = "up"
    /\ v <= intent.version
    /\ Enqueue(v)
    /\ UNCHANGED <<pub, files, artifact, source, intent, proc, stop, phase, touched>>

\* External: one more download of the work is completed (triggers queue_pack_capture,
\* queue_pack_artifact and queue_pack_complete); its intent supersedes the one before.
Downloaded ==
    /\ phase = "up"
    /\ intent.version < MaxVersion
    /\ source' = source \union {intent.version + 1}
    /\ \E status \in {"READY", "UNREQUESTED"} :
          intent' = [version |-> intent.version + 1, status |-> status]
    /\ UNCHANGED <<job, pub, files, artifact, proc, stop, phase, touched>>

\* _dispatch_pending_packs_sync.  A row that is already bound to the same input answers
\* the intent; with any other input it is a conflict, and the intent stays READY.
DispatchPack ==
    /\ phase = "up"
    /\ intent.status = "READY"
    /\ job.state \notin {"RUNNING", "STOPPING", "PAUSED"}
    /\ \/ Enqueue(intent.version)
       \/ /\ EnqueueAllowed
          /\ job.state \notin Requeueable /\ job.input = intent.version
          /\ UNCHANGED job
    /\ intent' = [intent EXCEPT !.status = "QUEUED"]
    /\ UNCHANGED <<pub, files, artifact, source, proc, stop, phase, touched>>

\* Commands of the operator on the row: pause, resume, retry and restart, cancel.
Command ==
    /\ phase = "up"
    /\ \/ job.state = "PENDING" /\ SetState("PAUSED")
       \/ job.state = "PAUSED" /\ SetState("PENDING")
       \/ job.state \in Terminal /\ TaskLeft /\ job' = Queued(job.input)    \* retry, restart
       \/ job.state \in {"PENDING", "PAUSED"} /\ SetState("CANCELLED")
       \/ job.state \in {"RUNNING", "WAITING", "FAILED"} /\ SetState("STOPPING")
    /\ UNCHANGED <<pub, files, artifact, source, intent, proc, stop, phase, touched>>

-----------------------------------------------------------------------------
(* The pack worker. *)

WorkerAt(pc) == phase # "down" /\ Worker.pc = pc

Claim ==
    /\ phase = "up" /\ Worker.pc = "idle"
    /\ job.state = "PENDING" /\ job.attempt < MaxAttempt
    /\ job' = [job EXCEPT !.state = "RUNNING", !.attempt = @ + 1]
    /\ proc' = [proc EXCEPT !["worker"] = [Resting EXCEPT
          !.pc = "packing", !.duty = "publish", !.task = job.task, !.at = job.attempt + 1]]
    /\ stop' = FALSE
    /\ UNCHANGED <<pub, files, artifact, source, intent, phase, touched>>

\* The archive processor wrote the new CBZ to the attempt's own directory.
Pack(c) ==
    /\ WorkerAt("packing")
    /\ job.input \in source
    /\ staged' = [staged EXCEPT ![job.attempt] = c]
    /\ To("worker", "staged")
    /\ UNCHANGED <<job, pub, dest, backup, linked, artifact, source, intent, stop, phase, touched>>

\* _mark_waiting_sync and _mark_failed_sync, which a revoked attempt cannot commit.
PackFails ==
    /\ WorkerAt("packing")
    /\ \/ Valid /\ SetState("FAILED")
       \/ Valid /\ job.input \in source /\ SetState("WAITING")
       \/ (~Valid \/ stop) /\ UNCHANGED job
    /\ To("worker", "leaving")
    /\ UNCHANGED <<pub, files, artifact, source, intent, stop, phase, touched>>

\* Publications.prepare outside its transaction: link or copy the previous archive.
TakeBackup ==
    /\ WorkerAt("staged") /\ ~stop
    /\ backup' = [backup EXCEPT ![job.attempt] = dest]
    /\ \/ dest # None /\ linked' = linked \union {job.attempt}
       \/ UNCHANGED linked
    /\ proc' = [proc EXCEPT !["worker"].pc = "backed", !["worker"].old = dest]
    /\ UNCHANGED <<job, pub, dest, staged, artifact, source, intent, stop, phase, touched>>

\* A cancelled or revoked attempt does not begin to publish.
Revoked ==
    /\ WorkerAt("staged")
    /\ stop \/ ~Valid
    /\ To("worker", "leaving")
    /\ UNCHANGED <<job, pub, files, artifact, source, intent, stop, phase, touched>>

\* The transaction of prepare: check the execution, compare the stamps and write the journal.
\* The unique index queue_publication_destination admits one unsettled record; its
\* conflict is raised to the worker's loop and leaves the row as it is.
IndexFree == \A a \in Attempt : pub[a].status \notin Unsettled
Unchanged == Worker.pc = "backed" /\ dest = Worker.old
Prepare ==
    LET a == job.attempt IN
    /\ WorkerAt("backed") \/ WorkerAt("changed")
    /\ IF Valid /\ Unchanged /\ IndexFree
       THEN /\ \E keep \in BOOLEAN :
                  pub' = [pub EXCEPT ![a] = [status |-> "PREPARED", task |-> job.task, input |-> job.input,
                                             old |-> Worker.old, new |-> staged[a], keep |-> keep, cleaned |-> FALSE]]
            /\ To("worker", "replace")
            /\ UNCHANGED <<backup, linked>>
       ELSE /\ backup' = [backup EXCEPT ![a] = None]
            /\ linked' = linked \ {a}
            /\ To("worker", IF Valid /\ ~Unchanged THEN "failed" ELSE "leaving")
            /\ UNCHANGED pub
    /\ UNCHANGED <<job, dest, staged, artifact, source, intent, stop, phase, touched>>

\* WORKER_EXCEPTION; a cancelled coroutine does not get there.
MarkFailed ==
    /\ WorkerAt("failed")
    /\ IF Valid /\ ~stop THEN SetState("FAILED") ELSE UNCHANGED job
    /\ To("worker", "leaving")
    /\ UNCHANGED <<pub, files, artifact, source, intent, stop, phase, touched>>

\* The finally block of _execute_attempt recovers the journal of its own task.
Leave ==
    /\ WorkerAt("leaving")
    /\ proc' = [proc EXCEPT !["worker"] = [Resting EXCEPT !.pc = "select", !.duty = "leave", !.task = Worker.task]]
    /\ UNCHANGED <<job, pub, files, artifact, source, intent, stop, phase, touched>>

\* stop_attempt cancels the running coroutine.
CancelWorker ==
    /\ phase = "up"
    /\ Worker.pc # "idle" /\ job.state = "STOPPING"
    /\ ~stop /\ stop' = TRUE
    /\ UNCHANGED <<job, pub, files, artifact, source, intent, proc, phase, touched>>

-----------------------------------------------------------------------------
(* The steps of a publication, taken by the worker or by a recovery. *)

At(x, pc) == phase # "down" /\ proc[x].pc = pc
\* After its last step a recovery takes up the next record.
After(x) == IF proc[x].duty = "publish" THEN "leaving" ELSE "next"

ReplacesUnchecked(a) == staged[a] = pub[a].new
\* Publications._replace
Replaces(a) == dest # pub[a].new /\ staged[a] = pub[a].new /\ dest = pub[a].old
Replace(x) ==
    LET a == proc[x].at IN
    /\ At(x, "replace")
    /\ IF Eligible(x, a) /\ Replaces(a)
       THEN /\ dest' = staged[a]
            /\ staged' = [staged EXCEPT ![a] = None]
            /\ linked' = {}
       ELSE UNCHANGED <<dest, staged, linked>>
    /\ To(x, "finish")
    /\ UNCHANGED <<job, pub, backup, artifact, source, intent, stop, phase, touched>>

\* Publications.finish: what the inspected files and the row decide.
Outcome(x, a) ==
    IF Eligible(x, a) /\ dest = pub[a].new THEN "COMMITTED"
    ELSE IF Known(a) THEN "ROLLED_BACK"
    ELSE "RECOVERY_REQUIRED"

RestoreNothing(a) == UNCHANGED <<dest, backup, linked>>
\* Put the previous archive back, or remove the new one if there was none.  (Only the
\* backup of the unsettled record is ever used again, so no link of it is left.)
Restore(a) ==
    IF dest = pub[a].old THEN UNCHANGED <<dest, backup, linked>>
    ELSE /\ dest' = pub[a].old
         /\ backup' = [backup EXCEPT ![a] = None]
         /\ linked' = {}

CleansUpAlways(outcome) == TRUE
CleansUp(outcome) == outcome \in {"COMMITTED", "ROLLED_BACK"}

Finish(x) ==
    LET a == proc[x].at
        outcome == Outcome(x, a) IN
    /\ At(x, "finish")
    /\ pub[a].status = "PREPARED"
    /\ pub' = [pub EXCEPT ![a].status = outcome]
    /\ CASE outcome = "COMMITTED" ->
              /\ artifact' = pub[a].new
              /\ SetState("COMPLETED")
              /\ UNCHANGED <<dest, backup, linked>>
         [] outcome = "ROLLED_BACK" ->
              Restore(a) /\ UNCHANGED <<job, artifact>>
         [] OTHER ->
              /\ IF Eligible(x, a) THEN SetState("WAITING") ELSE UNCHANGED job
              /\ UNCHANGED <<dest, backup, linked, artifact>>
    /\ To(x, IF CleansUp(outcome) THEN "cleanup" ELSE After(x))
    /\ UNCHANGED <<staged, source, intent, stop, phase, touched>>

\* The record was settled before, perhaps by another recovery meanwhile.
FinishSettled(x) ==
    /\ At(x, "finish")
    /\ pub[proc[x].at].status # "PREPARED"
    /\ \/ To(x, After(x))
       \/ CleansUp(pub[proc[x].at].status) /\ To(x, "cleanup")
    /\ UNCHANGED <<job, pub, files, artifact, source, intent, stop, phase, touched>>

InUseIgnored(a) == FALSE
\* _cleanup_original: another unfinished pack task is bound to the same archive.
InUse(a) == job.task # pub[a].task /\ job.input = pub[a].input /\ job.state \notin Terminal

\* Publications._cleanup, which an error may end early.
Cleanup(x) ==
    LET a == proc[x].at
        original == pub[a].status = "COMMITTED" /\ ~pub[a].keep IN
    /\ At(x, "cleanup")
    /\ backup' = [backup EXCEPT ![a] = None]
    /\ staged' = [staged EXCEPT ![a] = None]
    /\ linked' = linked \ {a}
    /\ \/ /\ ~(original /\ InUse(a))
          /\ source' = IF original THEN source \ {pub[a].input} ELSE source
          /\ pub' = [pub EXCEPT ![a].cleaned = TRUE]
       \/ UNCHANGED <<source, pub>>
    /\ To(x, After(x))
    /\ UNCHANGED <<job, dest, artifact, intent, stop, phase, touched>>

\* The publisher fails its attempt; a recovery ends and is repeated later.
Break(x) == IF proc[x].duty = "publish" THEN To(x, "failed") ELSE Rest(x)

\* A file or the database cannot be used, or changes under an inspection.
IoError(x) ==
    /\ phase # "down"
    /\ proc[x].pc \in {"staged", "replace", "finish"}
    /\ Break(x)
    /\ UNCHANGED <<job, pub, files, artifact, source, intent, stop, phase, touched>>

-----------------------------------------------------------------------------
(* Recoveries. *)

Start(x, duty, task, todo) ==
    /\ phase = "up" /\ proc[x].pc = "idle"
    /\ proc' = [proc EXCEPT ![x] = [Resting EXCEPT
          !.pc = IF todo = {} THEN "select" ELSE "next", !.duty = duty, !.task = task, !.todo = todo]]
    /\ UNCHANGED <<job, pub, files, artifact, source, intent, stop, phase, touched>>
\* One coroutine at a time has these duties.
Alone(duties) == \A y \in Keeper : proc[y].duty \notin duties

\* recover_files looks at every record whose attempt is not being executed.
RecoverFile(x, a) ==
    /\ Alone({"files", "reclaim"})
    /\ a \in Unresolved /\ ~Active(a)
    /\ Start(x, "files", 0, {a})
\* reclaim_running_jobs, once nothing executes the attempt and its lease is over.
RecoverOrphan(x) ==
    /\ Alone({"files", "reclaim"})
    /\ job.state = "RUNNING" /\ ~Active(job.attempt)
    /\ Start(x, "reclaim", job.task, {})
\* stop_attempt, after the cancelled coroutine has ended (process_operations holds a lock).
RecoverStopped(x) ==
    /\ Alone({"stop"})
    /\ job.state = "STOPPING" /\ ~Active(job.attempt)
    /\ Start(x, "stop", job.task, {})
\* retry_required in a request, before it enqueues a pack.
RecoverRequired(x) ==
    \E a \in Attempt :
        /\ pub[a].status = "RECOVERY_REQUIRED"
        /\ Start(x, "retry", pub[a].task, {})

\* Publications.recover reads the records of the task.
Select(x) ==
    /\ At(x, "select")
    /\ proc' = [proc EXCEPT ![x].pc = "next", ![x].todo = Unresolved \cap OfTask(proc[x].task)]
    /\ UNCHANGED <<job, pub, files, artifact, source, intent, stop, phase, touched>>

\* One record of Publications.recover: a required one is prepared again only when
\* the files are known again.
TakeUp(x, a) ==
    /\ At(x, "next")
    /\ a \in proc[x].todo
    /\ IF pub[a].status = "RECOVERY_REQUIRED"
       THEN IF Known(a)
            THEN /\ pub' = [pub EXCEPT ![a].status = "PREPARED"]
                 /\ proc' = [proc EXCEPT ![x].pc = "replace", ![x].at = a, ![x].todo = @ \ {a}]
            ELSE /\ proc' = [proc EXCEPT ![x].todo = @ \ {a}]
                 /\ UNCHANGED pub
       ELSE /\ proc' = [proc EXCEPT ![x].pc = IF pub[a].status = "PREPARED" THEN "replace" ELSE "finish",
                                    ![x].at = a, ![x].todo = @ \ {a}]
            /\ UNCHANGED pub
    /\ UNCHANGED <<job, files, artifact, source, intent, stop, phase, touched>>

StopSettledClean(t) == OfTask(t) \cap Unresolved = {}
\* The last lines of recover: a task with a required record is not settled.
StopSettled(t) == ~RecoveryRequired(t)

\* The recovery is through; what its caller does next depends on the row as it is now.
Settle(x) ==
    LET t == proc[x].task IN
    /\ At(x, "next")
    /\ proc[x].todo = {}
    /\ CASE proc[x].duty = "reclaim" /\ job.state = "RUNNING" /\ job.task = t /\ ~Active(job.attempt) ->
              \/ ~RecoveryRequired(t) /\ SetState("PENDING")
              \/ SetState("FAILED")   \* a file needs a decision, or the recoveries are exhausted
         [] proc[x].duty = "stop" /\ job.state = "STOPPING" /\ job.task = t /\ StopSettled(t) ->
              SetState("CANCELLED")    \* finish_operation
         [] OTHER -> UNCHANGED job
    /\ Rest(x)
    /\ UNCHANGED <<pub, files, artifact, source, intent, stop, phase, touched>>

-----------------------------------------------------------------------------
(* The process and other programs. *)

\* The session stops: the running coroutine is cancelled, nothing new is claimed.
Shutdown ==
    /\ phase = "up"
    /\ phase' = "stopping"
    /\ stop' = (Worker.pc # "idle")
    /\ UNCHANGED <<job, pub, files, artifact, source, intent, proc, touched>>

Gone ==
    /\ phase' = "down"
    /\ proc' = [x \in Actor |-> Resting]
    /\ stop' = FALSE
Crash ==
    /\ phase # "down"
    /\ Gone
    /\ UNCHANGED <<job, pub, files, artifact, source, intent, touched>>

\* finish moved the previous archive back, and its commit fails or the process is lost.
HalfFinish(x) ==
    LET a == proc[x].at IN
    /\ At(x, "finish")
    /\ pub[a].status = "PREPARED" /\ Outcome(x, a) = "ROLLED_BACK"
    /\ Restore(a)
    /\ \/ Gone
       \/ Break(x) /\ UNCHANGED <<stop, phase>>
    /\ UNCHANGED <<job, pub, staged, artifact, source, intent, touched>>

Restart ==
    /\ phase = "down"
    /\ phase' = "up"
    /\ UNCHANGED <<job, pub, files, artifact, source, intent, proc, stop, touched>>

\* External: another program rewrites the file in place, which a hard link shares,
\* replaces or deletes it, or puts a known archive back.  What the worker inspected
\* for its backup has another stamp from then on.
Touch ==
    /\ touched < MaxTouch
    /\ touched' = touched + 1
    /\ \/ /\ dest # None
          /\ dest' = Foreign
          /\ backup' = [a \in Attempt |-> IF a \in linked THEN Foreign ELSE backup[a]]
          /\ UNCHANGED linked
       \/ /\ dest' \in {Foreign, None} \union {pub[a].old : a \in Attempt} \union {pub[a].new : a \in Attempt}
          /\ linked' = {}
          /\ UNCHANGED backup
    /\ IF Worker.pc = "backed" THEN To("worker", "changed") ELSE UNCHANGED proc
    /\ UNCHANGED <<job, pub, staged, artifact, source, intent, stop, phase>>

-----------------------------------------------------------------------------

Init ==
    /\ job = [state |-> "NONE", task |-> 0, attempt |-> 0, input |-> 0]
    /\ pub = [a \in Attempt |-> NoPub]
    /\ dest = None
    /\ staged = [a \in Attempt |-> None]
    /\ backup = [a \in Attempt |-> None]
    /\ linked = {}
    /\ artifact = None
    /\ source = {}
    /\ intent = [version |-> 0, status |-> "NONE"]
    /\ proc = [x \in Actor |-> Resting]
    /\ stop = FALSE
    /\ phase = "up"
    /\ touched = 0

Publish(x) == Replace(x) \/ Finish(x) \/ FinishSettled(x)
Recovery(x) == Select(x) \/ (\E a \in Attempt : TakeUp(x, a)) \/ Settle(x)
Execute == (\E c \in Content : Pack(c)) \/ PackFails \/ TakeBackup \/ Revoked \/ Prepare \/ MarkFailed \/ Leave

Next ==
    \/ \E v \in Version : RequestPack(v)
    \/ Downloaded
    \/ DispatchPack
    \/ Command
    \/ Claim
    \/ Execute
    \/ CancelWorker
    \/ \E x \in Actor : Publish(x) \/ Cleanup(x) \/ IoError(x) \/ Recovery(x) \/ HalfFinish(x)
    \/ \E x \in Keeper : (\E a \in Attempt : RecoverFile(x, a)) \/ RecoverOrphan(x) \/ RecoverStopped(x) \/ RecoverRequired(x)
    \/ Shutdown
    \/ Crash
    \/ Restart
    \/ Touch

Spec == Init /\ [][Next]_vars

\* The loops of a running process come back to every step that stays possible; the journal
\* is scanned in rotation and the pending operations on every pass.
Fairness ==
    /\ WF_vars(DispatchPack) /\ WF_vars(Execute)
    /\ \A x \in Actor : WF_vars(Publish(x) \/ Cleanup(x) \/ Recovery(x))
    /\ \A a \in Attempt : SF_vars(\E x \in Keeper : RecoverFile(x, a))
    /\ SF_vars(\E x \in Keeper : RecoverStopped(x))
FairSpec == Spec /\ Fairness

-----------------------------------------------------------------------------
(* Properties. *)

ProcType == [pc : Pc, duty : Duty, task : 0..MaxTask, at : 0..MaxAttempt, todo : SUBSET Attempt, old : Bytes]
PubType == [status : {"NONE", "PREPARED", "COMMITTED", "ROLLED_BACK", "RECOVERY_REQUIRED"},
            task : 0..MaxTask, input : 0..MaxVersion, old : Bytes, new : Bytes, keep : BOOLEAN, cleaned : BOOLEAN]

\* Types, and that a row which exists is bound to the archive it packs.
TypeOK ==
    /\ job \in [state : JobState, task : 0..MaxTask, attempt : 0..MaxAttempt, input : 0..MaxVersion]
    /\ job.state # "NONE" => job.input # 0
    /\ pub \in [Attempt -> PubType]
    /\ dest \in Bytes /\ artifact \in Content \union {None}
    /\ {staged, backup} \subseteq [Attempt -> Bytes]
    /\ linked \subseteq Attempt /\ source \subseteq Version
    /\ intent \in [version : 0..MaxVersion, status : {"NONE", "UNREQUESTED", "READY", "QUEUED"}]
    /\ proc \in [Actor -> ProcType]
    /\ stop \in BOOLEAN /\ phase \in {"up", "stopping", "down"} /\ touched \in 0..MaxTouch

\* As long as no other program changes it, the file in the library is the artifact, or the
\* journal knows how to get back to the artifact: whatever crash, cancel or recovery came
\* in between (docs/USAGE.md:292).
CanReturn(a) ==
    /\ pub[a].status = "PREPARED"
    /\ dest = pub[a].new /\ pub[a].old = artifact
    /\ Restorable(a)
LibraryIntact == touched = 0 => dest = artifact \/ \E a \in Attempt : CanReturn(a)

\* Crashes, cancels and concurrent recoveries of the program alone never need a decision of
\* the operator about a file.
OnlyStrangersAsked == touched = 0 => \A a \in Attempt : pub[a].status # "RECOVERY_REQUIRED"

\* Bytes another program left are replaced only by the pack that is running, and only when it
\* recorded them as the previous archive (publication.py:171).
ForeignKept ==
    [][(dest = Foreign /\ dest' # Foreign /\ touched' = touched) =>
          job.state = "RUNNING" /\ pub[job.attempt].old = Foreign]_vars

\* A pack shown as cancelled has nothing unsettled in the library: the cancel waited for the
\* thread and undid its publication (docs/USAGE.md:292).
CancelSettlesFiles ==
    (touched = 0 /\ job.state = "CANCELLED") => \A a \in OfTask(job.task) : pub[a].status \notin Unsettled

\* The copy of the previous archive is not discarded before the record is settled one way
\* or the other, whatever other programs do to the destination (publication.py:171).
BackupKept ==
    [][\A a \in Attempt :
          (pub[a].status \in Unsettled /\ pub[a].old # None /\ Restorable(a) /\ touched' = touched) =>
              backup'[a] = backup[a] \/ dest' = pub[a].old \/ pub'[a].status = "COMMITTED"]_vars

\* The program never deletes the archive a queued or running pack is bound to, however
\* late an earlier pack of the same archive is cleaned up.
Live == {"PENDING", "PAUSED", "RUNNING", "WAITING"}
PackKeepsInput ==
    [][(job.state \in Live /\ job.input \in source /\ job'.state \in Live) => job.input \in source']_vars

\* In the end the process stays up and files can be used.
Calm ==
    /\ <>[](phase = "up")
    /\ <>[][\A x \in Actor : ~IoError(x) /\ ~HalfFinish(x)]_vars

\* A publication that was begun is committed, rolled back or put before the operator.
PublicationIsSettled ==
    Calm => \A a \in Attempt : pub[a].status = "PREPARED" ~> pub[a].status # "PREPARED"

\* A cancelled pack leaves its slot, unless a file waits for the operator's decision.
CancelEnds == Calm => (job.state = "STOPPING" ~> job.state # "STOPPING" \/ RecoveryRequired(job.task))

=============================================================================
