------------------------------ MODULE Accounts ------------------------------
(* External accounts: their versions and activation (connections/accounts.py),
   the leases that requests hold on one version (connections/runtime.py), the
   durable stop of an account (connections/lifecycle.py), the two loops that
   carry stops and queue operations out (connections/service.py and
   downloads/service.py) and the downloads that run on an account.

   A lease is held by the asyncio task of its borrower: the attempt of a
   download, a query outside the queue (a listener, a listing, a test, a
   login), or one of the two loops while it looks for a replacement account.  *)
EXTENDS Integers

CONSTANTS
    Account,      \* external accounts of one kind
    Task,         \* downloads
    Pooled,       \* those which another account may take over
    Query,        \* borrowers outside the queue
    Loop, Proc,   \* the loops of queue operations and of account operations
    None,
    MaxStop,      \* bound on the stops that are requested
    MaxRev,       \* bound on the credential versions of an account
    MaxCrash      \* bound on the losses of the process

ASSUME AccountAssumption ==
    /\ Pooled \subseteq Task
    /\ Loop # Proc /\ {Loop, Proc} \intersect (Task \union Query) = {} /\ Task \intersect Query = {}
    /\ None \notin Account \union Task \union {Loop, Proc}
    /\ None \notin {"cancel", "replace", "replace-now"} \union {"disable", "edit", "delete"}
    /\ MaxStop \in Nat /\ MaxRev \in Nat \ {0} /\ MaxCrash \in Nat

Borrower == Task \union Query \union {Loop, Proc}

VARIABLES
    acct,     \* external_accounts
    stop,     \* the PENDING row of account_operations of each account
    lease,    \* AccountRuntime._leases, and requests about to join them
    queue,    \* download_jobs, the current attempt with its bindings, its operation
    exec,     \* DownloadService.process_operations under its lock
    proc,     \* AccountLifecycle.process_operations
    loopUp,   \* the task "queue-operations" runs
    stops, crashes

vars == <<acct, stop, lease, queue, exec, proc, loopUp, stops, crashes>>

NoStop  == [action |-> None, rev |-> 0, deps |-> {}]
NoLease == [ph |-> "none", a |-> None, rev |-> 0, kind |-> "use", fresh |-> FALSE]
NoExec  == [by |-> None, todo |-> {}, ph |-> "idle", k |-> None, seen |-> {}, sel |-> None]
NoProc  == [ph |-> "idle", a |-> None, waits |-> {}]

-----------------------------------------------------------------------------
(* Accounts *)

Stopping(a) == stop[a] # NoStop

\* What every production use of an account asks for.
Usable(a) == acct[a].enabled /\ ~acct[a].deleted /\ ~Stopping(a) /\ acct[a].verified = acct[a].rev

\* Every change of an account raises its revision: what a test or a login read
\* is no longer fresh.
Outdated(a) == [b \in Borrower |-> IF lease[b].a = a THEN [lease[b] EXCEPT !.fresh = FALSE] ELSE lease[b]]

\* An activation of credentials that no test has confirmed.
Configured(a) == ~acct[a].deleted /\ ~acct[a].enabled /\ ~Stopping(a)
Activatable(a) == ~acct[a].deleted /\ ~acct[a].enabled /\ ~Stopping(a) /\ acct[a].verified = acct[a].rev

Enable(a) ==
    /\ Activatable(a)
    /\ acct' = [acct EXCEPT ![a].enabled = TRUE] /\ lease' = Outdated(a)
    /\ UNCHANGED <<stop, queue, exec, proc, loopUp, stops, crashes>>

-----------------------------------------------------------------------------
(* Downloads *)

Ended == {"DONE", "FAILED", "CANCELLED"}
Completed(o) == queue[o[1]].op = None \/ queue[o[1]].ops # o[2]

\* request_account_replacement freezes the pool of this round.
Replaced(q, action, free) ==
    [q EXCEPT !.st = "STOPPING", !.op = action, !.ops = @ + 1,
              !.tried = @ \union {q.acct}, !.pool = IF @ = {None} THEN free ELSE @]

\* The bindings of the attempt of k name a; those of a finished attempt whose
\* successor is to run on another account do not count.
Bound(k, a) ==
    /\ \E v \in queue[k].bound : v[1] = a
    /\ ~(k \in Pooled /\ queue[k].fin /\ queue[k].acct # a)

\* A download that has no operation yet gets one.
Interrupted(k, free) ==
    IF queue[k].op # None \/ queue[k].st \in Ended THEN queue[k]
    ELSE IF k \in Pooled THEN Replaced(queue[k], "replace-now", free)
    ELSE IF queue[k].st = "PENDING" THEN [queue[k] EXCEPT !.st = "CANCELLED"]
    ELSE [queue[k] EXCEPT !.st = "STOPPING", !.op = "cancel", !.ops = @ + 1]

Dependencies(a) ==
    {<<k, queue'[k].ops>> : k \in {i \in Task : Bound(i, a) /\ queue'[i].op # None}}

\* One transaction disables the account, stops the executions bound to it and
\* records what the operation waits for.
RequestStop(a, action) ==
    /\ ~acct[a].deleted /\ ~Stopping(a)
    /\ stops < MaxStop /\ stops' = stops + 1 /\ (action = "edit" => acct[a].rev < MaxRev)
    /\ acct' = [acct EXCEPT ![a].enabled = FALSE] /\ lease' = Outdated(a)
    /\ queue' = [k \in Task |-> IF Bound(k, a)
                    THEN Interrupted(k, {b \in Account \ {a} : Usable(b)}) ELSE queue[k]]
    /\ stop' = [stop EXCEPT ![a] =
                  [action |-> action, rev |-> acct[a].rev, deps |-> Dependencies(a)]]
    /\ UNCHANGED <<exec, proc, loopUp, crashes>>

Claim(k) ==
    /\ queue[k].st = "PENDING" /\ ~queue[k].live
    /\ queue' = [queue EXCEPT ![k].st = "RUNNING", ![k].live = TRUE, ![k].bound = {}, ![k].fin = FALSE]
    /\ UNCHANGED <<acct, stop, lease, exec, proc, loopUp, stops, crashes>>

\* The provider or the account refused; the attempt is over, its task is not.
Fail(k) ==
    /\ queue[k].live /\ queue[k].st = "RUNNING" /\ ~queue[k].cut /\ lease[k] = NoLease
    /\ queue' = [queue EXCEPT ![k] = [(IF k \in Pooled THEN Replaced(@, "replace", {b \in Account : Usable(b)})
                                       ELSE [@ EXCEPT !.st = "FAILED"]) EXCEPT !.fin = TRUE]]
    /\ UNCHANGED <<acct, stop, lease, exec, proc, loopUp, stops, crashes>>

\* AccountExecution.check in the transaction of the result.
Deliver(k) ==
    /\ lease[k].ph = "using" /\ queue[k].st = "RUNNING"
    /\ Usable(lease[k].a) /\ acct[lease[k].a].rev = lease[k].rev
    /\ queue' = [queue EXCEPT ![k].st = "DONE", ![k].fin = TRUE]
    /\ UNCHANGED <<acct, stop, lease, exec, proc, loopUp, stops, crashes>>

AttemptExit(k) ==
    /\ queue[k].live /\ lease[k] = NoLease
    /\ queue[k].cut \/ queue[k].st # "RUNNING"
    /\ queue' = [queue EXCEPT ![k].live = FALSE, ![k].cut = FALSE]
    /\ UNCHANGED <<acct, stop, lease, exec, proc, loopUp, stops, crashes>>

\* A claim whose producer is gone is given back when it expires.
Reclaim(k) ==
    /\ queue[k].st = "RUNNING" /\ ~queue[k].live
    /\ queue' = [queue EXCEPT ![k].st = "PENDING", ![k].fin = TRUE]
    /\ UNCHANGED <<acct, stop, lease, exec, proc, loopUp, stops, crashes>>

\* The operator's cancel takes a pending replacement over.
Cancel(k) ==
    /\ queue[k].st \in {"PENDING", "RUNNING", "STOPPING"} /\ queue[k].op # "cancel"
    /\ queue' = [queue EXCEPT ![k] =
                   IF @.st = "PENDING" THEN [@ EXCEPT !.st = "CANCELLED"]
                   ELSE IF @.st = "RUNNING" THEN [@ EXCEPT !.st = "STOPPING", !.op = "cancel", !.ops = queue[k].ops + 1]
                   ELSE [@ EXCEPT !.op = "cancel"]]
    /\ UNCHANGED <<acct, stop, lease, exec, proc, loopUp, stops, crashes>>

-----------------------------------------------------------------------------
(* Leases *)

\* Registered leases, cancelled ones included until their cleanup has ended.
Held(a, rev) ==
    {b \in Borrower : lease[b].a = a /\ lease[b].rev = rev /\ lease[b].ph \in {"held", "valid", "using", "leaving", "closing"}}

Reading(b, a, kind) ==
    /\ lease[b] = NoLease /\ ~acct[a].deleted
    /\ kind = "use" => acct[a].enabled /\ ~Stopping(a)
    /\ lease' = [lease EXCEPT ![b] =
                   [ph |-> "read", a |-> a, rev |-> acct[a].rev, kind |-> kind, fresh |-> kind # "use"]]

Borrow(b) ==
    /\ \/ b \in Task /\ queue[b].live /\ queue[b].st = "RUNNING" /\ ~queue[b].cut /\ Reading(b, queue[b].acct, "use")
       \/ b \in Query /\ \E a \in Account, kind \in {"use", "test", "login"} :
                            (kind = "login" => ~acct[a].enabled) /\ Reading(b, a, kind)
    /\ UNCHANGED <<acct, stop, queue, exec, proc, loopUp, stops, crashes>>

Move(b, from, to) == lease[b].ph = from /\ lease' = [lease EXCEPT ![b].ph = to]

\* The lease is registered before the account is read again.
Register(b) ==
    /\ Move(b, "read", "held")
    /\ UNCHANGED <<acct, stop, queue, exec, proc, loopUp, stops, crashes>>

\* A second look that only compares the version.
SameVersion(b) == ~acct[lease[b].a].deleted /\ acct[lease[b].a].rev = lease[b].rev
Valid(b) ==
    LET a == lease[b].a IN
    /\ ~acct[a].deleted /\ ~Stopping(a) /\ acct[a].rev = lease[b].rev
    /\ lease[b].kind = "use" => Usable(a)

Validate(b) ==
    /\ Move(b, "held", IF ~Valid(b) THEN "leaving" ELSE IF b \in Task THEN "valid" ELSE "using")
    /\ UNCHANGED <<acct, stop, queue, exec, proc, loopUp, stops, crashes>>

\* bind_execution, in one transaction with the check of the attempt's fence.
\* A binding that relies on the check of the lease.
Checked(k) == queue[k].st = "RUNNING"
Bindable(k) ==
    /\ queue[k].st = "RUNNING" /\ Usable(lease[k].a) /\ acct[lease[k].a].rev = lease[k].rev
    /\ \A v \in queue[k].bound : v[1] = lease[k].a => v[2] = lease[k].rev

Bind(k) ==
    /\ Move(k, "valid", IF Bindable(k) THEN "using" ELSE "leaving")
    /\ queue' = IF Bindable(k) THEN [queue EXCEPT ![k].bound = @ \union {<<lease[k].a, lease[k].rev>>}] ELSE queue
    /\ UNCHANGED <<acct, stop, exec, proc, loopUp, stops, crashes>>

\* record_identity, inside the lease of a test.
Verified(b) ==
    LET a == lease[b].a IN
    /\ lease[b].ph = "using" /\ lease[b].kind = "test"
    /\ ~acct[a].deleted /\ ~Stopping(a) /\ lease[b].fresh
    /\ acct[a].verified # acct[a].rev
    /\ acct' = [acct EXCEPT ![a].verified = acct[a].rev] /\ lease' = Outdated(a)
    /\ UNCHANGED <<stop, queue, exec, proc, loopUp, stops, crashes>>

\* The end of a lease.  A login saves its session afterwards; a loop that was
\* cancelled in its request does not come back.
Release(b) ==
    /\ lease[b].ph \in {"using", "leaving", "closing"}
    /\ lease' = [lease EXCEPT ![b] = IF @.kind = "login" /\ @.ph = "using" THEN [@ EXCEPT !.ph = "save"] ELSE NoLease]
    /\ proc' = [proc EXCEPT !.waits = @ \ {b}]
    /\ IF b \in {Loop, Proc}
         THEN /\ \/ exec.ph = "cut" /\ exec' = NoExec
                 \/ exec.ph # "cut" /\ exec' = [exec EXCEPT !.ph = "choose"]
                 \/ exec.ph # "cut" /\ lease[b].ph = "using" /\ exec' = [exec EXCEPT !.ph = "finish", !.sel = lease[b].a]
              /\ loopUp' = (loopUp /\ exec.ph # "cut")
         ELSE UNCHANGED <<exec, loopUp>>
    /\ UNCHANGED <<acct, stop, queue, stops, crashes>>

SaveSession(b) ==
    LET a == lease[b].a  saved == ~acct[a].deleted /\ ~Stopping(a) /\ ~acct[a].enabled /\ lease[b].fresh IN
    /\ lease[b].ph = "save" /\ acct[a].rev < MaxRev
    /\ acct' = IF saved THEN [acct EXCEPT ![a].rev = @ + 1, ![a].verified = acct[a].rev + 1] ELSE acct
    /\ lease' = [(IF saved THEN Outdated(a) ELSE lease) EXCEPT ![b] = NoLease]
    /\ UNCHANGED <<stop, queue, exec, proc, loopUp, stops, crashes>>

-----------------------------------------------------------------------------
(* Operations of the queue *)

PendingOperations == {<<k, queue[k].op>> : k \in {i \in Task : queue[i].op # None}}

Execute(x) ==
    /\ exec.by = None /\ PendingOperations # {}
    /\ exec' = [NoExec EXCEPT !.by = x, !.todo = PendingOperations, !.ph = "take"]

LoopBegin == loopUp /\ Execute(Loop) /\ UNCHANGED <<acct, stop, lease, queue, proc, loopUp, stops, crashes>>

\* A cancelled request still runs until its cleanup is over.
Cut(l) == [l EXCEPT !.ph = CASE @ \in {"read", "held", "valid"} -> "leaving" [] @ = "using" -> "closing" [] OTHER -> @]

\* stop_attempt cancels the producer once; a replacement its own producer has
\* asked for waits for it to leave.
Take ==
    /\ exec.ph = "take"
    /\ \E t \in exec.todo :
         /\ exec' = [exec EXCEPT !.todo = @ \ {t}, !.k = t, !.ph = "exit"]
         /\ IF t[2] # "replace" /\ queue[t[1]].live /\ ~queue[t[1]].cut
              THEN queue' = [queue EXCEPT ![t[1]].cut = TRUE] /\ lease' = [lease EXCEPT ![t[1]] = Cut(@)]
              ELSE UNCHANGED <<queue, lease>>
    /\ UNCHANGED <<acct, stop, proc, loopUp, stops, crashes>>

Exited ==
    /\ exec.ph = "exit" /\ ~queue[exec.k[1]].live
    /\ exec' = [exec EXCEPT !.ph = IF exec.k[2] = "cancel" THEN "finish" ELSE "choose", !.seen = {}, !.sel = None]
    /\ UNCHANGED <<acct, stop, lease, queue, proc, loopUp, stops, crashes>>

\* The resolver borrows the accounts of the pool one after the other.
Choices == {a \in queue[exec.k[1]].pool \ (queue[exec.k[1]].tried \union exec.seen \union {None}) : Usable(a)}
Choose ==
    /\ exec.ph = "choose"
    /\ IF Choices = {} THEN exec' = [exec EXCEPT !.ph = "finish"] /\ UNCHANGED lease
       ELSE \E a \in Choices : /\ Reading(exec.by, a, "use")
                               /\ exec' = [exec EXCEPT !.ph = "preflight", !.seen = @ \union {a}]
    /\ UNCHANGED <<acct, stop, queue, proc, loopUp, stops, crashes>>

\* finish_operation takes the action from the row, not from the list read before.
ActionRead(k) == exec.k[2]
ActionSaved(k) == queue[k].op

\* The account of a replacement is checked again in the transaction.
Finish ==
    LET k == exec.k[1]  sel == exec.sel IN
    /\ exec.ph = "finish"
    /\ queue' = [queue EXCEPT ![k] =
         IF @.op = None \/ (sel # None /\ ~Usable(sel)) THEN @
         ELSE IF ActionSaved(k) = "cancel" THEN [@ EXCEPT !.st = "CANCELLED", !.op = None, !.fin = TRUE]
         ELSE IF sel = None THEN [@ EXCEPT !.st = "FAILED", !.op = None, !.fin = TRUE]
         ELSE [@ EXCEPT !.st = "PENDING", !.op = None, !.fin = TRUE, !.acct = sel]]
    /\ exec' = IF exec.todo = {} THEN NoExec ELSE [exec EXCEPT !.ph = "take", !.k = None, !.sel = None]
    /\ proc' = IF exec.by = Proc /\ exec.todo = {} THEN [proc EXCEPT !.ph = "finish"] ELSE proc
    /\ UNCHANGED <<acct, stop, lease, loopUp, stops, crashes>>

-----------------------------------------------------------------------------
(* Operations of accounts *)

\* runtime.stop cancels the task of every lease it finds.
StopRuntime(a) ==
    LET held == Held(a, stop[a].rev) IN
    /\ proc.ph = "idle" /\ Stopping(a)
    /\ lease' = [b \in Borrower |-> IF b \in held THEN Cut(lease[b]) ELSE lease[b]]
    /\ queue' = [k \in Task |-> IF k \in held THEN [queue[k] EXCEPT !.cut = TRUE] ELSE queue[k]]
    /\ exec' = IF Loop \in held THEN [exec EXCEPT !.ph = "cut"] ELSE exec
    /\ proc' = [ph |-> "wait", a |-> a, waits |-> held]
    /\ UNCHANGED <<acct, stop, loopUp, stops, crashes>>

\* Their cleanups are over; the operations of the queue are executed first.
ProcessQueue ==
    /\ proc.ph = "wait" /\ proc.waits = {}
    /\ \/ Execute(Proc) /\ proc' = [proc EXCEPT !.ph = "queue"]
       \/ exec.by = None /\ PendingOperations = {} /\ proc' = [proc EXCEPT !.ph = "finish"] /\ UNCHANGED exec
    /\ UNCHANGED <<acct, stop, lease, queue, loopUp, stops, crashes>>

FinishStop ==
    LET a == proc.a  s == stop[a] IN
    /\ proc.ph = "finish" /\ proc' = NoProc
    /\ IF \A o \in s.deps : Completed(o)
         THEN /\ stop' = [stop EXCEPT ![a] = NoStop]
              /\ acct' = [acct EXCEPT ![a].rev = IF s.action = "edit" THEN s.rev + 1 ELSE @,
                                      ![a].deleted = (s.action = "delete")]
              /\ lease' = Outdated(a)
         ELSE UNCHANGED <<acct, stop, lease>>
    /\ UNCHANGED <<queue, exec, loopUp, stops, crashes>>

\* The process is lost and started again.
Crash ==
    /\ crashes < MaxCrash /\ crashes' = crashes + 1
    /\ lease' = [b \in Borrower |-> NoLease]
    /\ queue' = [k \in Task |-> [queue[k] EXCEPT !.live = FALSE, !.cut = FALSE]]
    /\ exec' = NoExec /\ proc' = NoProc /\ loopUp' = TRUE
    /\ UNCHANGED <<acct, stop, stops>>

-----------------------------------------------------------------------------
Init ==
    /\ acct = [a \in Account |-> [rev |-> 1, verified |-> 1, enabled |-> TRUE, deleted |-> FALSE]]
    /\ stop = [a \in Account |-> NoStop]
    /\ lease = [b \in Borrower |-> NoLease]
    /\ queue \in [Task -> {[st |-> "PENDING", op |-> None, ops |-> 0, acct |-> a, tried |-> {}, pool |-> {None},
                            bound |-> {}, live |-> FALSE, cut |-> FALSE, fin |-> FALSE] : a \in Account}]
    /\ exec = NoExec /\ proc = NoProc /\ loopUp = TRUE /\ stops = 0 /\ crashes = 0

Administrator == \E a \in Account : Enable(a) \/ \E action \in {"disable", "edit", "delete"} : RequestStop(a, action)
Download(k) == Claim(k) \/ Bind(k) \/ Fail(k) \/ Deliver(k) \/ AttemptExit(k) \/ Reclaim(k) \/ Cancel(k)
Leasing(b) == Borrow(b) \/ Register(b) \/ Validate(b) \/ Verified(b) \/ Release(b) \/ SaveSession(b)
Queueing == LoopBegin \/ Take \/ Exited \/ Choose \/ Finish
Processing == (\E a \in Account : StopRuntime(a)) \/ ProcessQueue \/ FinishStop

Next ==
    \/ Administrator
    \/ \E k \in Task : Download(k)
    \/ \E b \in Borrower : Leasing(b)
    \/ Queueing
    \/ Processing
    \/ Crash

Spec == Init /\ [][Next]_vars

\* Both loops run once a second, requests of the loops and cleanups have time
\* limits, and every pending operation is tried in each round.
Returning(b) == (b \in {Loop, Proc} \/ lease[b].ph \in {"leaving", "closing"}) /\ Release(b)
Request(b) == Register(b) \/ Validate(b) \/ (b \in Task /\ Bind(b)) \/ Returning(b)
Fairness ==
    /\ WF_vars(Take \/ Exited \/ Choose \/ Finish) /\ WF_vars(LoopBegin)
    /\ \A a \in Account : SF_vars(StopRuntime(a))
    /\ WF_vars(FinishStop) /\ SF_vars(ProcessQueue)
    /\ \A b \in Borrower : WF_vars(Request(b))
    /\ \A k \in Task : WF_vars(AttemptExit(k))

FairSpec == Spec /\ Fairness
-----------------------------------------------------------------------------
Physical(b) == lease[b].ph \in {"using", "closing"}
Running(k) == queue[k].live /\ queue[k].st \in {"RUNNING", "STOPPING"}
InService(a, rev) == acct[a].rev = rev /\ ~acct[a].deleted /\ (acct[a].enabled \/ Stopping(a))

(* Types and shapes: an enabled account is not deleted, not stopping and its
   current credentials are verified; a download is STOPPING exactly while an
   operation waits for it (the columns of external_accounts and queue_tasks). *)
TypeOK ==
    /\ \A a \in Account : acct[a].verified <= acct[a].rev /\ acct[a].rev <= MaxRev
    /\ \A a \in Account : acct[a].enabled => ~acct[a].deleted /\ ~Stopping(a) /\ acct[a].verified = acct[a].rev
    /\ \A b \in Borrower : lease[b].ph \in {"none", "read", "held", "valid", "using", "leaving", "closing", "save"}
    /\ \A k \in Task : queue[k].st = "STOPPING" <=> queue[k].op # None
    /\ exec.by \in {None, Loop, Proc} /\ (exec.by = Proc <=> proc.ph = "queue")

(* No production request runs on credentials that were replaced or deleted: the
   stop of an account commits its new version or its deletion only after every
   request on the old one has ended its cleanup.  The registration of a lease
   races the stop in the database (AccountRuntime.use, FinishStop). *)
RequestsUseCurrentVersion ==
    \A b \in Borrower : Physical(b) /\ lease[b].kind = "use" => InService(lease[b].a, lease[b].rev)

(* A download that still runs is bound only to versions in service: the stop of
   an account depends on the operation of every attempt bound to it, so it
   cannot complete under one (_bind_sync against _request_sync). *)
AttemptsStopWithAccount ==
    \A k \in Task : Running(k) => \A v \in queue[k].bound : InService(v[1], v[2])

(* The administrator's cancel of a download is never overtaken: an account
   replacement that is already under way, its preflight included, ends in the
   cancellation (_prepare_account_replacement, finish_operation). *)
CancelPrevails ==
    [][\A k \in Task : queue[k].op = "cancel" => queue'[k].op = "cancel" \/ queue'[k].st = "CANCELLED"]_vars

=============================================================================
