---------------------------- MODULE PaidArchive ----------------------------
(* The original archive of one gallery, which the provider sells: a form
   posted once, whose answer may be lost (exhentai/archive.py).  Before the
   form is posted the intention to pay is recorded; afterwards the outcome is
   only ever found out by reading the page again.  Attempts of downloads run on
   one version of an account chosen by DownloadAccountPool (exhentai/accounts.py);
   a stop of that account, a cancel of the operator or the loss of the process
   ends them at any point, and the provider may act on a form it has been sent
   after its sender is gone.                                                  *)
EXTENDS Integers, FiniteSets

CONSTANTS
    Account,     \* accounts of the provider
    Task,        \* downloads of the gallery's original archive, one after the other:
                 \* the next begins when the last is completed or its work removed
    None,
    MaxAttempt,  \* bound on the attempts of each download
    MaxStop,     \* bound on the stops of accounts and the cancels
    MaxCrash     \* bound on the losses of the process

ASSUME PaidArchiveAssumption ==
    /\ Cardinality(Task) \in Nat /\ Task = 1..Cardinality(Task)
    /\ None \notin Account
    /\ MaxAttempt \in [Task -> Nat] /\ MaxStop \in Nat /\ MaxCrash \in Nat

VARIABLES
    acct,     \* external_accounts: the credential version, and whether it may be used
    task,     \* download_jobs of provider EXHENTAI with its details and its operation
    request,  \* the coroutine of the current attempt
    intent,   \* eh_archive_intents and the private locators of each
    flight,   \* intents whose form the provider has not acted on yet
    bought,   \* at the provider: intents that were paid, with the account
    stops, crashes

vars == <<acct, task, request, intent, flight, bought, stops, crashes>>

Id == UNION {{<<k, n>> : n \in 1..MaxAttempt[k]} : k \in Task}
Idle == [ph |-> "idle", a |-> None, rev |-> 0, id |-> None, submit |-> FALSE, sent |-> FALSE, refused |-> FALSE]
NoIntent == [st |-> "NONE", a |-> None, rev |-> 0, entry |-> FALSE, cont |-> FALSE]

\* Phases inside the lease of the account, and those inside acquire's try.
Asking == {"locate", "page", "post", "check", "keep", "ready"}
Leased == Asking \union {"bound", "reserve", "error", "download"}
Working(k) == task[k].st = "RUNNING" /\ task[k].live /\ ~task[k].cut
At(k, ph) == request[k].ph = ph

-----------------------------------------------------------------------------
(* Choice of the account *)

Usable(v) == acct[v[1]].on /\ acct[v[1]].rev = v[2]
Current(a) == <<a, acct[a].rev>>

Unresolved == {i \in Id : intent[i].st \in {"REQUESTED", "UNKNOWN"}}
\* An unresolved request of the gallery is continued by whoever asks next, a
\* confirmed one only by the download whose details name it.
\* UnresolvedOnly forgets the latter.
UnresolvedOnly(k) == Unresolved
Pinned(k) == IF Unresolved # {} THEN Unresolved ELSE {i \in Id : intent[i].st = "READY" /\ task[k].pin = i}

\* The versions of this round are frozen at its first choice.
Pool(k) == IF task[k].pool = {None} THEN {Current(a) : a \in {b \in Account : acct[b].on}} ELSE task[k].pool

\* Either pins the version that asked; so does a confirmed request that an earlier
\* attempt of the same queue task made itself.
Pinning(k) ==
    IF Unresolved # {} THEN Unresolved
    ELSE {i \in Id : intent[i].st = "READY" /\ ((i[1] = k /\ i[2] > task[k].from) \/ task[k].pin = i)}

\* A version, and the request the details name from now on.
Choices(k) ==
    IF Pinning(k) # {}
    THEN {c \in {<<<<intent[i].a, intent[i].rev>>, i>> : i \in Pinning(k)} : Usable(c[1])}
    ELSE {<<v, task[k].pin>> : v \in {u \in Pool(k) : Usable(u) /\ u[1] \notin task[k].tried}}

-----------------------------------------------------------------------------
(* The attempt *)

Claim(k) ==
    /\ \A j \in 1..(k - 1) : task[j].st \in {"DONE", "REMOVED"}
    /\ task[k].st = "PENDING" /\ ~task[k].live /\ task[k].n < MaxAttempt[k]
    /\ task' = [task EXCEPT ![k].st = "RUNNING", ![k].live = TRUE, ![k].n = @ + 1, ![k].bound = None]
    /\ UNCHANGED <<acct, request, intent, flight, bought, stops, crashes>>

To(k, ph) == request' = [request EXCEPT ![k].ph = ph]

\* The version saved by an earlier attempt of the round, or a new choice.
Choose(k) ==
    /\ Working(k) /\ At(k, "idle")
    /\ LET choices == IF task[k].acct # None THEN {<<task[k].acct, task[k].pin>>} ELSE Choices(k) IN
       \/ \E c \in choices :
             request' = [request EXCEPT ![k].ph = "chosen", ![k].a = c[1][1], ![k].rev = c[1][2], ![k].id = c[2]]
       \/ choices = {} /\ To(k, "failed")
    /\ UNCHANGED <<acct, task, intent, flight, bought, stops, crashes>>

\* Requests of one account run one after the other.  The attempt is bound to
\* the version of the lease.
Lease(k) ==
    LET a == request[k].a IN
    /\ Working(k) /\ At(k, "chosen")
    /\ \A j \in Task \ {k} : request[j].ph \in Leased => request[j].a # a
    /\ IF Usable(<<a, request[k].rev>>)
         THEN To(k, "bound") /\ task' = [task EXCEPT ![k].bound = a]
         ELSE request' = [request EXCEPT ![k].ph = "failed", ![k].refused = TRUE] /\ UNCHANGED task
    /\ UNCHANGED <<acct, intent, flight, bought, stops, crashes>>

SaveSelection(k) ==
    /\ Working(k) /\ At(k, "bound") /\ To(k, "reserve")
    /\ task' = [task EXCEPT ![k].acct = <<request[k].a, request[k].rev>>, ![k].pool = Pool(k),
                              ![k].pin = request[k].id]
    /\ UNCHANGED <<acct, intent, flight, bought, stops, crashes>>

\* A recorded request of the gallery is continued, by its own account alone;
\* otherwise a new one is recorded.  An earlier request of this attempt is
\* never met: an attempt asks once.
Reserve(k) ==
    LET own == <<k, task[k].n>>  at == <<request[k].a, request[k].rev>> IN
    /\ Working(k) /\ At(k, "reserve") /\ Usable(at)
    /\ IF Pinned(k) = {}
         THEN /\ intent' = [intent EXCEPT ![own] = [NoIntent EXCEPT !.st = "REQUESTED", !.a = at[1], !.rev = at[2]]]
              /\ task' = [task EXCEPT ![k].pin = own]
              /\ request' = [request EXCEPT ![k].ph = "locate", ![k].id = own, ![k].submit = TRUE, ![k].sent = FALSE]
         ELSE /\ \E i \in Pinned(k) :
                   request' = IF <<intent[i].a, intent[i].rev>> # at THEN [request EXCEPT ![k].ph = "failed"]
                              ELSE [request EXCEPT ![k].ph = "locate", ![k].id = i, ![k].submit = FALSE, ![k].sent = TRUE]
              /\ UNCHANGED <<intent, task>>
    /\ UNCHANGED <<acct, flight, bought, stops, crashes>>

\* An error; before the form was sent it may be one that another account avoids.
Stopped(k) == \E r \in {FALSE, ~request[k].sent} : request' = [request EXCEPT ![k].ph = "error", ![k].refused = r]

\* The locators: a saved link needs no request; without an entry page only a
\* new request may look for it.
Locate(k) ==
    LET i == request[k].id IN
    /\ Working(k) /\ At(k, "locate")
    /\ \/ intent[i].cont /\ To(k, "ready") /\ UNCHANGED intent
       \/ ~intent[i].cont /\ intent[i].entry /\ To(k, "page") /\ UNCHANGED intent
       \/ ~intent[i].cont /\ ~intent[i].entry /\ request[k].submit
          /\ intent' = [intent EXCEPT ![i].entry = TRUE] /\ To(k, "page")
       \/ ~intent[i].cont /\ ~intent[i].entry /\ Stopped(k) /\ UNCHANGED intent
    /\ UNCHANGED <<acct, task, flight, bought, stops, crashes>>

\* The page shows a link only to an account that has paid, and not always.
Read(k) == To(k, "keep") /\ \E p \in bought : p[2] = request[k].a

\* A form that counts as sent when its answer arrives.
SentLater(k) == request[k].submit /\ To(k, "post")
Post(k) == request[k].submit /\ request' = [request EXCEPT ![k].ph = "post", ![k].sent = TRUE]

Page(k) ==
    /\ Working(k) /\ At(k, "page")
    /\ \/ (Read(k) \/ Stopped(k)) /\ UNCHANGED flight
       \/ Post(k) /\ flight' = flight \union {request[k].id}
    /\ UNCHANGED <<acct, task, intent, bought, stops, crashes>>

\* The provider takes the money or refuses.
Provider ==
    \E i \in flight :
        /\ flight' = flight \ {i}
        /\ bought' = bought \union {<<i, intent[i].a>>} \/ UNCHANGED bought
        /\ UNCHANGED <<acct, task, request, intent, stops, crashes>>

Paid(i) == \E p \in bought : p[1] = i

\* Only a refusal for want of funds or of a login proves that nothing was paid.
Proven(k) == [request[k] EXCEPT !.ph = "error", !.sent = FALSE, !.refused = TRUE]
Answer(k) ==
    LET i == request[k].id IN
    /\ Working(k) /\ At(k, "post")
    /\ \/ To(k, "check")                                          \* no link in the answer, or no answer
       \/ i \notin flight /\ To(k, "error")                       \* any other page
       \/ i \notin flight /\ Paid(i) /\ To(k, "keep")
       \/ i \notin flight /\ ~Paid(i) /\ request' = [request EXCEPT ![k] = Proven(k)]
    /\ UNCHANGED <<acct, task, intent, flight, bought, stops, crashes>>

Check(k) ==
    /\ Working(k) /\ At(k, "check") /\ (Read(k) \/ Stopped(k))
    /\ UNCHANGED <<acct, task, intent, flight, bought, stops, crashes>>

Keep(k) ==
    /\ Working(k) /\ At(k, "keep")
    /\ \/ intent' = [intent EXCEPT ![request[k].id].cont = TRUE] /\ To(k, "ready")
       \/ To(k, "error") /\ UNCHANGED intent
    /\ UNCHANGED <<acct, task, flight, bought, stops, crashes>>

\* A verdict that is recorded over an earlier one.
SettledAlways(i, st) == [intent EXCEPT ![i].st = st]
Settled(i, st) == IF i \in Unresolved THEN [intent EXCEPT ![i].st = st] ELSE intent

Ready(k) ==
    /\ Working(k) /\ At(k, "ready")
    /\ intent' = Settled(request[k].id, "READY") /\ To(k, "download")
    /\ UNCHANGED <<acct, task, flight, bought, stops, crashes>>

\* The record of a failure is written whatever has become of the attempt.
Verdict(k) == IF request[k].sent THEN "UNKNOWN" ELSE "REJECTED"
Outcome(k) ==
    /\ At(k, "error")
    /\ intent' = Settled(request[k].id, Verdict(k)) /\ To(k, "failed")
    /\ UNCHANGED <<acct, task, flight, bought, stops, crashes>>

Deliver(k) ==
    /\ Working(k) /\ At(k, "download")
    /\ \/ To(k, "idle") /\ task' = [task EXCEPT ![k].st = "DONE", ![k].live = FALSE]
       \/ \E r \in BOOLEAN : request' = [request EXCEPT ![k].ph = "failed", ![k].refused = r] /\ UNCHANGED task
    /\ UNCHANGED <<acct, intent, flight, bought, stops, crashes>>

-----------------------------------------------------------------------------
(* The end of an attempt *)

Replaced(t, v) == [t EXCEPT !.st = "STOPPING", !.op = "replace", !.tried = @ \union {v}]

\* The reason decides whether another account takes over; a pool that was not
\* saved cannot be continued.
Leave(k) ==
    /\ task[k].live /\ At(k, "failed")
    /\ request' = [request EXCEPT ![k] = Idle]
    /\ task' = [task EXCEPT ![k] =
         [(IF @.cut THEN @
           ELSE IF request[k].refused /\ @.pool # {None} THEN Replaced(@, request[k].a)
           ELSE [@ EXCEPT !.st = "FAILED"]) EXCEPT !.live = FALSE, !.cut = FALSE]]
    /\ UNCHANGED <<acct, intent, flight, bought, stops, crashes>>

\* CancelledError inside acquire reaches its handler, elsewhere the end.
Cut(r) == [r EXCEPT !.ph = IF @ \in Asking THEN "error" ELSE IF @ = "error" THEN @ ELSE "failed", !.refused = FALSE]
Interrupt(ks, t) ==
    /\ stops < MaxStop /\ stops' = stops + 1
    /\ task' = [k \in Task |-> IF k \in ks THEN [t[k] EXCEPT !.cut = task[k].live] ELSE task[k]]
    /\ request' = [k \in Task |-> IF k \in ks /\ task[k].live THEN Cut(request[k]) ELSE request[k]]
    /\ UNCHANGED <<intent, flight, bought, crashes>>

StopAccount(a) ==
    /\ acct[a].on /\ acct' = [acct EXCEPT ![a].on = FALSE]
    /\ Interrupt({k \in Task : task[k].st = "RUNNING" /\ task[k].bound = a},
                 [k \in Task |-> IF task[k].pool # {None} THEN Replaced(task[k], a)
                                 ELSE [task[k] EXCEPT !.st = "STOPPING", !.op = "cancel"]])

Cancel(k) ==
    /\ task[k].st \in {"PENDING", "RUNNING", "STOPPING"} /\ task[k].op # "cancel"
    /\ IF task[k].st = "RUNNING"
         THEN Interrupt({k}, [task EXCEPT ![k].st = "STOPPING", ![k].op = "cancel"])
         ELSE /\ stops < MaxStop /\ stops' = stops + 1
              /\ task' = [task EXCEPT ![k] = IF @.st = "PENDING" THEN [@ EXCEPT !.st = "CANCELLED"]
                                             ELSE [@ EXCEPT !.op = "cancel"]]
              /\ UNCHANGED <<request, intent, flight, bought, crashes>>
    /\ UNCHANGED acct

\* The work is removed and may be added again; what was asked for stays known.
Remove(k) ==
    /\ task[k].st # "REMOVED" /\ task[k].n > 0
    /\ task' = [task EXCEPT ![k].st = "REMOVED", ![k].op = None, ![k].cut = task[k].live]
    /\ request' = IF task[k].live THEN [request EXCEPT ![k] = Cut(@)] ELSE request
    /\ UNCHANGED <<acct, intent, flight, bought, stops, crashes>>

\* The operation, once its attempt has left.
Finish(k) ==
    /\ task[k].st = "STOPPING" /\ ~task[k].live
    /\ \/ task[k].op = "cancel" /\ task' = [task EXCEPT ![k].st = "CANCELLED", ![k].op = None]
       \/ task[k].op = "replace" /\ \E c \in Choices(k) :
            task' = [task EXCEPT ![k].st = "PENDING", ![k].op = None, ![k].acct = c[1], ![k].pin = c[2]]
       \/ task[k].op = "replace" /\ Choices(k) = {} /\ task' = [task EXCEPT ![k].st = "FAILED", ![k].op = None]
    /\ UNCHANGED <<acct, request, intent, flight, bought, stops, crashes>>

Reclaim(k) ==
    /\ task[k].st = "RUNNING" /\ ~task[k].live
    /\ task' = [task EXCEPT ![k].st = "PENDING"]
    /\ UNCHANGED <<acct, request, intent, flight, bought, stops, crashes>>

\* The operator's retry opens a new round and a new queue task; the details keep
\* the recorded request.
Retry(k) ==
    /\ task[k].st \in {"FAILED", "CANCELLED"} /\ task[k].n < MaxAttempt[k]
    /\ task' = [task EXCEPT ![k].st = "PENDING", ![k].acct = None, ![k].tried = {}, ![k].pool = {None},
                              ![k].from = task[k].n]
    /\ UNCHANGED <<acct, request, intent, flight, bought, stops, crashes>>

\* A stopped account is used again, after an edit with a new version.
Enable(a) ==
    /\ ~acct[a].on /\ \A k \in Task : request[k].ph \in Leased => request[k].a # a
    /\ \E edited \in BOOLEAN : acct' = [acct EXCEPT ![a] = [on |-> TRUE, rev |-> @.rev + IF edited THEN 1 ELSE 0]]
    /\ UNCHANGED <<task, request, intent, flight, bought, stops, crashes>>

Crash ==
    /\ crashes < MaxCrash /\ crashes' = crashes + 1
    /\ task' = [k \in Task |-> [task[k] EXCEPT !.live = FALSE, !.cut = FALSE]]
    /\ request' = [k \in Task |-> Idle]
    /\ UNCHANGED <<acct, intent, flight, bought, stops>>

-----------------------------------------------------------------------------
Init ==
    /\ acct = [a \in Account |-> [rev |-> 1, on |-> TRUE]]
    /\ task = [k \in Task |-> [st |-> "PENDING", op |-> None, n |-> 0, acct |-> None, pool |-> {None}, tried |-> {},
                               pin |-> None, from |-> 0, bound |-> None, live |-> FALSE, cut |-> FALSE]]
    /\ request = [k \in Task |-> Idle]
    /\ intent = [i \in Id |-> NoIntent]
    /\ flight = {} /\ bought = {} /\ stops = 0 /\ crashes = 0

Attempt(k) ==
    \/ Claim(k) \/ Choose(k) \/ Lease(k) \/ SaveSelection(k) \/ Reserve(k) \/ Locate(k) \/ Page(k) \/ Answer(k)
    \/ Check(k) \/ Keep(k) \/ Ready(k) \/ Outcome(k) \/ Deliver(k) \/ Leave(k)
Control(k) == Cancel(k) \/ Remove(k) \/ Finish(k) \/ Reclaim(k) \/ Retry(k)

Next ==
    \/ \E k \in Task : Attempt(k) \/ Control(k)
    \/ \E a \in Account : StopAccount(a) \/ Enable(a)
    \/ Provider \/ Crash

Spec == Init /\ [][Next]_vars
-----------------------------------------------------------------------------
(* Types and shapes: at most one intent of the gallery is unresolved (the unique
   index of migration 036), a request under way has a recorded intent, and
   nothing is bought without one (ArchiveIntents.reserve). *)
TypeOK ==
    /\ \A i \in Id : intent[i].st \in {"NONE", "REQUESTED", "UNKNOWN", "READY", "REJECTED"}
    /\ Cardinality(Unresolved) <= 1
    /\ \A k \in Task : request[k].ph \in Asking => request[k].id \in Id /\ intent[request[k].id].st # "NONE"
    /\ \A p \in bought : p[1] \in Id /\ intent[p[1]].st # "NONE"

(* The gallery is paid again only for another download of it, and only after
   the earlier payment has been confirmed: neither a lost answer, nor a retry,
   a takeover by another account, a restart or a second download of the same
   gallery repeats an unresolved request (reserve, remember and _outcome of
   exhentai/archive.py against the account selection of exhentai/accounts.py). *)
PaidOnce ==
    \A i, j \in {p[1] : p \in bought} : i # j => i[1] # j[1] /\ "READY" \in {intent[i].st, intent[j].st}

(* No payment is ever on record as a refusal, so that it is not forgotten: an
   intent is rejected only on proof that the provider did not charge
   (archive_response_error and the except block of the request). *)
ChargeRemembered == \A p \in bought : intent[p[1]].st # "REJECTED"
=============================================================================
