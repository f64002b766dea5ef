------------------------------- MODULE Intake -------------------------------
(***************************************************************************)
(* The intake of received messages: src/app/candidates/.  Every account    *)
(* that sees a message saves an observation of it; the observations of one *)
(* identity (a gallery, or the channel message when no gallery is named)   *)
(* share one entry, whose claim decides which processor may judge the      *)
(* input and publish the work.  Messages are edited, works are removed and *)
(* added again, two works turn out to be one gallery, leases run out and   *)
(* the process dies between any two transactions.                          *)
(*                                                                         *)
(* db is the database; every action is one transaction on it, written as   *)
(* an operator from a database to the databases it may commit ({} when the *)
(* transaction raises and is rolled back).                                 *)
(***************************************************************************)
EXTENDS Integers, FiniteSets, Sequences

CONSTANTS
    Message,      \* messages of shared channels
    Account,      \* receiving accounts, each with one listener
    Post,         \* <<m, a>>: account a receives message m
    Direct,       \* the messages that are not forwarded
    Gallery,      \* galleries a text may name
    Plain,        \* a text without gallery, still a candidate
    Gone,         \* a text the parser takes nothing from (after an edit)
    Manual,       \* the administrator's request "add this gallery"
    None,
    Work,         \* ids of candidates, 1 .. n
    MaxAttempts,  \* max_attempts of claim_entry (3 in the code)
    MaxChange     \* bound: edits, removals, pasted links and changes of subscriptions

ASSUME IntakeConstants ==
    /\ Post \subseteq Message \X Account
    /\ Direct \subseteq Message
    /\ Gallery \intersect Message = {} /\ {Plain, Gone} \intersect Gallery = {}
    /\ Manual \notin Account
    /\ None \notin Gallery \union Message \union Account \union {Plain, Gone, Manual}
    /\ None \notin Post /\ None \notin Work
    /\ \E n \in Work : Work = 1 .. n
    /\ MaxAttempts \in Nat /\ MaxChange \in Nat

VARIABLES
    db,           \* the tables; see the operators below
    wire,         \* updates an account received and has not acknowledged
    worker,       \* the processors that run now: IngestProcessors.tasks
    subscribed,   \* accounts whose subscription is enabled
    written,      \* messages that exist
    spent         \* what is used of the bounds

vars == <<db, wire, worker, subscribed, written, spent>>

Key      == Gallery \union Message
Text     == Gallery \union {Plain, Gone}
Worker   == Account \union {Manual}
KeyOf(p, t) == IF t \in Gallery THEN t ELSE p[1]

-----------------------------------------------------------------------------
(* Rows.  A revision of an entry is left out: with the owner, which is     *)
(* fresh for every claim, it names the same claim.                         *)

NewEntry == [st |-> "PENDING", gen |-> 1, input |-> None, owner |-> None, live |-> FALSE,
             wait |-> FALSE, attempts |-> 0, work |-> None, removed |-> FALSE, before |-> {}]
Unseen   == [on |-> None, gen |-> 0, active |-> FALSE, ok |-> FALSE, text |-> None, rev |-> 0]
NoWork   == [is |-> FALSE, gid |-> None, run |-> "none"]
NoChange == [st |-> "NONE", text |-> None, work |-> None, rev |-> 0]
Idle     == [key |-> None, gen |-> 0, input |-> None, rev |-> 0, text |-> None, post |-> None]

Known(d, p)   == d.obs[p].on # None
Running(d, c) == d.work[c].run \in {"active", "stopping"}
Changing(d, k) == \E p \in Post : d.change[p].st = "PENDING" /\ d.change[p].text = k
WorksOf(d, t) == {c \in Work : d.work[c].is /\ t \in Gallery /\ d.work[c].gid = t}
Sources(d, k) == {p \in Post : /\ d.obs[p].on = k /\ d.obs[p].gen = d.entry[k].gen
                               /\ d.obs[p].active /\ d.obs[p].ok}
Eligible(d, p) == p[2] \in subscribed /\ d.obs[p].active

\* A publication that links its own input only.
LinkInput(d, k) == [d EXCEPT !.link = @ \union {<<d.entry[k].work, d.entry[k].input>>}]
LinkSources(d, k) ==
    [d EXCEPT !.link = @ \union {<<d.entry[k].work, p>> : p \in Sources(d, k)}]

(* The trigger ingest_candidate_removed runs inside the deletion. *)
Delete(d, c) ==
    [d EXCEPT !.work[c] = NoWork,
              !.link    = {l \in @ : l[1] # c},
              !.entry   = [k \in Key |->
                  IF d.entry[k].work = c
                  THEN [d.entry[k] EXCEPT !.st = "REMOVED", !.work = None, !.owner = None, !.wait = FALSE,
                                          !.live = FALSE, !.removed = TRUE, !.before = written]
                  ELSE d.entry[k]]]

(* A work nobody reviewed or downloaded goes with its last source. *)
DeleteUnused(d, cs) ==
    LET unused == {c \in cs : /\ d.work[c].is /\ d.work[c].run = "none"
                              /\ \A l \in d.link : l[1] # c}
    IN  IF unused = {} THEN d ELSE Delete(d, CHOOSE c \in unused : TRUE)

\* A release that leaves the owner in place.
ReleasedOwned(e, st) == [e EXCEPT !.st = st, !.live = FALSE, !.wait = FALSE]
Released(e, st) == [e EXCEPT !.st = st, !.owner = None, !.live = FALSE, !.wait = FALSE]
Revoked(d, k) ==
    IF d.entry[k].st = "PROCESSING" THEN [d EXCEPT !.entry[k] = Released(@, "PENDING")] ELSE d

-----------------------------------------------------------------------------
(* Claims. *)

\* A claim that is only checked for its generation.
HoldsGeneration(d, w) == d.entry[worker[w].key].gen = worker[w].gen

(* Later than the claim nothing may have touched the entry or its input. *)
Holds(d, w) ==
    LET j == worker[w]
        e == d.entry[j.key]
        o == d.obs[j.input]
    IN  /\ e.st = "PROCESSING" /\ e.owner = w /\ e.live /\ e.gen = j.gen
        /\ j.input # None => /\ e.input = j.input
                             /\ o.rev = j.rev /\ o.on = j.key /\ o.gen = j.gen /\ o.active

InputValid(d, k, sourceless) ==
    LET e == d.entry[k]
    IN  IF e.input = None THEN sourceless /\ k \in Gallery
        ELSE d.obs[e.input].on = k /\ d.obs[e.input].gen = e.gen /\ d.obs[e.input].active

Claimable(d, k) ==
    /\ ~Changing(d, k)
    /\ d.entry[k].st = "PENDING" \/ (d.entry[k].st = "PROCESSING" /\ ~d.entry[k].live)
Exhausted(d, k) == Claimable(d, k) /\ d.entry[k].attempts >= MaxAttempts
Claiming(d, k)  == Claimable(d, k) /\ ~Exhausted(d, k)

Blocked(d, k) == [d EXCEPT !.entry[k] = Released(@, "BLOCKED")]
Claimed(d, k, w) ==
    [d EXCEPT !.entry[k] = [@ EXCEPT !.st = "PROCESSING", !.owner = w, !.live = TRUE,
                                     !.wait = FALSE, !.attempts = d.entry[k].attempts + 1]]

Finish(d, k, c) ==
    LET f == [d EXCEPT !.entry[k] = [Released(@, IF c = None THEN "IGNORED" ELSE "LINKED")
                                     EXCEPT !.work = c]]
    IN  IF c = None THEN f ELSE LinkSources(f, k)

Fail(d, w, retry) ==      \* fail_claim: wait while retry_at may lie ahead
    IF Holds(d, w)
    THEN [d EXCEPT !.entry[worker[w].key] = [Released(@, "PENDING") EXCEPT !.wait = retry]]
    ELSE d

Reselect(d, k) ==
    LET e == IF d.entry[k].st = "PROCESSING" /\ ~d.entry[k].live
             THEN Released(d.entry[k], "PENDING") ELSE d.entry[k]
        f == [d EXCEPT !.entry[k] = e]
        others == {p \in Sources(d, k) : Eligible(d, p)}
    IN  IF e.st # "PENDING" \/ e.input = None \/ Eligible(d, e.input) \/ others = {} THEN {f}
        ELSE {[f EXCEPT !.entry[k].input = p, !.entry[k].attempts = 0, !.entry[k].wait = FALSE] : p \in others}

Active(k) == \E w \in Worker : worker[w].key = k

-----------------------------------------------------------------------------
(* Registration of an observation. *)

SameMessage(d, p, k) == {q \in Post : q[1] = p[1] /\ d.obs[q].on = k}

\* Any message of a removed identity counts as a new post.
GenerationNext(d, p, k, edit) == IF d.entry[k].st = "REMOVED" THEN d.entry[k].gen + 1 ELSE d.entry[k].gen
Generation(d, p, k, edit) ==
    LET e   == d.entry[k]
        new == ~edit /\ p[1] \in Direct /\ p[1] \notin e.before
    IN  CASE ~e.removed -> e.gen
          [] e.removed /\ SameMessage(d, p, k) # {} ->
                 d.obs[CHOOSE q \in SameMessage(d, p, k) : TRUE].gen
          [] OTHER ->
                 IF e.st = "REMOVED" THEN (IF new THEN e.gen + 1 ELSE e.gen)
                 ELSE IF new THEN e.gen ELSE IF e.gen = 1 THEN 1 ELSE e.gen - 1

Insert(d, p, t, edit) ==
    LET k == KeyOf(p, t)
        g == Generation(d, p, k, edit)
        e == IF d.entry[k].st = "REMOVED" /\ g > d.entry[k].gen
             THEN [d.entry[k] EXCEPT !.st = "PENDING", !.gen = g, !.input = None, !.attempts = 0]
             ELSE d.entry[k]
        f == [d EXCEPT !.obs[p] = [on |-> k, gen |-> g, active |-> TRUE, ok |-> TRUE,
                                   text |-> t, rev |-> 1],
                       !.entry[k] = IF e.input = None /\ g = e.gen
                                    THEN [e EXCEPT !.input = p] ELSE e]
    IN  IF e.st = "LINKED" /\ g = e.gen
        THEN [f EXCEPT !.link = @ \union {<<e.work, p>>}] ELSE f

-----------------------------------------------------------------------------
(* Edits. *)

MergeInto(d, c, x) ==     \* merge_candidates
    IF c = x THEN d ELSE
    [d EXCEPT !.link  = {<<IF l[1] = c THEN x ELSE l[1], l[2]>> : l \in @},
              !.entry = [k \in Key |-> IF d.entry[k].work = c
                                       THEN [d.entry[k] EXCEPT !.work = x] ELSE d.entry[k]],
              !.change = [p \in Post |->
                  IF d.change[p].st = "PENDING" /\ d.change[p].work = c
                  THEN [d.change[p] EXCEPT !.work = x] ELSE d.change[p]],
              !.work[x].run = IF @ = "none" THEN d.work[c].run ELSE @,
              !.work[c] = NoWork]

\* An edit that does not look for the work of the gallery it names.
CompleteAlone(d, p, t) ==
    LET k == d.obs[p].on
        c == d.entry[k].work
    IN  [d EXCEPT
            !.work[c].gid = t,
            !.obs = [q \in Post |-> IF d.obs[q].on = k /\ d.obs[q].gen = d.entry[k].gen
                                    THEN [d.obs[q] EXCEPT !.on = t, !.gen = d.entry[t].gen]
                                    ELSE d.obs[q]],
            !.entry[k] = Released(@, "MERGED"),
            !.entry[t] = [Released(@, "LINKED") EXCEPT !.work = c]]

(* An edit that names the gallery of an unknown work takes the whole work. *)
Complete(d, p, t) ==
    LET k == d.obs[p].on
        c == d.entry[k].work
        x == IF WorksOf(d, t) = {} THEN c ELSE CHOOSE y \in WorksOf(d, t) : TRUE
        f == [MergeInto(d, c, x) EXCEPT !.work[x].gid = t]
    IN  [f EXCEPT
            !.obs = [q \in Post |-> IF d.obs[q].on = k /\ d.obs[q].gen = d.entry[k].gen
                                    THEN [d.obs[q] EXCEPT !.on = t, !.gen = d.entry[t].gen]
                                    ELSE d.obs[q]],
            !.entry[k] = Released(@, "MERGED"),
            !.entry[t] = [Released(@, "LINKED") EXCEPT !.work = x]]

(* Any other edit of the identity takes this observation alone. *)
Move(d, p, k) ==
    LET c == d.entry[d.obs[p].on].work
        f == [d EXCEPT !.link = {l \in @ : l[2] # p},
                       !.obs[p] = [@ EXCEPT !.on = k, !.gen = d.entry[k].gen]]
    IN  DeleteUnused(f, {c} \ {None})

Rewrite(d, p, t) ==
    LET k == d.obs[p].on
        e == d.entry[k]
        f == [d EXCEPT
                !.obs[p] = [@ EXCEPT !.text = t, !.rev = d.obs[p].rev + 1, !.active = TRUE, !.ok = TRUE],
                !.entry[k] =
                    IF e.st \in {"IGNORED", "BLOCKED"}
                    THEN [e EXCEPT !.st = "PENDING", !.attempts = 0, !.wait = FALSE, !.input = p]
                    ELSE IF e.input = None THEN [e EXCEPT !.input = p] ELSE e]
    IN  IF e.st = "LINKED" THEN LinkSources(f, k) ELSE f

Edit(d, p, t) ==          \* edit_observation
    LET k == d.obs[p].on
        e == d.entry[k]
        completes == /\ KeyOf(p, t) # k /\ t \in Gallery
                     /\ e.work # None /\ d.work[e.work].gid = None
    IN  CASE e.st = "PROCESSING" -> {}
          [] e.st = "REMOVED" \/ (KeyOf(p, t) = k /\ d.obs[p].text = t) -> {d}
          [] OTHER ->
                IF completes
                THEN IF Running(d, e.work) \/ d.entry[t].st = "REMOVED" THEN {}
                     ELSE {Rewrite(Complete(d, p, t), p, t)}
                ELSE IF KeyOf(p, t) = k THEN {Rewrite(d, p, t)}
                ELSE {Rewrite(Move(d, p, KeyOf(p, t)), p, t)}

Deactivate(d, p) ==       \* deactivate_observation
    LET o == d.obs[p]
        works == {l[1] : l \in {n \in d.link : n[2] = p}}
        f == [d EXCEPT !.link = {l \in @ : l[2] # p},
                       !.obs[p] = [@ EXCEPT !.active = FALSE, !.ok = FALSE, !.rev = o.rev + 1]]
        g == DeleteUnused(f, works)
    IN  CASE ~Known(d, p) -> {d}
          [] Known(d, p) /\ d.entry[o.on].st = "PROCESSING" -> {}
          [] OTHER -> IF d.entry[o.on].st = "PENDING" /\ d.entry[o.on].input = p
                      THEN {[g EXCEPT !.entry[o.on].st = "IGNORED", !.entry[o.on].wait = FALSE]} ELSE {g}

StopWork(d, c) ==
    IF d.work[c].run = "active" THEN [d EXCEPT !.work[c].run = "stopping"] ELSE d

(* The work whose downloads an edit of p to t must stop first. *)
Stops(d, p, t) ==
    IF ~Known(d, p) \/ d.obs[p].gen # d.entry[d.obs[p].on].gen
       \/ d.entry[d.obs[p].on].st = "REMOVED" THEN {}
    ELSE {c \in Work : /\ <<c, p>> \in d.link
                       /\ \/ d.change[p].st = "PENDING"
                          \/ d.work[c].gid = None /\ t \in Gallery /\ Running(d, c)}

Defer(d, p, t, c) ==      \* defer_observation_change
    LET f == [d EXCEPT !.change[p] = [st |-> "PENDING", text |-> t, work |-> c,
                                      rev |-> d.obs[p].rev + 1],
                       !.obs[p].rev = @ + 1]
    IN  StopWork(IF t \in Gallery THEN Revoked(f, t) ELSE f, c)

-----------------------------------------------------------------------------
(* The transaction that takes one message in. *)

Registered(d, p, t, edit) ==
    CASE ~Known(d, p) -> {Insert(d, p, t, edit)}
      [] Known(d, p) /\ edit /\ d.obs[p].gen = d.entry[d.obs[p].on].gen -> Edit(d, p, t)
      [] OTHER -> {d}

(* What prepare_observation may do with the entry k of a message of account *)
(* a that names t; the empty set: it raises.                               *)
Choices(d, k, t, a) ==
    LET adopts == d.entry[k].st = "PENDING" /\ WorksOf(d, t) # {}
        mine   == d.entry[k].input = None \/ d.entry[k].input[2] = a
    IN  CASE ~(adopts \/ mine) \/ ~Claimable(d, k) -> {"keep"}
          [] (adopts \/ mine) /\ Exhausted(d, k) -> {"block"}
          [] OTHER -> IF ~InputValid(d, k, FALSE) \/ (adopts /\ k \in Gallery \ {t}) THEN {}
                      ELSE IF adopts THEN {"adopt"} ELSE {"claim"}

Chosen(d, k, t, a) ==
    IF Active(k) THEN {"keep"}
    ELSE Choices(d, k, t, a) \union (IF d.entry[k].wait THEN {"keep"} ELSE {})

Prepared(d, k, t, a, choice) ==
    CASE choice = "keep"  -> d
      [] choice = "block" -> Blocked(d, k)
      [] choice = "claim" -> Claimed(d, k, a)
      [] choice = "adopt" -> Finish([d EXCEPT !.entry[k].attempts = @ + 1], k,
                                    CHOOSE x \in WorksOf(d, t) : TRUE)

Selected(d, k) == IF Active(k) THEN {d} ELSE Reselect(d, k)

Start(d, k, post) ==
    LET q == d.entry[k].input
    IN  [key |-> k, gen |-> d.entry[k].gen, input |-> q, post |-> post,
         rev |-> IF q = None THEN 0 ELSE d.obs[q].rev,
         text |-> IF q = None THEN k ELSE d.obs[q].text]

(* The update of post is acknowledged here, or when its processor ends.    *)
TakeIn(p, t, edit, post) ==
    \E e \in Registered(db, p, t, edit) : LET k == e.obs[p].on IN
    \E f \in Selected(e, k) : \E choice \in Chosen(f, k, t, p[2]) :
        /\ db' = Prepared(f, k, t, p[2], choice)
        /\ IF choice = "claim"
           THEN worker' = [worker EXCEPT ![p[2]] = Start(db', k, post)] /\ wire' = wire
           ELSE /\ wire' = IF post = None THEN wire ELSE [wire EXCEPT ![post] = Tail(@)]
                /\ worker' = worker

-----------------------------------------------------------------------------
Init ==
    /\ db = [entry  |-> [k \in Key |-> NewEntry],
             obs    |-> [p \in Post |-> Unseen],
             work   |-> [c \in Work |-> NoWork],
             link   |-> {},
             change |-> [p \in Post |-> NoChange]]
    /\ wire = [p \in Post |-> <<>>]
    /\ worker = [w \in Worker |-> Idle]
    /\ subscribed = Account
    /\ written = {}
    /\ spent = 0

(* The channel: an update reaches each account that receives the message. *)
Sent(m, t, edit) ==
    wire' = [p \in Post |-> IF p[1] = m THEN Append(wire[p], [text |-> t, edit |-> edit])
                            ELSE wire[p]]

Write(m, t) ==
    /\ m \notin written /\ t # Gone
    /\ written' = written \union {m}
    /\ Sent(m, t, FALSE)
    /\ UNCHANGED <<db, worker, subscribed, spent>>

EditMessage(m, t) ==
    /\ m \in written /\ spent < MaxChange
    /\ spent' = spent + 1
    /\ Sent(m, t, TRUE)
    /\ UNCHANGED <<db, worker, subscribed, written>>

Subscription(a) ==
    /\ spent < MaxChange
    /\ spent' = spent + 1
    /\ subscribed' = IF a \in subscribed THEN subscribed \ {a} ELSE subscribed \union {a}
    /\ UNCHANGED <<db, wire, worker, written>>

(* process_message. *)
Waiting(p) == worker[p[2]] = Idle /\ wire[p] # <<>>
Rejects(p) == p[2] \notin subscribed \/ Head(wire[p]).text = Gone

Receive(p) ==
    /\ Waiting(p) /\ ~Rejects(p)
    /\ LET u == Head(wire[p])
           deferred == IF u.edit THEN Stops(db, p, u.text) ELSE {}
       IN  IF deferred # {}
           THEN /\ \E c \in deferred : db' = Defer(db, p, u.text, c)
                /\ wire' = [wire EXCEPT ![p] = Tail(@)]
                /\ UNCHANGED worker
           ELSE TakeIn(p, u.text, u.edit, p)
    /\ UNCHANGED <<subscribed, written, spent>>

Reject(p) ==
    /\ Waiting(p) /\ Rejects(p)
    /\ wire' = [wire EXCEPT ![p] = Tail(@)]
    /\ LET u == Head(wire[p])
           deferred == Stops(db, p, Gone)
       IN  IF ~u.edit THEN db' = db
           ELSE IF deferred # {} THEN \E c \in deferred : db' = Defer(db, p, Gone, c)
           ELSE db' \in Deactivate(db, p)
    /\ UNCHANGED <<worker, subscribed, written, spent>>

(* process_pending_entries: the inputs that are due, once more. *)
Due(k) == /\ Claimable(db, k) \/ (Changing(db, k) /\ db.entry[k].st = "PENDING")
          /\ db.entry[k].input # None /\ ~Active(k)

Scan(k) ==
    /\ Due(k)
    /\ db' \in Reselect(db, k)
    /\ UNCHANGED <<wire, worker, subscribed, written, spent>>

Recover(p) ==
    /\ worker[p[2]] = Idle /\ p[2] \in subscribed
    /\ \E k \in Key : Due(k) /\ db.entry[k].input = p
    /\ TakeIn(p, db.obs[p].text, FALSE, None)
    /\ UNCHANGED <<subscribed, written, spent>>

(* The claimed processor judges its input and publishes (_execute_claim). *)
Acknowledged(w) ==
    IF worker[w].post = None THEN wire ELSE [wire EXCEPT ![worker[w].post] = Tail(@)]
Leave(w) == worker' = [worker EXCEPT ![w] = Idle]
NextId(d) == {c \in Work : ~d.work[c].is /\ \A b \in Work : b < c => d.work[b].is}

Created(d, j, ids, run) ==
    LET c == CHOOSE x \in ids : TRUE
    IN  Finish([d EXCEPT !.work[c] = [is |-> TRUE, run |-> run,
                    gid |-> IF j.text \in Gallery THEN j.text ELSE None]], j.key, c)

Judged(d, j, accept) ==
    LET f == [d EXCEPT !.obs[j.input].ok = accept]
        x == WorksOf(d, j.text)
    IN  CASE ~accept -> {Finish(f, j.key, None)}
          [] accept /\ x # {} -> {Finish(f, j.key, CHOOSE c \in x : TRUE)}
          [] OTHER -> IF NextId(d) = {} THEN {} ELSE {Created(f, j, NextId(d), "none")}

Publish(w) ==
    /\ w \in Account /\ worker[w] # Idle
    /\ LET j == worker[w]
       IN  /\ Holds(db, w) /\ Eligible(db, j.input)
           /\ \E accept \in BOOLEAN : db' \in Judged(db, j, accept)
    /\ wire' = Acknowledged(w)
    /\ Leave(w)
    /\ UNCHANGED <<subscribed, written, spent>>

(* The subscription ended while the input was judged. *)
Withdraw(w) ==
    /\ w \in Account /\ worker[w] # Idle
    /\ Holds(db, w) /\ ~Eligible(db, worker[w].input)
    /\ db' \in Reselect(Fail(db, w, FALSE), worker[w].key)
    /\ Leave(w)
    /\ UNCHANGED <<wire, subscribed, written, spent>>

(* An error, a revoked claim, or the cancellation by a newer edit, by the  *)
(* stop of the account or by its listener.                                 *)
ProcessorFails(w) ==
    /\ worker[w] # Idle
    /\ db' = Fail(db, w, TRUE)
    /\ Leave(w)
    /\ UNCHANGED <<wire, subscribed, written, spent>>

LeaseExpires(k) ==
    /\ db.entry[k].live
    /\ db' = [db EXCEPT !.entry[k].live = FALSE]
    /\ UNCHANGED <<wire, worker, subscribed, written, spent>>

Crash ==
    /\ worker' = [w \in Worker |-> Idle]
    /\ UNCHANGED <<db, wire, subscribed, written, spent>>

-----------------------------------------------------------------------------
(* The administrator. *)

Readded(e) ==
    IF e.st \in {"REMOVED", "IGNORED", "BLOCKED", "MERGED"}
    THEN [Released(e, "PENDING") EXCEPT !.gen = @ + 1, !.input = None, !.attempts = 0, !.work = None]
    ELSE e

AddGallery(g) ==
    LET d == [db EXCEPT !.entry[g] = Readded(@)]
    IN  /\ worker[Manual] = Idle /\ spent < MaxChange
        /\ WorksOf(db, g) = {} /\ ~Active(g)
        /\ Claiming(d, g) /\ InputValid(d, g, TRUE)
        /\ db' = Claimed(d, g, Manual)
        /\ worker' = [worker EXCEPT ![Manual] = Start(db', g, None)]
        /\ spent' = spent + 1
        /\ UNCHANGED <<wire, subscribed, written>>

PublishManual ==
    LET j == worker[Manual]
    IN  /\ j # Idle /\ Holds(db, Manual)
        /\ WorksOf(db, j.key) = {} /\ NextId(db) # {}
        /\ db' = Created(db, [j EXCEPT !.text = j.key], NextId(db), "kept")
        /\ Leave(Manual)
        /\ UNCHANGED <<wire, subscribed, written, spent>>

Download(c) ==
    /\ db.work[c].is /\ db.work[c].run \in {"none", "kept"}
    /\ \A p \in Post : ~(db.change[p].st = "PENDING" /\ db.change[p].work = c)
    /\ db' = [db EXCEPT !.work[c].run = "active"]
    /\ UNCHANGED <<wire, worker, subscribed, written, spent>>

DownloadEnds(c) ==       \* it completes, or its stop is confirmed
    /\ Running(db, c)
    /\ db' = [db EXCEPT !.work[c].run = "kept"]
    /\ UNCHANGED <<wire, worker, subscribed, written, spent>>

Remove(c) ==
    /\ db.work[c].is /\ spent < MaxChange
    /\ db' = Delete(db, c)
    /\ spent' = spent + 1
    /\ UNCHANGED <<wire, worker, subscribed, written>>

-----------------------------------------------------------------------------
(* The operation loop completes the edits that waited for a stop. *)

StillThatSource(d, p) ==
    d.obs[p].rev = d.change[p].rev /\ <<d.change[p].work, p>> \in d.link

Settled(d, p, st) == [d EXCEPT !.change[p].st = st]

ProcessChange(p) ==
    LET n == db.change[p]
        f == StopWork(db, n.work)
        done == IF n.text = Gone THEN Deactivate(db, p) ELSE Edit(db, p, n.text)
        conflict == WorksOf(db, n.text) \ {n.work} # {}   \* fields, pins or reviews disagree
    IN  /\ n.st = "PENDING"
        /\ CASE ~StillThatSource(db, p) -> db' = Settled(db, p, "FAILED")
             [] StillThatSource(db, p) /\ Running(db, n.work) -> db' = f
             [] OTHER -> \/ \E d \in done : db' = Settled(d, p, "COMPLETED")
                         \/ (done = {} \/ conflict) /\ db' = Settled(db, p, "FAILED")
        /\ UNCHANGED <<wire, worker, subscribed, written, spent>>

RetryChange(p) ==        \* retry_operation
    LET n == db.change[p]
        f == [db EXCEPT !.change[p].st = "PENDING"]
    IN  /\ n.st = "FAILED" /\ StillThatSource(db, p)
        /\ db.obs[p].gen = db.entry[db.obs[p].on].gen /\ db.entry[db.obs[p].on].st # "REMOVED"
        /\ db' = StopWork(IF n.text \in Gallery THEN Revoked(f, n.text) ELSE f, n.work)
        /\ UNCHANGED <<wire, worker, subscribed, written, spent>>

-----------------------------------------------------------------------------
Next ==
    \/ \E m \in Message, t \in Text : Write(m, t) \/ EditMessage(m, t)
    \/ \E a \in Account : Subscription(a)
    \/ \E p \in Post : Receive(p) \/ Reject(p) \/ Recover(p) \/ ProcessChange(p) \/ RetryChange(p)
    \/ \E k \in Key : Scan(k) \/ LeaseExpires(k)
    \/ \E w \in Worker : Publish(w) \/ Withdraw(w) \/ ProcessorFails(w)
    \/ \E g \in Gallery : AddGallery(g)
    \/ \E c \in Work : Download(c) \/ DownloadEnds(c) \/ Remove(c)
    \/ PublishManual
    \/ Crash

Spec == Init /\ [][Next]_vars

-----------------------------------------------------------------------------
(* Types and shapes of the tables: an owner and a lease exist exactly while an
   entry is being processed, and a linked entry names an existing work. *)
TypeOK ==
    /\ db.entry \in [Key -> [st : {"PENDING", "PROCESSING", "LINKED", "IGNORED", "REMOVED",
                                   "MERGED", "BLOCKED"},
                             gen : Nat \ {0}, input : Post \union {None},
                             owner : Worker \union {None}, live : BOOLEAN, wait : BOOLEAN,
                             attempts : 0 .. MaxAttempts, work : Work \union {None},
                             removed : BOOLEAN, before : SUBSET Message]]
    /\ db.link \subseteq Work \X Post
    /\ \A k \in Key : LET e == db.entry[k] IN
        /\ (e.st = "PROCESSING") = (e.owner # None)
        /\ e.live => e.st = "PROCESSING"
        /\ e.st = "LINKED" => e.work # None /\ db.work[e.work].is

(* Two works are never one gallery, whoever found it: two accounts, an edit that
   names the gallery of an unknown work later, a pasted link, a processor that
   was judging meanwhile (publish_candidate, edit_observation, merge_candidates;
   gallery_candidate refuses to go on once it is violated). *)
OneWorkPerGallery ==
    \A b, c \in Work : db.work[b].is /\ db.work[c].is /\ db.work[b].gid = db.work[c].gid
                       /\ db.work[b].gid # None => b = c

(* The sources of a work are active observations of the current generation of an
   entry that is linked to this work: an edited, moved, withdrawn or removed post
   leaves no source behind from which the work would be downloaded. *)
SourcesAreCurrent ==
    \A l \in db.link :
        LET o == db.obs[l[2]]
            e == db.entry[o.on]
        IN  db.work[l[1]].is /\ o.active /\ e.st = "LINKED" /\ e.work = l[1] /\ e.gen = o.gen

(* Nor is one lost: every eligible observation of a linked entry is a source of
   its work, whether it came before the publication, during it or after it
   (finish_claim, register_observation, edit_observation). *)
PostsAreKept ==
    \A k \in Key : db.entry[k].st = "LINKED" =>
        \A p \in Sources(db, k) : <<db.entry[k].work, p>> \in db.link

(* A post that existed when its work was removed does not come back as a source,
   unless an edit gives it something new to say: not by a late copy of another
   account, and not when the gallery is added again (_observation_generation). *)
OldPostsStayOut ==
    \A l \in db.link : LET p == l[2] IN
        (\A q \in Post : q[1] = p[1] => db.obs[q].rev <= 1)
            => p[1] \notin db.entry[db.obs[p].on].before

(* A message whose turn has come can always be taken in: registered, claimed or
   set aside for later.  One that is refused is neither acknowledged nor passed
   over (process_user_inbox). *)
NoMessageRefused ==
    \A p \in Post : Waiting(p) /\ ~Rejects(p) /\ ~Head(wire[p]).edit =>
        \E e \in Registered(db, p, Head(wire[p]).text, FALSE) : LET k == e.obs[p].on IN
        \E f \in Selected(e, k) : Chosen(f, k, Head(wire[p]).text, p[2]) # {}
=============================================================================
