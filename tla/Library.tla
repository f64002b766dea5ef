------------------------------ MODULE Library ------------------------------
(***************************************************************************)
(* The published archives (CBZ) of several works in one library, and       *)
(* everything in the program that touches them: the pack worker            *)
(* (conversion/service.py, publication.py), renames and refiles with their *)
(* journal (downloads/archived.py, conversion/relocation.py), the rewrite  *)
(* of ComicInfo after a metadata edit, and removals with their manifest.   *)
(* Packing has the publication of one path in detail; here it is two steps.*)
(* An action is one transaction or one file operation.  A transaction that *)
(* also renames a file is two actions, and `writing` is SQLite's write lock*)
(* between them: it holds back transactions, but no file operation.        *)
(***************************************************************************)
EXTENDS Naturals, FiniteSets

CONSTANTS
    Work,        \* candidates
    Path,        \* places in the library
    None,
    MaxFile,     \* bound: versions of the archive of one work
    MaxPack,     \* bound: packs or refiles queued, over all works
    MaxRename,   \* bound: renames by the operator
    MaxEdit,     \* bound: metadata edits
    MaxRemoval,  \* bound: removals
    MaxCrash     \* bound: losses of the process

ASSUME LibraryAssumption ==
    /\ None \notin Work \cup Path /\ None \notin {"request", "worker"}
    /\ None \notin [work : Work, n : 1..MaxFile]
    /\ {MaxFile, MaxPack, MaxRename, MaxEdit, MaxRemoval, MaxCrash} \subseteq Nat /\ MaxFile # 0

VARIABLES
    fs,       \* path -> the file there
    made,     \* work -> versions of its archive made so far (gives files an identity)
    art,      \* work -> CBZ row of artifacts: path and sha256
    pin,      \* work -> work_archive_paths.relative_path
    job,      \* work -> state of its CONVERSION row
    move,     \* work -> its unsettled row of queue_relocations
    pub,      \* work -> its PREPARED row of queue_publications
    edit,     \* work -> its PENDING row of work_metadata_syncs, and whether the
              \*         revision it was saved with is still the work's
    removal,  \* work -> its PENDING row of queue_removals
    mover,    \* who moves or packs: a request of the operator, the pack worker
    syncer,   \* the thread that holds _metadata_sync_lock
    writing,  \* who is between the rename and the commit of one transaction
    phase,    \* the process is UP, DOWN, or recovering what it finds at its START
    count,    \* what the bounds count
    raced     \* ghost: the windows in which a file operation met a file that its
              \*        checks had not seen, or a removal a move it did not wait for

vars == <<fs, made, art, pin, job, move, pub, edit, removal, mover, syncer,
          writing, phase, count, raced>>

Mover == {"request", "worker"}
File == [work: Work, n: 1..MaxFile]

NoArt == [path |-> None, sha |-> None]
NoMove == [status |-> "NONE", worker |-> FALSE, live |-> FALSE, src |-> None, dst |-> None, sha |-> None]
NoPub == [dst |-> None, old |-> None, new |-> None]
NoJob == [state |-> "NONE", kind |-> "PACK", bound |-> FALSE]
NoRemoval == [status |-> "NONE", targets |-> {}, todo |-> {}, failed |-> FALSE]
Idle == [pc |-> "idle", w |-> None, src |-> None, dst |-> None, file |-> None, fresh |-> FALSE]
SyncIdle == [pc |-> "idle", w |-> None, path |-> None, file |-> None, opened |-> None,
             new |-> None, fresh |-> FALSE]

Bounds == [pack |-> MaxPack, rename |-> MaxRename, edit |-> MaxEdit,
           removal |-> MaxRemoval, crash |-> MaxCrash]
Counted(k) == count[k] < Bounds[k] /\ count' = [count EXCEPT ![k] = @ + 1]

Up == phase = "UP"
Published(w) == art[w].path # None
Unsettled(w) == move[w].status # "NONE"
Owned(f, w) == f # None /\ f.work = w

-----------------------------------------------------------------------------
(* The triggers of work_versions and artifact_versions: what was read of a *)
(* work before is stale.  An operator's rename is bound to the revision of *)
(* the work, the worker's refile to the version of the artifact.           *)

Bump(w) ==
    /\ edit' = [edit EXCEPT ![w] = IF @ = "CURRENT" THEN "STALE" ELSE @]
    /\ syncer' = IF syncer.w = w THEN [syncer EXCEPT !.fresh = FALSE] ELSE syncer

Aged(ms, w, artifact) ==
    [m \in Mover |-> IF ms[m].w = w /\ (m = "request" \/ artifact)
                     THEN [ms[m] EXCEPT !.fresh = FALSE] ELSE ms[m]]

-----------------------------------------------------------------------------
(* The journal of moves.                                                   *)

\* Relocations.recover for one record, after both paths were inspected.
Recovered(w) ==
    LET m == move[w] IN
    IF fs[m.src] = m.sha /\ fs[m.dst] = None
    THEN /\ move' = [move EXCEPT ![w] = NoMove]
         /\ fs' = fs
    ELSE IF fs[m.src] = None /\ fs[m.dst] = m.sha
    THEN /\ move' = [move EXCEPT ![w] = NoMove]
         /\ fs' = [fs EXCEPT ![m.src] = m.sha, ![m.dst] = None]
    ELSE /\ move' = [move EXCEPT ![w].status = "RECOVERY_REQUIRED"]
         /\ fs' = fs

\* Who may recover a record that is not its own: a start, the end of the attempt
\* that wrote it, and a command, which only looks at records in need of a decision.
LeftAlways(w) == TRUE
Left(w) == ~move[w].live \/ (move[w].worker /\ mover["worker"].w # w)

Recoverable(w) ==
    \/ move[w].status = "RECOVERY_REQUIRED"
    \/ move[w].status = "PREPARED" /\ Left(w)

RecoverMove(w) ==
    /\ phase # "DOWN" /\ writing = None
    /\ Recoverable(w)
    /\ Recovered(w)
    /\ UNCHANGED <<made, art, pin, job, pub, edit, removal, mover, syncer, writing, phase, count, raced>>

-----------------------------------------------------------------------------
(* Rename by the operator, refile by the worker: _relocate_sync.           *)

\* The operator's request: refused while the work is packed or a move is open.
RenameBegin(w, p) ==
    /\ Up /\ mover["request"].pc = "idle"
    /\ Published(w) /\ ~Unsettled(w) /\ job[w].state # "RUNNING"
    /\ p # art[w].path /\ fs[art[w].path] # None
    /\ Counted("rename")
    /\ mover' = [mover EXCEPT !["request"] =
                   [pc |-> "inspected", w |-> w, src |-> art[w].path, dst |-> p,
                    file |-> fs[art[w].path], fresh |-> TRUE]]
    /\ UNCHANGED <<fs, made, art, pin, job, move, pub, edit, removal, syncer, writing, phase, raced>>

\* The worker has computed another path for the book it refiles.
RefileBegin(p) ==
    LET w == mover["worker"].w IN
    /\ Up /\ mover["worker"].pc = "REFILE"
    /\ Published(w) /\ ~Unsettled(w)
    /\ p # art[w].path /\ fs[art[w].path] # None
    /\ mover' = [mover EXCEPT !["worker"] =
                   [@ EXCEPT !.pc = "inspected", !.src = art[w].path, !.dst = p,
                             !.file = fs[art[w].path]]]
    /\ UNCHANGED <<fs, made, art, pin, job, move, pub, edit, removal, syncer, writing, phase, count, raced>>

\* The checks of both transactions.
MoveValid(m) ==
    LET x == mover[m] IN
    /\ x.fresh
    /\ art[x.w].path = x.src /\ fs[x.src] = x.file
    /\ (job[x.w].state = "RUNNING") = (m = "worker")

\* unique_library_target leaves a path that exists; the index reserves destinations.
Free(p) == fs[p] = None /\ \A w \in Work : Unsettled(w) => move[w].dst # p

MovePrepare(m) ==
    LET x == mover[m] IN
    /\ Up /\ writing = None /\ x.pc = "inspected"
    /\ MoveValid(m) /\ ~Unsettled(x.w) /\ Free(x.dst)
    /\ move' = [move EXCEPT ![x.w] = [status |-> "PREPARED", worker |-> m = "worker", live |-> TRUE,
                                      src |-> x.src, dst |-> x.dst, sha |-> x.file]]
    /\ mover' = [mover EXCEPT ![m].pc = "prepared"]
    /\ UNCHANGED <<fs, made, art, pin, job, pub, edit, removal, syncer, writing, phase, count, raced>>

MoveRename(m) ==
    LET x == mover[m] IN
    /\ Up /\ writing = None /\ x.pc = "prepared"
    /\ MoveValid(m) /\ fs[x.dst] = None
    /\ fs' = [fs EXCEPT ![x.src] = None, ![x.dst] = x.file]
    /\ mover' = [mover EXCEPT ![m].pc = "renamed"]
    /\ writing' = m
    /\ UNCHANGED <<made, art, pin, job, move, pub, edit, removal, syncer, phase, count, raced>>

\* Path, pin, journal and the row of a refile commit together.
MoveCommit(m) ==
    LET x == mover[m] IN
    /\ Up /\ x.pc = "renamed"
    /\ art' = [art EXCEPT ![x.w].path = x.dst]
    /\ pin' = [pin EXCEPT ![x.w] = x.dst]
    /\ move' = [move EXCEPT ![x.w] = NoMove]
    /\ job' = [job EXCEPT ![x.w].bound = FALSE, ![x.w].state = IF m = "worker" THEN "DONE" ELSE @]
    /\ mover' = Aged([mover EXCEPT ![m] = Idle], x.w, TRUE)
    /\ Bump(x.w)
    /\ writing' = None
    /\ UNCHANGED <<fs, made, pub, removal, phase, count, raced>>

\* The request ends; a refile ends with its row.
MoverEnds(m) ==
    LET w == mover[m].w  ended == m = "worker" /\ job[w].state = "RUNNING" IN
    /\ mover' = [IF ended THEN Aged(mover, w, FALSE) ELSE mover EXCEPT ![m] = Idle]
    /\ job' = IF ended THEN [job EXCEPT ![w].state = "DONE"] ELSE job
    /\ IF ended THEN Bump(w) ELSE UNCHANGED <<edit, syncer>>

\* The database refuses: the file goes back before the lock is released, or
\* the journal decides.
MoveUndo(m) ==
    LET x == mover[m] IN
    /\ Up /\ x.pc = "renamed"
    /\ IF fs[x.src] = None /\ fs[x.dst] = x.file
       THEN /\ fs' = [fs EXCEPT ![x.src] = x.file, ![x.dst] = None]
            /\ move' = [move EXCEPT ![x.w] = NoMove]
       ELSE Recovered(x.w)
    /\ MoverEnds(m)
    /\ writing' = None
    /\ UNCHANGED <<made, art, pin, pub, removal, phase, count, raced>>

\* The file cannot be put back either: the record stays PREPARED.
MoveAbandon(m) ==
    /\ Up /\ mover[m].pc = "renamed"
    /\ MoverEnds(m)
    /\ writing' = None
    /\ UNCHANGED <<fs, made, art, pin, move, pub, removal, phase, count, raced>>

\* Refused before anything was renamed.
MoveRefused(m) ==
    LET x == mover[m] IN
    /\ Up /\ writing = None
    /\ \/ x.pc = "inspected" /\ ~(MoveValid(m) /\ ~Unsettled(x.w) /\ Free(x.dst)) /\ move' = move
       \/ x.pc = "prepared" /\ ~(MoveValid(m) /\ fs[x.dst] = None)
          /\ move' = [move EXCEPT ![x.w] = NoMove]
    /\ MoverEnds(m)
    /\ UNCHANGED <<fs, made, art, pin, pub, removal, writing, phase, count, raced>>

-----------------------------------------------------------------------------
(* The row of the pack queue and its worker.                               *)

\* _enqueue_sync; a work without a row is downloaded (again) first.  The command
\* that repacks pins the path the rules plan now, occupied or not.
Enqueue(w, kind, planned) ==
    /\ Up /\ writing = None
    /\ job[w].state \in {"NONE", "DONE"} /\ ~Unsettled(w)
    /\ kind = "REFILE" => Published(w) /\ planned = None
    /\ Counted("pack")
    /\ pin' = IF planned = None THEN pin ELSE [pin EXCEPT ![w] = planned]
    /\ job' = [job EXCEPT ![w] = [state |-> "PENDING", kind |-> kind, bound |-> TRUE]]
    /\ mover' = Aged(mover, w, FALSE)
    /\ Bump(w)
    /\ UNCHANGED <<fs, made, art, move, pub, removal, writing, phase, raced>>

Claim(w) ==
    /\ Up /\ writing = None
    /\ mover["worker"].pc = "idle"
    /\ job[w].state = "PENDING"
    /\ job' = [job EXCEPT ![w].state = "RUNNING"]
    /\ mover' = [Aged(mover, w, FALSE) EXCEPT !["worker"] =
                   [Idle EXCEPT !.pc = job[w].kind, !.w = w, !.fresh = job[w].bound]]
    /\ Bump(w)
    /\ UNCHANGED <<fs, made, art, pin, move, pub, removal, writing, phase, count, raced>>

\* _library_target: the path it is pinned to, or was published at; else one that
\* does not exist now.
Target(w, p) ==
    LET own == IF pin[w] # None THEN pin[w] ELSE art[w].path IN
    IF own # None /\ (fs[own] = None \/ own = art[w].path)
    THEN p = own
    ELSE p = art[w].path \/ fs[p] = None

PackPlan(p) ==
    LET x == mover["worker"] IN
    /\ Up /\ x.pc = "PACK"
    /\ Target(x.w, p)
    /\ mover' = [mover EXCEPT !["worker"].pc = "packing", !["worker"].dst = p]
    /\ UNCHANGED <<fs, made, art, pin, job, move, pub, edit, removal, syncer, writing, phase, count, raced>>

\* Publications.prepare, when the archive has been built: whatever is at the
\* destination by now is the previous archive.
PackPrepare ==
    LET x == mover["worker"] IN
    /\ Up /\ writing = None /\ x.pc = "packing"
    /\ job[x.w].state = "RUNNING" /\ made[x.w] < MaxFile
    /\ \A v \in Work : pub[v].dst # x.dst
    /\ made' = [made EXCEPT ![x.w] = @ + 1]
    /\ pub' = [pub EXCEPT ![x.w] = [dst |-> x.dst, old |-> fs[x.dst],
                                    new |-> [work |-> x.w, n |-> made'[x.w]]]]
    /\ mover' = [mover EXCEPT !["worker"].pc = "publishing"]
    /\ raced' = IF fs[x.dst] = None \/ Owned(fs[x.dst], x.w) THEN raced ELSE raced \cup {"PACK"}
    /\ UNCHANGED <<fs, art, pin, job, move, edit, removal, syncer, writing, phase, count>>

\* The worker, or a recovery once the attempt has left.
Publisher(w) == mover["worker"].pc = "publishing" \/ mover["worker"].w # w

\* Publications._replace.
PackReplace(w) ==
    /\ phase # "DOWN" /\ writing = None /\ pub[w] # NoPub /\ Publisher(w)
    /\ job[w].state = "RUNNING" /\ fs[pub[w].dst] = pub[w].old
    /\ fs' = [fs EXCEPT ![pub[w].dst] = pub[w].new]
    /\ UNCHANGED <<made, art, pin, job, move, pub, edit, removal, mover, syncer, writing, phase, count, raced>>

\* Publications.finish: confirm the new file, or put the old one back.
PackFinish(w) ==
    LET r == pub[w] IN
    /\ phase # "DOWN" /\ writing = None /\ r # NoPub /\ Publisher(w)
    /\ ~(job[w].state = "RUNNING" /\ fs[r.dst] = r.old)
    /\ pub' = [pub EXCEPT ![w] = NoPub]
    /\ IF job[w].state = "RUNNING" /\ fs[r.dst] = r.new
       THEN /\ art' = [art EXCEPT ![w] = [path |-> r.dst, sha |-> r.new]]
            /\ job' = [job EXCEPT ![w].state = "DONE", ![w].bound = FALSE]
            /\ mover' = Aged(mover, w, TRUE)
            /\ Bump(w)
            /\ fs' = fs
       ELSE /\ fs' = IF fs[r.dst] = r.new THEN [fs EXCEPT ![r.dst] = r.old] ELSE fs
            /\ UNCHANGED <<art, job, mover, edit, syncer>>
    /\ UNCHANGED <<made, pin, move, removal, writing, phase, count, raced>>

\* The worker ends with a book, whatever came of it.
WorkerLeave ==
    LET x == mover["worker"] IN
    /\ Up /\ writing = None
    /\ x.pc \in {"PACK", "REFILE", "packing", "publishing"} /\ pub[x.w] = NoPub
    /\ MoverEnds("worker")
    /\ UNCHANGED <<fs, made, art, pin, move, pub, removal, writing, phase, count, raced>>

\* reclaim_running_jobs: a row whose execution is gone, its journals settled.
Reclaim(w) ==
    /\ phase # "DOWN" /\ writing = None
    /\ job[w].state = "RUNNING" /\ mover["worker"].w # w
    /\ pub[w] = NoPub /\ move[w].status # "PREPARED"
    /\ job' = [job EXCEPT ![w].state = IF Unsettled(w) THEN "DONE" ELSE "PENDING"]
    /\ mover' = Aged(mover, w, FALSE)
    /\ Bump(w)
    /\ UNCHANGED <<fs, made, art, pin, move, pub, removal, writing, phase, count, raced>>

\* The operator says where a book without a file belongs.
PinPath(w, p) ==
    /\ Up /\ writing = None
    /\ job[w].state \in {"PENDING", "DONE"} /\ ~Published(w) /\ ~Unsettled(w)
    /\ Free(p) /\ \A v \in Work : pin[v] # p
    /\ Counted("rename")
    /\ pin' = [pin EXCEPT ![w] = p]
    /\ mover' = Aged(mover, w, FALSE)
    /\ Bump(w)
    /\ UNCHANGED <<fs, made, art, job, move, pub, removal, writing, phase, raced>>

-----------------------------------------------------------------------------
(* A metadata edit and the rewrite of ComicInfo that follows it.           *)

\* patch_metadata: a new revision, and the sync in the same transaction.
Edit(w) ==
    /\ Up /\ writing = None
    /\ Counted("edit")
    /\ edit' = [edit EXCEPT ![w] = "CURRENT"]
    /\ syncer' = IF syncer.w = w THEN [syncer EXCEPT !.fresh = FALSE] ELSE syncer
    /\ mover' = Aged(mover, w, FALSE)
    /\ UNCHANGED <<fs, made, art, pin, job, move, pub, removal, writing, phase, raced>>

Syncable(w) == edit[w] = "CURRENT" /\ Published(w) /\ job[w].state # "RUNNING" /\ fs[art[w].path] # None

SyncBegin(w) ==
    /\ Up /\ syncer.pc = "idle" /\ edit[w] # "NONE"
    /\ IF Syncable(w)
       THEN /\ syncer' = [pc |-> "read", w |-> w, path |-> art[w].path, file |-> fs[art[w].path],
                          opened |-> None, new |-> None, fresh |-> TRUE]
            /\ edit' = edit
       ELSE /\ edit' = [edit EXCEPT ![w] = "NONE"]   \* SKIPPED
            /\ syncer' = syncer
    /\ UNCHANGED <<fs, made, art, pin, job, move, pub, removal, mover, writing, phase, count, raced>>

\* The row of the sync is SKIPPED.  A newer edit has a row of its own.
SyncEnds ==
    /\ syncer' = SyncIdle
    /\ edit' = IF syncer.fresh \/ edit[syncer.w] = "STALE" THEN [edit EXCEPT ![syncer.w] = "NONE"] ELSE edit

\* Backup, last look at the file, and open it for copying; or it has changed.
SyncOpen ==
    /\ Up /\ syncer.pc = "read"
    /\ IF fs[syncer.path] = syncer.file
       THEN syncer' = [syncer EXCEPT !.pc = "linked"] /\ edit' = edit
       ELSE SyncEnds
    /\ UNCHANGED <<fs, made, art, pin, job, move, pub, removal, mover, writing, phase, count, raced>>

\* rewrite_comicinfo reads the file it opens ...
SyncCopy ==
    /\ Up /\ syncer.pc = "linked"
    /\ IF fs[syncer.path] # None
       THEN syncer' = [syncer EXCEPT !.pc = "copied", !.opened = fs[syncer.path]] /\ edit' = edit
       ELSE SyncEnds
    /\ UNCHANGED <<fs, made, art, pin, job, move, pub, removal, mover, writing, phase, count, raced>>

\* ... and replaces what has its name when the copy is complete.
SyncReplace ==
    LET v == syncer.opened.work IN
    /\ Up /\ syncer.pc = "copied"
    /\ IF fs[syncer.path] # None
       THEN /\ made[v] < MaxFile
            /\ made' = [made EXCEPT ![v] = @ + 1]
            /\ fs' = [fs EXCEPT ![syncer.path] = [work |-> v, n |-> made'[v]]]
            /\ syncer' = [syncer EXCEPT !.pc = "replaced", !.new = fs'[syncer.path]]
            /\ edit' = edit
            /\ raced' = IF fs[syncer.path] = syncer.file /\ syncer.opened = syncer.file /\ v = syncer.w
                         THEN raced ELSE raced \cup {"SYNC"}
       ELSE SyncEnds /\ UNCHANGED <<fs, made, raced>>
    /\ UNCHANGED <<art, pin, job, move, pub, removal, mover, writing, phase, count>>

\* Digest and stamp of the result; when it is gone, the backup comes back.
SyncStamp ==
    /\ Up /\ syncer.pc = "replaced"
    /\ IF fs[syncer.path] # None
       THEN /\ syncer' = [syncer EXCEPT !.pc = "stamped", !.new = fs[syncer.path]]
            /\ raced' = IF fs[syncer.path] = syncer.new THEN raced ELSE raced \cup {"SYNC"}
            /\ UNCHANGED <<fs, edit>>
       ELSE /\ fs' = [fs EXCEPT ![syncer.path] = syncer.file]
            /\ raced' = raced \cup {"SYNC"}
            /\ SyncEnds
    /\ UNCHANGED <<made, art, pin, job, move, pub, removal, mover, writing, phase, count>>

\* The short transaction: work, artifact and file are still the ones seen.
SyncCommit ==
    LET w == syncer.w IN
    /\ Up /\ writing = None /\ syncer.pc = "stamped"
    /\ syncer.fresh /\ art[w].path = syncer.path /\ fs[syncer.path] = syncer.new
    /\ art' = [art EXCEPT ![w].sha = syncer.new]
    /\ job' = [job EXCEPT ![w].bound = FALSE]
    /\ mover' = Aged(mover, w, TRUE)
    /\ SyncEnds
    /\ UNCHANGED <<fs, made, pin, move, pub, removal, writing, phase, count, raced>>

\* It is refused (or fails): the old file comes back if the new one is still there.
SyncRefuse ==
    /\ Up /\ writing = None /\ syncer.pc = "stamped"
    /\ syncer' = [syncer EXCEPT !.pc = "refused"]
    /\ UNCHANGED <<fs, made, art, pin, job, move, pub, edit, removal, mover, writing, phase, count, raced>>

SyncRestore ==
    /\ Up /\ syncer.pc = "refused"
    /\ IF fs[syncer.path] = syncer.new
       THEN fs' = [fs EXCEPT ![syncer.path] = syncer.file]
       ELSE fs' = fs
    /\ SyncEnds
    /\ UNCHANGED <<made, art, pin, job, move, pub, removal, mover, writing, phase, count, raced>>

-----------------------------------------------------------------------------
(* Removal with deletion of files.                                         *)

UnlistedPath(a) == [a EXCEPT !.path = None]
Unlisted(a) == NoArt

\* A refile is stopped first; a rename has no worker that could be.
RemovableAlways(w) == TRUE
Removable(w) == Unsettled(w) => move[w].worker

\* _begin_removal_sync: the manifest, the stop of what runs, and no row is left.
Remove(w) ==
    /\ Up /\ writing = None
    /\ job[w].state # "NONE" /\ removal[w] = NoRemoval
    /\ Removable(w)
    /\ Counted("removal")
    /\ LET targets == {art[w].path, pin[w]} \ {None} IN
       \E status \in IF job[w].state = "RUNNING" THEN {"STOPPING"} ELSE {"STOPPING", "DELETING"} :
          removal' = [removal EXCEPT ![w] = [status |-> status, targets |-> targets,
                                             todo |-> targets, failed |-> FALSE]]
    /\ art' = [art EXCEPT ![w] = Unlisted(@)]
    /\ job' = [job EXCEPT ![w] = NoJob]
    /\ raced' = IF Unsettled(w) /\ move[w].worker /\ job[w].state # "RUNNING" THEN raced \cup {"REMOVE"} ELSE raced
    /\ mover' = Aged(mover, w, TRUE)
    /\ Bump(w)
    /\ UNCHANGED <<fs, made, pin, move, pub, writing, phase>>

\* Every operation of the removal is COMPLETED: the executions have left and
\* their journals are settled.
RemovalStopped(w) ==
    /\ Up /\ writing = None
    /\ removal[w].status = "STOPPING"
    /\ mover["worker"].w # w /\ pub[w] = NoPub
    /\ ~(Unsettled(w) /\ move[w].worker)
    /\ removal' = [removal EXCEPT ![w].status = "DELETING"]
    /\ UNCHANGED <<fs, made, art, pin, job, move, pub, edit, mover, syncer, writing, phase, count, raced>>

UnreferencedOnce(p) == fs[p] # None
Unreferenced(p) == \A w \in Work : art[w].path # p

\* _unlink_unreferenced_sync: the paths of artifacts are looked at, those of the
\* journals are not.
RemovalUnlink(w, p) ==
    /\ Up /\ writing = None
    /\ removal[w].status = "DELETING" /\ p \in removal[w].todo
    /\ IF Unreferenced(p)
       THEN /\ fs' = [fs EXCEPT ![p] = None]
            /\ removal' = [removal EXCEPT ![w].todo = @ \ {p}]
            /\ raced' = IF \E v \in Work : Unsettled(v) /\ move[v].dst = p
                         THEN raced \cup {"UNLINK"} ELSE raced
       ELSE /\ removal' = [removal EXCEPT ![w].todo = @ \ {p}, ![w].failed = TRUE]
            /\ UNCHANGED <<fs, raced>>
    /\ UNCHANGED <<made, art, pin, job, move, pub, edit, mover, syncer, writing, phase, count>>

\* The pass is over: completed, or tried again from the beginning.
RemovalEnd(w) ==
    LET r == removal[w] IN
    /\ Up /\ writing = None
    /\ r.status = "DELETING" /\ r.todo = {}
    /\ IF r.failed
       THEN /\ removal' = [removal EXCEPT ![w].todo = r.targets, ![w].failed = FALSE]
            /\ UNCHANGED <<pin, mover, edit, syncer>>
       ELSE /\ removal' = [removal EXCEPT ![w] = NoRemoval]
            /\ IF pin[w] \in r.targets
               THEN pin' = [pin EXCEPT ![w] = None] /\ mover' = Aged(mover, w, FALSE) /\ Bump(w)
               ELSE UNCHANGED <<pin, mover, edit, syncer>>
    /\ UNCHANGED <<fs, made, art, job, move, pub, writing, phase, count, raced>>

-----------------------------------------------------------------------------
(* Loss of the process and the next start.                                 *)

Lost ==
    /\ phase # "DOWN" /\ Counted("crash")
    /\ phase' = "DOWN"
    /\ writing' = None
    /\ mover' = [m \in Mover |-> Idle]
    /\ syncer' = SyncIdle
    /\ move' = [w \in Work |-> [move[w] EXCEPT !.live = FALSE]]
    /\ removal' = [w \in Work |-> [removal[w] EXCEPT !.todo = removal[w].targets, !.failed = FALSE]]
    /\ UNCHANGED <<made, art, pin, job, pub, edit, raced>>

Crash == Lost /\ fs' = fs

\* The loss comes between the rename of a recovery and its commit.
CrashInRecovery(w) ==
    /\ writing = None /\ Recoverable(w)
    /\ fs[move[w].src] = None /\ fs[move[w].dst] = move[w].sha
    /\ fs' = [fs EXCEPT ![move[w].src] = move[w].sha, ![move[w].dst] = None]
    /\ Lost

Restart ==
    /\ phase = "DOWN"
    /\ phase' = "START"
    /\ UNCHANGED <<fs, made, art, pin, job, move, pub, edit, removal, mover, syncer, writing, count, raced>>

\* ConversionService.start recovers the journals before the loops and requests.
Started ==
    /\ phase = "START"
    /\ \A w \in Work : move[w].status # "PREPARED" /\ pub[w] = NoPub /\ job[w].state # "RUNNING"
    /\ phase' = "UP"
    /\ UNCHANGED <<fs, made, art, pin, job, move, pub, edit, removal, mover, syncer, writing, count, raced>>

Init ==
    /\ \E home \in [Work -> Path \cup {None}] :
         /\ \A v, w \in Work : v # w /\ home[v] # None => home[v] # home[w]
         /\ fs = [p \in Path |-> IF \E w \in Work : home[w] = p
                                 THEN [work |-> CHOOSE w \in Work : home[w] = p, n |-> 1] ELSE None]
         /\ art = [w \in Work |-> IF home[w] = None THEN NoArt
                                  ELSE [path |-> home[w], sha |-> [work |-> w, n |-> 1]]]
         /\ made = [w \in Work |-> IF home[w] = None THEN 0 ELSE 1]
         /\ job = [w \in Work |-> IF home[w] = None THEN NoJob ELSE [NoJob EXCEPT !.state = "DONE"]]
    /\ pin = [w \in Work |-> None]
    /\ move = [w \in Work |-> NoMove]
    /\ pub = [w \in Work |-> NoPub]
    /\ edit = [w \in Work |-> "NONE"]
    /\ removal = [w \in Work |-> NoRemoval]
    /\ mover = [m \in Mover |-> Idle]
    /\ syncer = SyncIdle
    /\ writing = None
    /\ phase = "UP"
    /\ count = [k \in DOMAIN Bounds |-> 0]
    /\ raced = {}

MoveStep ==
    \/ \E w \in Work : RecoverMove(w) \/ \E p \in Path : RenameBegin(w, p) \/ PinPath(w, p)
    \/ \E p \in Path : RefileBegin(p)
    \/ \E m \in Mover : MovePrepare(m) \/ MoveRename(m) \/ MoveCommit(m) \/ MoveUndo(m)
                        \/ MoveAbandon(m) \/ MoveRefused(m)
PackStep ==
    \/ \E w \in Work : \/ \E kind \in {"PACK", "REFILE"}, p \in Path \cup {None} : Enqueue(w, kind, p)
                      \/ Claim(w) \/ PackReplace(w) \/ PackFinish(w) \/ Reclaim(w)
    \/ \E p \in Path : PackPlan(p)
    \/ PackPrepare \/ WorkerLeave
SyncStep ==
    \/ \E w \in Work : Edit(w) \/ SyncBegin(w)
    \/ SyncOpen \/ SyncCopy \/ SyncReplace \/ SyncStamp \/ SyncCommit \/ SyncRefuse \/ SyncRestore
RemovalStep ==
    \E w \in Work : \/ Remove(w) \/ RemovalStopped(w) \/ RemovalEnd(w)
                    \/ \E p \in Path : RemovalUnlink(w, p)

Next == MoveStep \/ PackStep \/ SyncStep \/ RemovalStep
        \/ Crash \/ (\E w \in Work : CrashInRecovery(w)) \/ Restart \/ Started

Spec == Init /\ [][Next]_vars

-----------------------------------------------------------------------------
\* Types; an artifact has a hash as long as it has a path.
TypeOK ==
    /\ fs \in [Path -> File \cup {None}]
    /\ made \in [Work -> 0..MaxFile]
    /\ art \in [Work -> {NoArt} \cup [path: Path, sha: File]]
    /\ pin \in [Work -> Path \cup {None}]
    /\ job \in [Work -> [state: {"NONE", "PENDING", "RUNNING", "DONE"}, kind: {"PACK", "REFILE"}, bound: BOOLEAN]]
    /\ move \in [Work -> {NoMove} \cup
                   [status: {"PREPARED", "RECOVERY_REQUIRED"}, worker: BOOLEAN, live: BOOLEAN,
                    src: Path, dst: Path, sha: File]]
    /\ pub \in [Work -> {NoPub} \cup [dst: Path, old: File \cup {None}, new: File]]
    /\ edit \in [Work -> {"NONE", "CURRENT", "STALE"}]
    /\ removal \in [Work -> {NoRemoval} \cup
                      [status: {"STOPPING", "DELETING"}, targets: SUBSET Path, todo: SUBSET Path, failed: BOOLEAN]]
    /\ mover \in [Mover -> [pc: {"idle", "inspected", "prepared", "renamed", "PACK", "REFILE", "packing", "publishing"},
                            w: Work \cup {None}, src: Path \cup {None}, dst: Path \cup {None},
                            file: File \cup {None}, fresh: BOOLEAN]]
    /\ syncer \in [pc: {"idle", "read", "linked", "copied", "replaced", "stamped", "refused"},
                   w: Work \cup {None}, path: Path \cup {None}, file: File \cup {None},
                   opened: File \cup {None}, new: File \cup {None}, fresh: BOOLEAN]
    /\ writing \in Mover \cup {None}
    /\ phase \in {"UP", "DOWN", "START"}
    /\ count \in [DOMAIN Bounds -> Nat]
    /\ raced \subseteq {"PACK", "SYNC", "UNLINK", "REMOVE"}

\* The bytes of a published work are at its path, at the destination of its
\* unsettled move, or the backup of a publication that is not finished.
Held(w) ==
    \/ Owned(fs[art[w].path], w)
    \/ Unsettled(w) /\ Owned(fs[move[w].dst], w)
    \/ \E v \in Work : Owned(pub[v].old, w)

\* No pack, move, rewrite or removal, of this work or of another, and no loss of
\* the process, loses the book of a work that the library lists.  The code does
\* not keep this: LibraryBookLost.cfg.
BooksKept == \A w \in Work : Published(w) => Held(w)

\* What the code does keep: a listed book can only be lost through one of the
\* windows that `raced` names -- a pack or a rewrite that replaces a file other
\* than the one its checks saw, and an unlink at the destination of a move that
\* was not recovered.  Every other interleaving and every crash keeps the books.
BooksKeptUnlessRaced == raced = {} => BooksKept

\* Between the rename of a live move and its commit no recovery, removal or other
\* mover settles the journal or takes the file from under it.
MoveUndisturbed ==
    \A m \in Mover : mover[m].pc = "renamed" =>
        LET x == mover[m] IN
        /\ move[x.w].status = "PREPARED" /\ move[x.w].dst = x.dst
        /\ raced = {} => Owned(fs[x.dst], x.w)

\* When a removal ends, also after crashes and retries, no file of its manifest is
\* left unless the work was queued again; and afterwards no journal that is
\* reversed late, publication that is undone late or rewrite that is taken back
\* late brings a file of a removed work back.
RemovalIsFinal ==
    [][\A w \in Work : raced' = {} =>
         /\ removal[w].status = "DELETING" /\ removal'[w] = NoRemoval /\ job'[w].state = "NONE"
              => \A p \in removal[w].targets : ~Owned(fs'[p], w)
         /\ job[w].state = "NONE" /\ removal[w] = NoRemoval
              => \A p \in Path : Owned(fs'[p], w) => Owned(fs[p], w)]_vars
=============================================================================
