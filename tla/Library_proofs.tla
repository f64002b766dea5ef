--------------------------- MODULE Library_proofs ---------------------------
(***************************************************************************)
(* What the library keeps, for every number of works, paths, packs, moves, *)
(* rewrites, removals and losses of the process.  Inv has one part for the *)
(* rows (Types), for what the processes hold (Shapes), for the journals    *)
(* (Journaled, Publishing) and for the versions of files (Numbered); while *)
(* no file operation has met a foreign file (raced), Calm says where the   *)
(* book of each work is.  Most actions leave the files alone or move one   *)
(* process only: the lemmas about what rests come first, then one lemma    *)
(* for each action, the actions that change files last.  The last section  *)
(* adds what removals rely on (Removals), and shows for each step that it  *)
(* brings no file of a removed work back.                                  *)
(***************************************************************************)
EXTENDS Library, TLAPS

MoverPc == {"idle", "inspected", "prepared", "renamed", "PACK", "REFILE", "packing", "publishing"}
SyncPc  == {"idle", "read", "linked", "copied", "replaced", "stamped", "refused"}
Moving  == {"inspected", "prepared", "renamed"}
Done    == {"replaced", "stamped", "refused"}

ArtRow  == {NoArt} \cup [path: Path, sha: File]
JobRow  == [state: {"NONE", "PENDING", "RUNNING", "DONE"}, kind: {"PACK", "REFILE"}, bound: BOOLEAN]
MoveRow == {NoMove} \cup [status: {"PREPARED", "RECOVERY_REQUIRED"}, worker: BOOLEAN, live: BOOLEAN,
                          src: Path, dst: Path, sha: File]
PubRow  == {NoPub} \cup [dst: Path, old: File \cup {None}, new: File]
RemovalRow == {NoRemoval} \cup [status: {"STOPPING", "DELETING"}, targets: SUBSET Path, todo: SUBSET Path, failed: BOOLEAN]
MoverState == [pc: MoverPc, w: Work \cup {None}, src: Path \cup {None}, dst: Path \cup {None},
               file: File \cup {None}, fresh: BOOLEAN]
SyncState == [pc: SyncPc, w: Work \cup {None}, path: Path \cup {None}, file: File \cup {None},
              opened: File \cup {None}, new: File \cup {None}, fresh: BOOLEAN]

Types ==
    /\ fs \in [Path -> File \cup {None}] /\ made \in [Work -> 0..MaxFile]
    /\ art \in [Work -> ArtRow] /\ pin \in [Work -> Path \cup {None}]
    /\ job \in [Work -> JobRow] /\ move \in [Work -> MoveRow] /\ pub \in [Work -> PubRow]
    /\ edit \in [Work -> {"NONE", "CURRENT", "STALE"}] /\ removal \in [Work -> RemovalRow]
    /\ mover \in [Mover -> MoverState] /\ syncer \in SyncState
    /\ writing \in Mover \cup {None} /\ phase \in {"UP", "DOWN", "START"}
    /\ count \in [DOMAIN Bounds -> Nat] /\ raced \subseteq {"PACK", "SYNC", "UNLINK", "REMOVE"}

\* What the processes hold at each of their steps.
MoverShape(m) ==
    /\ mover[m].pc = "idle" => mover[m].w = None
    /\ mover[m].pc # "idle" => mover[m].w \in Work
    /\ mover[m].pc \in Moving => mover[m].src \in Path /\ mover[m].dst \in Path /\ mover[m].file \in File
    /\ mover[m].pc \in {"packing", "publishing"} => mover[m].dst \in Path
    /\ m = "request" => mover[m].pc \in Moving \cup {"idle"}

SyncShape ==
    /\ syncer.pc = "idle" => syncer.w = None
    /\ syncer.pc # "idle" => syncer.w \in Work /\ syncer.path \in Path /\ syncer.file \in File
    /\ syncer.pc \in {"copied"} \cup Done => syncer.opened \in File
    /\ syncer.pc \in Done => syncer.new \in File

\* A live move has its record, and while its file is renamed it has the write lock.
Recorded(m) ==
    /\ move[mover[m].w].status = "PREPARED" /\ move[mover[m].w].worker = (m = "worker")
    /\ move[mover[m].w].live
    /\ move[mover[m].w].src = mover[m].src /\ move[mover[m].w].dst = mover[m].dst
    /\ move[mover[m].w].sha = mover[m].file
Journaled == \A m \in Mover :
    /\ mover[m].pc \in {"prepared", "renamed"} => Recorded(m)
    /\ mover[m].pc = "renamed" =>
         writing = m /\ art[mover[m].w].path = mover[m].src /\ pub[mover[m].w] = NoPub

\* A publication is the worker's, until the process is lost; it is for a running row.
Publishing == \A w \in Work : pub[w] # NoPub =>
    /\ phase = "UP" => mover["worker"].pc = "publishing" /\ mover["worker"].w = w
    /\ Published(w) => job[w].state = "RUNNING"

\* Versions are counted, so a new one is different from every one that is around.
Counts(f) == f # None => f.n <= made[f.work]
Numbered ==
    /\ \A p \in Path : Counts(fs[p])
    /\ \A w \in Work : Counts(move[w].sha) /\ Counts(pub[w].old) /\ Counts(pub[w].new)
    /\ \A m \in Mover : Counts(mover[m].file)
    /\ Counts(syncer.file) /\ Counts(syncer.opened) /\ Counts(syncer.new)

\* The book of w is at p, however the publication of w ends.
Keeps(p, w) == Owned(fs[p], w) /\ (pub[w].dst = p /\ fs[p] = pub[w].new => pub[w].old # None)
\* f is at p, or comes back when the publication of w is undone.
Shows(p, w, f) == fs[p] = f \/ (pub[w].dst = p /\ fs[p] = pub[w].new /\ pub[w].old = f)

\* What is published is new to everybody else who may put a file there.
Apart(w) == pub[w] # NoPub =>
    /\ move[w].sha # pub[w].new
    /\ syncer.w = w => syncer.file # pub[w].new /\ syncer.new # pub[w].new
\* The files that the records of a work name are its own.
Owning(w) ==
    /\ pub[w] # NoPub => pub[w].new.work = w /\ (pub[w].old # None => pub[w].old.work = w)
    /\ Unsettled(w) => move[w].sha.work = w
\* A listed book is at its path, or at the destination of its move.
Listed(w) == Published(w) => Keeps(art[w].path, w) \/ (Unsettled(w) /\ Keeps(move[w].dst, w))
\* A book that was packed elsewhere during its move is there, and the file the move
\* would put back is not.
Elsewhere(w) == Published(w) /\ Unsettled(w) /\ art[w].path # move[w].src =>
    /\ Keeps(art[w].path, w)
    /\ art[w].path = move[w].dst =>
         /\ ~Shows(move[w].dst, w, move[w].sha)
         /\ syncer.pc \in Done /\ syncer.path = move[w].dst /\ syncer.file = move[w].sha
              => ~Shows(move[w].dst, w, syncer.new)
CalmAt(w) == Apart(w) /\ Owning(w) /\ Listed(w) /\ Elsewhere(w)

\* A mover moves the book of its work, and has renamed nothing before it says so.
CalmMover(m) ==
    /\ mover[m].pc \in Moving => mover[m].file.work = mover[m].w
    /\ mover[m].pc = "renamed" => Owned(fs[mover[m].dst], mover[m].w)
    /\ mover[m].pc = "prepared" /\ Published(mover[m].w) => Keeps(art[mover[m].w].path, mover[m].w)
CalmSyncer == syncer.pc \in Done => syncer.file.work = syncer.w /\ syncer.new.work = syncer.w

Calm == (\A w \in Work : CalmAt(w)) /\ (\A m \in Mover : CalmMover(m)) /\ CalmSyncer

Shapes == (\A m \in Mover : MoverShape(m)) /\ SyncShape
Inv == Types /\ Shapes /\ Journaled /\ Publishing /\ Numbered /\ (raced = {} => Calm)

-----------------------------------------------------------------------------
(* Types. *)

\* "No value" is not a value, and no process is called so.
LEMMA Values == None \notin Work /\ None \notin Path /\ None \notin File /\ None \notin Mover
BY LibraryAssumption DEF File, Mover

\* Types is TypeOK with its rows named.
LEMMA TypesAreTypeOK == Types <=> TypeOK
BY DEF Types, TypeOK, ArtRow, JobRow, MoveRow, PubRow, RemovalRow, MoverState, MoverPc, SyncState, SyncPc

\* A process whose step another process takes: at most what it read becomes stale.
MoverStays(m) ==
    /\ mover'[m].pc = mover[m].pc /\ mover'[m].w = mover[m].w /\ mover'[m].src = mover[m].src
    /\ mover'[m].dst = mover[m].dst /\ mover'[m].file = mover[m].file
MoverLeaves(m) == mover'[m].pc = "idle" /\ mover'[m].w = None /\ mover'[m].file = None
SyncerStays ==
    /\ syncer'.pc = syncer.pc /\ syncer'.w = syncer.w /\ syncer'.path = syncer.path
    /\ syncer'.file = syncer.file /\ syncer'.opened = syncer.opened /\ syncer'.new = syncer.new
SyncerLeaves == syncer'.pc = "idle" /\ syncer'.w = None /\ syncer'.file = None /\ syncer'.opened = None /\ syncer'.new = None
MoversStay == \A m \in Mover : MoverStays(m)

Faded(x) == [x EXCEPT !.fresh = FALSE]

\* A process that is told its reading is stale stays what it was.
LEMMA FadedStays ==
    ASSUME NEW x \in MoverState
    PROVE  Faded(x) \in MoverState /\ Faded(x).pc = x.pc /\ Faded(x).w = x.w /\ Faded(x).src = x.src
           /\ Faded(x).dst = x.dst /\ Faded(x).file = x.file
BY DEF Faded, MoverState

\* Whatever a trigger makes stale, every process keeps its step and what it holds.
LEMMA AgedStays ==
    ASSUME NEW ms \in [Mover -> MoverState], NEW as, as = [m \in Mover |-> as[m]],
           \A m \in Mover : as[m] \in {ms[m], Faded(ms[m])}
    PROVE  /\ as \in [Mover -> MoverState]
           /\ \A m \in Mover : /\ as[m].pc = ms[m].pc /\ as[m].w = ms[m].w /\ as[m].src = ms[m].src
                               /\ as[m].dst = ms[m].dst /\ as[m].file = ms[m].file
<1>1. \A m \in Mover : ms[m] \in MoverState
  OBVIOUS
<1>2. as \in [Mover -> MoverState]
  BY <1>1, FadedStays
<1> QED  BY <1>1, <1>2, FadedStays

\* The two triggers leave every mover at its step.
LEMMA MoversAge ==
    ASSUME Types, NEW w, mover' = Aged(mover, w, TRUE) \/ mover' = Aged(mover, w, FALSE)
    PROVE  mover' \in [Mover -> MoverState] /\ MoversStay
<1>1. mover \in [Mover -> MoverState]
  BY DEF Types
<1>2. mover' = [m \in Mover |-> mover'[m]]
  BY DEF Aged
<1>3. \A m \in Mover : mover'[m] \in {mover[m], Faded(mover[m])}
  BY DEF Aged, Faded
<1> QED  BY <1>1, <1>2, <1>3, AgedStays DEF MoversStay, MoverStays

\* A new revision leaves the thread of the rewrite at its step.
LEMMA BumpStays ==
    ASSUME Types, NEW w \in Work, Bump(w)
    PROVE  edit' \in [Work -> {"NONE", "CURRENT", "STALE"}] /\ syncer' \in SyncState /\ SyncerStays
<1>1. edit' \in [Work -> {"NONE", "CURRENT", "STALE"}]
  BY DEF Types, Bump
<1>2. syncer' = syncer \/ syncer' = [syncer EXCEPT !.fresh = FALSE]
  BY DEF Bump
<1>3. syncer' \in SyncState /\ SyncerStays
  BY <1>2 DEF Types, SyncState, SyncerStays
<1> QED  BY <1>1, <1>3

\* A mover that ends is idle again; the other one stays.
LEMMA MoverEndsLeaves ==
    ASSUME Types, NEW m \in Mover, mover[m].w \in Work, MoverEnds(m)
    PROVE  /\ mover' \in [Mover -> MoverState] /\ MoverLeaves(m) /\ \A i \in Mover \ {m} : MoverStays(i)
           /\ job' \in [Work -> JobRow] /\ edit' \in [Work -> {"NONE", "CURRENT", "STALE"}]
           /\ syncer' \in SyncState /\ SyncerStays
           /\ \A w \in Work : m = "request" \/ w # mover[m].w => job'[w] = job[w]
<1> DEFINE w == mover[m].w
           ended == m = "worker" /\ job[w].state = "RUNNING"
           ms == IF ended THEN Aged(mover, w, FALSE) ELSE mover
<1>1. mover' = [ms EXCEPT ![m] = Idle]
  BY DEF MoverEnds
<1>2. ms \in [Mover -> MoverState] /\ \A i \in Mover :
         /\ ms[i].pc = mover[i].pc /\ ms[i].w = mover[i].w /\ ms[i].src = mover[i].src
         /\ ms[i].dst = mover[i].dst /\ ms[i].file = mover[i].file
  <2>1. mover \in [Mover -> MoverState]
    BY DEF Types
  <2>2. CASE ended
    <3>1. ms = [i \in Mover |-> ms[i]] /\ \A i \in Mover : ms[i] \in {mover[i], Faded(mover[i])}
      BY <2>2 DEF Aged, Faded
    <3> HIDE DEF ms
    <3> QED  BY <2>1, <3>1, AgedStays
  <2>3. CASE ~ended
    <3>1. ms = mover
      BY <2>3
    <3> QED  BY <2>1, <3>1
  <2> QED  BY <2>2, <2>3
<1>3. Idle \in MoverState
  BY DEF Idle, MoverState, MoverPc
<1>4. mover' \in [Mover -> MoverState] /\ MoverLeaves(m) /\ \A i \in Mover \ {m} : MoverStays(i)
  <2>1. Idle.pc = "idle" /\ Idle.w = None /\ Idle.file = None
    BY DEF Idle
  <2> HIDE DEF ms
  <2>2. /\ mover' \in [Mover -> MoverState] /\ mover'[m] = Idle
        /\ \A i \in Mover \ {m} : mover'[i] = ms[i]
    BY <1>1, <1>2, <1>3
  <2>3. MoverLeaves(m)
    BY <2>1, <2>2 DEF MoverLeaves
  <2>4. ASSUME NEW i \in Mover \ {m} PROVE MoverStays(i)
    BY <1>2, <2>2 DEF MoverStays
  <2> QED  BY <2>2, <2>3, <2>4
<1>5. job' = (IF ended THEN [job EXCEPT ![w].state = "DONE"] ELSE job)
  BY DEF MoverEnds
<1>6. job' \in [Work -> JobRow] /\ \A v \in Work : m = "request" \/ v # w => job'[v] = job[v]
  <2>1. job \in [Work -> JobRow]
    BY DEF Types
  <2>2. ASSUME NEW v \in Work PROVE [job[v] EXCEPT !.state = "DONE"] \in JobRow
    BY <2>1 DEF JobRow
  <2>3. CASE ended
    <3>1. m = "worker" /\ job' = [job EXCEPT ![w].state = "DONE"]
      BY <1>5, <2>3
    <3> HIDE DEF w, ended
    <3> QED  BY <2>1, <2>2, <3>1
  <2>4. CASE ~ended
    <3>1. job' = job
      BY <1>5, <2>4
    <3> QED  BY <2>1, <3>1
  <2> QED  BY <2>3, <2>4
<1>7. edit' \in [Work -> {"NONE", "CURRENT", "STALE"}] /\ syncer' \in SyncState /\ SyncerStays
  <2>1. CASE ended
    BY <2>1, BumpStays DEF MoverEnds
  <2>2. CASE ~ended
    BY <2>2 DEF MoverEnds, Types, SyncerStays
  <2> QED  BY <2>1, <2>2
<1> QED  BY <1>4, <1>6, <1>7

\* A rewrite that ends leaves nothing behind.
LEMMA SyncEndsLeaves ==
    ASSUME Types, SyncEnds
    PROVE  syncer' \in SyncState /\ SyncerLeaves /\ edit' \in [Work -> {"NONE", "CURRENT", "STALE"}]
<1>1. syncer' \in SyncState /\ SyncerLeaves
  BY DEF SyncEnds, SyncIdle, SyncState, SyncPc, SyncerLeaves
<1>2. edit' \in [Work -> {"NONE", "CURRENT", "STALE"}]
  BY DEF SyncEnds, Types
<1> QED  BY <1>1, <1>2

\* The bounds count in natural numbers.
LEMMA CountedTyped ==
    ASSUME Types, NEW k \in DOMAIN Bounds, Counted(k)
    PROVE  count' \in [DOMAIN Bounds -> Nat]
<1>1. count[k] + 1 \in Nat
  BY DEF Types
<1> QED  BY <1>1 DEF Types, Counted

\* What is counted.
LEMMA BoundNames == DOMAIN Bounds = {"pack", "rename", "edit", "removal", "crash"}
BY DEF Bounds

\* A process that stays keeps its shape.
LEMMA StaysShaped ==
    ASSUME NEW m \in Mover, MoverShape(m), MoverStays(m)
    PROVE  MoverShape(m)'
BY DEF MoverShape, MoverStays

\* A process that leaves is idle, and holds nothing.
LEMMA LeavesShaped ==
    ASSUME NEW m \in Mover, MoverLeaves(m)
    PROVE  MoverShape(m)'
BY DEF MoverShape, MoverLeaves, Moving

\* The thread of the rewrite keeps its shape when it stays and when it leaves.
LEMMA SyncerShaped ==
    ASSUME SyncShape, SyncerStays \/ SyncerLeaves
    PROVE  SyncShape'
BY DEF SyncShape, SyncerStays, SyncerLeaves, Done

-----------------------------------------------------------------------------
(* Each action keeps the types and the shapes. *)

\* A recovery leaves files and rows of the journal.
LEMMA RecoveredTyped ==
    ASSUME Types, NEW w \in Work, Unsettled(w), Recovered(w)
    PROVE  fs' \in [Path -> File \cup {None}] /\ move' \in [Work -> MoveRow]
<1>1. move[w] \in MoveRow /\ move[w] # NoMove /\ NoMove \in MoveRow
  BY DEF Types, MoveRow, Unsettled, NoMove
<1>2. move[w].src \in Path /\ move[w].dst \in Path /\ move[w].sha \in File
      /\ [move[w] EXCEPT !.status = "RECOVERY_REQUIRED"] \in MoveRow
  BY <1>1 DEF MoveRow
<1>3. move' = [move EXCEPT ![w] = NoMove] \/ move' = [move EXCEPT ![w] = [move[w] EXCEPT !.status = "RECOVERY_REQUIRED"]]
  BY DEF Recovered, Types
<1>4. move' \in [Work -> MoveRow]
  BY <1>1, <1>2, <1>3 DEF Types
<1>5. fs' = fs \/ fs' = [fs EXCEPT ![move[w].src] = move[w].sha, ![move[w].dst] = None]
  BY DEF Recovered
<1>6. fs' \in [Path -> File \cup {None}]
  BY <1>2, <1>5 DEF Types
<1> QED  BY <1>4, <1>6

\* The processes that a step lets stay, or ends.
ProcessesRest ==
    /\ mover' \in [Mover -> MoverState] /\ \A m \in Mover : MoverStays(m) \/ MoverLeaves(m)
    /\ syncer' \in SyncState /\ (SyncerStays \/ SyncerLeaves)

\* Processes that stay or leave keep their shapes.
LEMMA RestingShapes ==
    ASSUME Shapes, ProcessesRest
    PROVE  Shapes'
BY StaysShaped, LeavesShaped, SyncerShaped DEF Shapes, ProcessesRest

\* What does not change, stays.
LEMMA UnchangedRests ==
    ASSUME Types
    PROVE  /\ mover' = mover => mover' \in [Mover -> MoverState] /\ MoversStay
           /\ syncer' = syncer => syncer' \in SyncState /\ SyncerStays
BY DEF Types, MoversStay, MoverStays, SyncerStays

\* Rows and processes keep their types when a journal is recovered ...
LEMMA RecoverMoveTyped ==
    ASSUME Types, Shapes, NEW w \in Work, RecoverMove(w)
    PROVE  Types' /\ Shapes'
<1>1. Unsettled(w) /\ Recovered(w)
  BY DEF RecoverMove, Recoverable, Unsettled
<1>2. fs' \in [Path -> File \cup {None}] /\ move' \in [Work -> MoveRow]
  BY <1>1, RecoveredTyped
<1>3. ProcessesRest
  BY UnchangedRests DEF RecoverMove, ProcessesRest, MoversStay
<1> QED  BY <1>2, <1>3, RestingShapes DEF RecoverMove, Types

\* ... when the operator renames ...
LEMMA RenameBeginTyped ==
    ASSUME Types, Shapes, NEW w \in Work, NEW p \in Path, RenameBegin(w, p)
    PROVE  Types' /\ Shapes'
<1> DEFINE x == [pc |-> "inspected", w |-> w, src |-> art[w].path, dst |-> p, file |-> fs[art[w].path], fresh |-> TRUE]
<1>1. art[w].path \in Path /\ fs[art[w].path] \in File
  BY Values DEF RenameBegin, Published, Types, ArtRow, NoArt
<1>2. x \in MoverState /\ mover' = [mover EXCEPT !["request"] = x]
  BY <1>1 DEF RenameBegin, MoverState, MoverPc
<1>3. mover' \in [Mover -> MoverState] /\ mover'["request"] = x /\ mover'["worker"] = mover["worker"]
  BY <1>2 DEF Types, Mover
<1>4. count' \in [DOMAIN Bounds -> Nat]
  BY CountedTyped, BoundNames DEF RenameBegin
<1>5. Types'
  BY <1>3, <1>4 DEF RenameBegin, Types
<1>6. \A m \in Mover : MoverShape(m)'
  BY <1>1, <1>3, StaysShaped DEF Mover, MoverShape, Moving, Shapes, MoverStays
<1>7. SyncShape'
  BY DEF RenameBegin, Shapes, SyncShape
<1> QED  BY <1>5, <1>6, <1>7 DEF Shapes

\* ... when the worker refiles ...
LEMMA RefileBeginTyped ==
    ASSUME Types, Shapes, NEW p \in Path, RefileBegin(p)
    PROVE  Types' /\ Shapes'
<1> DEFINE y == mover["worker"]
           x == [y EXCEPT !.pc = "inspected", !.src = art[y.w].path, !.dst = p, !.file = fs[art[y.w].path]]
<1>1. "worker" \in Mover /\ y.pc = "REFILE" /\ y \in MoverState
  BY DEF RefileBegin, Mover, Types
<1>2. y.w \in Work
  BY <1>1 DEF Shapes, MoverShape
<1>3. art[y.w].path \in Path /\ fs[art[y.w].path] \in File
  BY <1>2, Values DEF RefileBegin, Published, Types, ArtRow, NoArt
<1>4. x \in MoverState /\ x.pc = "inspected" /\ x.w = y.w /\ x.src = art[y.w].path /\ x.dst = p /\ x.file = fs[art[y.w].path]
  BY <1>1, <1>3 DEF MoverState, MoverPc
<1>5. mover' = [mover EXCEPT !["worker"] = x]
  BY DEF RefileBegin
<1> HIDE DEF x, y
<1>6. mover' \in [Mover -> MoverState] /\ mover'["worker"] = x /\ mover'["request"] = mover["request"]
  BY <1>4, <1>5 DEF Types, Mover
<1>7. Types'
  BY <1>6 DEF RefileBegin, Types
<1>8. \A m \in Mover : MoverShape(m)'
  BY <1>2, <1>3, <1>4, <1>6, StaysShaped DEF Mover, MoverShape, Moving, Shapes, MoverStays
<1>9. SyncShape'
  BY DEF RefileBegin, Shapes, SyncShape
<1> QED  BY <1>7, <1>8, <1>9 DEF Shapes

\* A mover goes on to another step of the same move or publication.
LEMMA MoverGoesOn ==
    ASSUME Types, NEW m \in Mover, NEW pc \in MoverPc, mover' = [mover EXCEPT ![m].pc = pc]
    PROVE  /\ mover' \in [Mover -> MoverState] /\ mover'[m].pc = pc /\ mover'[m].w = mover[m].w
           /\ mover'[m].src = mover[m].src /\ mover'[m].dst = mover[m].dst /\ mover'[m].file = mover[m].file
           /\ \A i \in Mover \ {m} : MoverStays(i)
<1> DEFINE x == [mover[m] EXCEPT !.pc = pc]
<1>1. mover[m] \in MoverState /\ mover' = [mover EXCEPT ![m] = x]
  BY DEF Types
<1>2. x \in MoverState /\ x.pc = pc /\ x.w = mover[m].w /\ x.src = mover[m].src /\ x.dst = mover[m].dst /\ x.file = mover[m].file
  BY <1>1 DEF MoverState
<1> HIDE DEF x
<1> QED  BY <1>1, <1>2 DEF Types, MoverStays

\* ... when a move is recorded ...
LEMMA MovePrepareTyped ==
    ASSUME Types, Shapes, NEW m \in Mover, MovePrepare(m)
    PROVE  Types' /\ Shapes'
<1> DEFINE x == mover[m]
           r == [status |-> "PREPARED", worker |-> m = "worker", live |-> TRUE, src |-> x.src, dst |-> x.dst, sha |-> x.file]
<1>1. x.pc = "inspected" /\ x.w \in Work /\ x.src \in Path /\ x.dst \in Path /\ x.file \in File
  BY DEF MovePrepare, Shapes, MoverShape, Moving
<1>2. r \in MoveRow /\ move' = [move EXCEPT ![x.w] = r]
  BY <1>1 DEF MovePrepare, MoveRow
<1>3. move' \in [Work -> MoveRow]
  BY <1>1, <1>2 DEF Types
<1>4. /\ mover' \in [Mover -> MoverState] /\ mover'[m].pc = "prepared" /\ mover'[m].w = x.w
      /\ mover'[m].src = x.src /\ mover'[m].dst = x.dst /\ mover'[m].file = x.file
      /\ \A i \in Mover \ {m} : MoverStays(i)
  BY MoverGoesOn DEF MovePrepare, MoverPc
<1>5. Types'
  BY <1>3, <1>4 DEF MovePrepare, Types
<1>6. \A i \in Mover : MoverShape(i)'
  BY <1>1, <1>4, StaysShaped DEF MoverShape, Moving, Shapes
<1> QED  BY <1>5, <1>6 DEF Shapes, MovePrepare, SyncShape

\* ... and when its file is renamed.
LEMMA MoveRenameTyped ==
    ASSUME Types, Shapes, NEW m \in Mover, MoveRename(m)
    PROVE  Types' /\ Shapes'
<1> DEFINE x == mover[m]
<1>1. x.pc = "prepared" /\ x.w \in Work /\ x.src \in Path /\ x.dst \in Path /\ x.file \in File
  BY DEF MoveRename, Shapes, MoverShape, Moving
<1>2. fs' \in [Path -> File \cup {None}]
  BY <1>1 DEF MoveRename, Types
<1>3. /\ mover' \in [Mover -> MoverState] /\ mover'[m].pc = "renamed" /\ mover'[m].w = x.w
      /\ mover'[m].src = x.src /\ mover'[m].dst = x.dst /\ mover'[m].file = x.file
      /\ \A i \in Mover \ {m} : MoverStays(i)
  BY MoverGoesOn DEF MoveRename, MoverPc
<1>4. Types'
  BY <1>2, <1>3 DEF MoveRename, Types
<1>5. \A i \in Mover : MoverShape(i)'
  BY <1>1, <1>3, StaysShaped DEF MoverShape, Moving, Shapes
<1> QED  BY <1>4, <1>5 DEF Shapes, MoveRename, SyncShape

-----------------------------------------------------------------------------
(* What a step leaves of the invariant when it changes only some of the    *)
(* state: frame lemmas for the parts of Inv.                               *)

\* The journal agrees with the movers, while movers that hold a record stay with it.
LEMMA JournalRests ==
    ASSUME Journaled,
           \A m \in Mover : MoverStays(m) \/ mover'[m].pc \notin {"prepared", "renamed"},
           \A m \in Mover : mover[m].pc \in {"prepared", "renamed"} /\ MoverStays(m)
                              => move'[mover[m].w] = move[mover[m].w],
           \A m \in Mover : mover[m].pc = "renamed" /\ MoverStays(m) =>
             writing' = writing /\ art'[mover[m].w].path = art[mover[m].w].path /\ pub'[mover[m].w] = pub[mover[m].w]
    PROVE  Journaled'
<1> SUFFICES ASSUME NEW m \in Mover, mover'[m].pc \in {"prepared", "renamed"}
             PROVE  /\ Recorded(m)'
                    /\ mover'[m].pc = "renamed" =>
                         writing' = m /\ art'[mover'[m].w].path = mover'[m].src /\ pub'[mover'[m].w] = NoPub
  BY DEF Journaled
<1>1. MoverStays(m) /\ mover[m].pc \in {"prepared", "renamed"}
  BY DEF MoverStays
<1>2. Recorded(m)'
  BY <1>1 DEF Journaled, Recorded, MoverStays
<1> QED  BY <1>1, <1>2 DEF Journaled, MoverStays

\* Publications stay the worker's and of running rows, while none begins.
LEMMA PublishingRests ==
    ASSUME Publishing, phase' = phase \/ phase' # "UP",
           \A w \in Work : pub'[w] \in {pub[w], NoPub},
           MoverStays("worker") \/ phase' # "UP" \/ \A w \in Work : pub'[w] = NoPub,
           \A w \in Work : pub'[w] # NoPub /\ art'[w].path # None => Published(w) /\ job'[w].state = job[w].state
    PROVE  Publishing'
<1> SUFFICES ASSUME NEW w \in Work, pub'[w] # NoPub
             PROVE  /\ phase' = "UP" => mover'["worker"].pc = "publishing" /\ mover'["worker"].w = w
                    /\ art'[w].path # None => job'[w].state = "RUNNING"
  BY DEF Publishing, Published
<1>1. pub[w] # NoPub
  OBVIOUS
<1> QED  BY <1>1 DEF Publishing, MoverStays

MoverRests(m) == MoverStays(m) \/ (mover'[m].pc \notin Moving /\ mover'[m].file \in {mover[m].file, None})
SyncerRests ==
    /\ syncer'.file \in {syncer.file, None} /\ syncer'.new \in {syncer.new, None} /\ syncer'.w \in {syncer.w, None}
    /\ syncer'.opened \in {syncer.opened, None} \/ \E p \in Path : syncer'.opened = fs[p]
    /\ syncer'.pc \in Done =>
         /\ syncer.pc \in Done /\ syncer'.path = syncer.path /\ syncer'.w = syncer.w
         /\ syncer'.file = syncer.file /\ syncer'.new = syncer.new

\* Versions stay counted, while no version is made.
LEMMA NumberedRests ==
    ASSUME Numbered, made' = made,
           \A p \in Path : fs'[p] \in {fs[p], None} \/ Counts(fs'[p]),
           \A w \in Work : move'[w].sha \in {move[w].sha, None} /\ pub'[w] \in {pub[w], NoPub},
           \A m \in Mover : MoverRests(m), SyncerRests
    PROVE  Numbered'
<1>1. Counts(None) /\ \A f : Counts(f)' <=> (f' # None => f'.n <= made'[f'.work])
  BY DEF Counts
<1>2. \A p \in Path : Counts(fs[p])'
  BY DEF Counts, Numbered
<1>3. \A w \in Work : (Counts(move[w].sha) /\ Counts(pub[w].old) /\ Counts(pub[w].new))'
  BY DEF Counts, Numbered, NoPub
<1>4. \A m \in Mover : Counts(mover[m].file)'
  BY DEF Counts, Numbered, MoverRests, MoverStays
<1>5. (Counts(syncer.file) /\ Counts(syncer.opened) /\ Counts(syncer.new))'
  BY DEF Counts, Numbered, SyncerRests
<1> QED  BY <1>2, <1>3, <1>4, <1>5 DEF Numbered

\* No step has touched what makes the work v calm.
Undisturbed(v) ==
    /\ art'[v].path \in {art[v].path, None} /\ pub'[v] = pub[v]
    /\ Unsettled(v)' = Unsettled(v)
    /\ move'[v].src = move[v].src /\ move'[v].dst = move[v].dst /\ move'[v].sha = move[v].sha
    /\ Published(v) /\ Owned(fs[art[v].path], v) => fs'[art[v].path] = fs[art[v].path]
    /\ Unsettled(v) /\ Owned(fs[move[v].dst], v) => fs'[move[v].dst] = fs[move[v].dst]
\* Nor does the syncer threaten it.
Harmless(v) ==
    /\ syncer'.w = v /\ pub[v] # NoPub => syncer'.file # pub[v].new /\ syncer'.new # pub[v].new
    /\ Unsettled(v) /\ syncer'.pc \in Done /\ syncer'.path = move[v].dst /\ syncer'.file = move[v].sha =>
         syncer.pc \in Done /\ syncer.path = syncer'.path /\ syncer.file = syncer'.file /\ syncer.new = syncer'.new

\* A rewrite that goes on with what it had threatens no publication and no move.
LEMMA SyncerRestsHarmless ==
    ASSUME Types, NEW v \in Work, Apart(v), SyncerRests
    PROVE  Harmless(v)
<1>1. pub[v] # NoPub => pub[v].new # None
  BY Values DEF Types, PubRow
<1> QED  BY <1>1, Values DEF Apart, SyncerRests, Harmless

\* A work that no step has disturbed stays calm.
LEMMA WorkStaysCalm ==
    ASSUME Types, NEW v \in Work, CalmAt(v), Undisturbed(v), Harmless(v)
    PROVE  CalmAt(v)'
<1>1. Apart(v)'
  BY DEF CalmAt, Apart, Undisturbed, Harmless
<1>2. Owning(v)'
  BY DEF CalmAt, Owning, Undisturbed
<1>3. Published(v)' => Published(v) /\ art'[v].path = art[v].path
  BY DEF Undisturbed, Published
<1>4. Published(v) /\ Keeps(art[v].path, v) => fs'[art[v].path] = fs[art[v].path]
  BY DEF Keeps, Undisturbed
<1>5. Unsettled(v) /\ Keeps(move[v].dst, v) => fs'[move[v].dst] = fs[move[v].dst]
  BY DEF Keeps, Undisturbed
<1>6. Published(v)' /\ Keeps(art[v].path, v) => Keeps(art[v].path, v)'
  BY <1>3, <1>4 DEF Keeps, Undisturbed
<1>7. Unsettled(v) /\ Keeps(move[v].dst, v) => Unsettled(v)' /\ Keeps(move[v].dst, v)'
  BY <1>5 DEF Keeps, Undisturbed
<1>8. Listed(v)'
  BY <1>3, <1>6, <1>7 DEF CalmAt, Listed
<1>9. Elsewhere(v)'
  <2> SUFFICES ASSUME Published(v)', Unsettled(v)', art'[v].path # move'[v].src
               PROVE  /\ Keeps(art[v].path, v)'
                      /\ art'[v].path = move'[v].dst =>
                           /\ ~Shows(move[v].dst, v, move[v].sha)'
                           /\ syncer'.pc \in Done /\ syncer'.path = move'[v].dst /\ syncer'.file = move'[v].sha
                                => ~Shows(move[v].dst, v, syncer.new)'
    BY DEF Elsewhere
  <2>1. Published(v) /\ Unsettled(v) /\ art[v].path # move[v].src /\ art'[v].path = art[v].path
    BY <1>3 DEF Undisturbed
  <2>2. Keeps(art[v].path, v)
    BY <2>1 DEF CalmAt, Elsewhere
  <2>3. Keeps(art[v].path, v)' /\ fs'[art[v].path] = fs[art[v].path]
    BY <2>2, <2>1, <1>4, <1>6
  <2>4. \A f : art[v].path = move[v].dst =>
           ((fs'[move'[v].dst] = f \/ (pub'[v].dst = move'[v].dst /\ fs'[move'[v].dst] = pub'[v].new /\ pub'[v].old = f))
             <=> Shows(move[v].dst, v, f))
    BY <2>1, <2>3 DEF Shows, Undisturbed
  <2>5. art'[v].path = move'[v].dst => ~Shows(move[v].dst, v, move[v].sha)'
    BY <2>1, <2>4 DEF CalmAt, Elsewhere, Shows, Undisturbed
  <2>6. art'[v].path = move'[v].dst /\ syncer'.pc \in Done /\ syncer'.path = move'[v].dst /\ syncer'.file = move'[v].sha
           => ~Shows(move[v].dst, v, syncer.new)'
    BY <2>1, <2>4 DEF CalmAt, Elsewhere, Shows, Undisturbed, Harmless
  <2> QED  BY <2>3, <2>5, <2>6
<1> QED  BY <1>1, <1>2, <1>8, <1>9 DEF CalmAt

\* So does a mover whose work is not disturbed.
LEMMA MoverStaysCalm ==
    ASSUME Types, Journaled, NEW m \in Mover, CalmMover(m), MoverRests(m),
           mover[m].pc \in {"prepared", "renamed"} => Undisturbed(mover[m].w)
    PROVE  CalmMover(m)'
<1>1. CASE mover'[m].pc \notin Moving
  BY <1>1 DEF CalmMover, Moving
<1>2. CASE MoverStays(m)
  <2>1. mover'[m].pc \in Moving => mover'[m].file.work = mover'[m].w
    BY <1>2 DEF CalmMover, MoverStays
  <2>2. ASSUME mover'[m].pc = "renamed" PROVE Owned(fs'[mover'[m].dst], mover'[m].w)
    <3>1. mover[m].pc = "renamed" /\ Owned(fs[mover[m].dst], mover[m].w)
      BY <1>2, <2>2 DEF CalmMover, MoverStays
    <3>2. Unsettled(mover[m].w) /\ move[mover[m].w].dst = mover[m].dst
      BY <3>1 DEF Journaled, Recorded, Unsettled
    <3> QED  BY <1>2, <3>1, <3>2 DEF Undisturbed, MoverStays
  <2>3. ASSUME mover'[m].pc = "prepared", art'[mover'[m].w].path # None
        PROVE  Keeps(art[mover[m].w].path, mover[m].w)'
    <3>1. mover[m].pc = "prepared" /\ mover'[m].w = mover[m].w /\ Undisturbed(mover[m].w)
      BY <1>2, <2>3 DEF MoverStays
    <3>2. Published(mover[m].w) /\ art'[mover[m].w].path = art[mover[m].w].path
      BY <2>3, <3>1 DEF Undisturbed, Published
    <3>3. Keeps(art[mover[m].w].path, mover[m].w)
      BY <3>1, <3>2 DEF CalmMover
    <3> QED  BY <3>1, <3>2, <3>3 DEF Keeps, Undisturbed
  <2> QED  BY <2>1, <2>2, <2>3 DEF CalmMover, Published, Owned
<1> QED  BY <1>1, <1>2 DEF MoverRests

\* So does a rewrite that goes on with what it had.
LEMMA SyncerStaysCalm ==
    ASSUME CalmSyncer, SyncerRests
    PROVE  CalmSyncer'
BY DEF CalmSyncer, SyncerRests

-----------------------------------------------------------------------------
(* Steps that leave the files, the publications and the moves alone.       *)

\* While the write lock is free, no file is renamed by a live move.
LEMMA NobodyRenames ==
    ASSUME Journaled, writing = None
    PROVE  \A m \in Mover : mover[m].pc # "renamed"
BY Values DEF Journaled

\* A row of the journal that is the same, but perhaps no longer live.
MoveSame(w) ==
    /\ Unsettled(w)' = Unsettled(w)
    /\ move'[w].src = move[w].src /\ move'[w].dst = move[w].dst /\ move'[w].sha = move[w].sha

\* A step that leaves files, publications and moves alone keeps the invariant.
LEMMA QuietKeeps ==
    ASSUME Inv, Types', Shapes',
           fs' = fs, made' = made, pub' = pub, raced' = {} => raced = {}, phase' = phase \/ phase' # "UP",
           \A m \in Mover : MoverRests(m), SyncerRests,
           MoverStays("worker") \/ phase' # "UP" \/ \A w \in Work : pub[w] = NoPub,
           \A w \in Work : MoveSame(w) /\ art'[w].path \in {art[w].path, None},
           \A m \in Mover : mover[m].pc \in {"prepared", "renamed"} /\ MoverStays(m) => move' = move,
           \A m \in Mover : mover[m].pc = "renamed" /\ MoverStays(m)
                              => writing' = writing /\ art'[mover[m].w].path = art[mover[m].w].path,
           \A w \in Work : pub[w] # NoPub /\ art'[w].path # None => job'[w].state = job[w].state
    PROVE  Inv'
<1>1. Journaled'
  <2>1. \A m \in Mover : MoverStays(m) \/ mover'[m].pc \notin {"prepared", "renamed"}
    BY DEF MoverRests, Moving
  <2> QED  BY <2>1, JournalRests DEF Inv
<1>2. Publishing'
  <2>1. \A w \in Work : art'[w].path # None => Published(w)
    BY DEF Published
  <2> QED  BY <2>1, PublishingRests DEF Inv
<1>3. Numbered'
  <2>1. \A w \in Work : move'[w].sha \in {move[w].sha, None} /\ pub'[w] \in {pub[w], NoPub}
    BY DEF MoveSame
  <2> QED  BY <2>1, NumberedRests DEF Inv
<1>4. ASSUME raced' = {} PROVE Calm'
  <2>1. Calm /\ Types /\ Journaled
    BY <1>4 DEF Inv
  <2>2. \A v \in Work : Undisturbed(v)
    BY DEF Undisturbed, MoveSame
  <2>3. \A v \in Work : Harmless(v)
    BY <2>1, SyncerRestsHarmless DEF Calm, CalmAt
  <2>4. \A v \in Work : CalmAt(v)'
    BY <2>1, <2>2, <2>3, WorkStaysCalm DEF Calm
  <2>5. \A m \in Mover : mover[m].pc \in {"prepared", "renamed"} => mover[m].w \in Work
    BY DEF Inv, Shapes, MoverShape
  <2>6. \A m \in Mover : CalmMover(m)'
    BY <2>1, <2>2, <2>5, MoverStaysCalm DEF Calm
  <2> QED  BY <2>1, <2>4, <2>6, SyncerStaysCalm DEF Calm
<1> QED  BY <1>1, <1>2, <1>3, <1>4 DEF Inv

\* A journal that is left alone has the same moves.
LEMMA SameMoves ==
    ASSUME move' = move
    PROVE  \A w \in Work : MoveSame(w)
BY DEF MoveSame, Unsettled

\* A thread that stays or leaves goes on with what it had, or with nothing.
LEMMA SyncersRest ==
    ASSUME SyncerStays \/ SyncerLeaves
    PROVE  SyncerRests
BY DEF SyncerStays, SyncerLeaves, SyncerRests, Done

\* The usual case: the processes stay, or leave for good.
LEMMA RestKeeps ==
    ASSUME Inv, Types', ProcessesRest,
           fs' = fs, made' = made, pub' = pub, raced' = raced, phase' = phase, writing' = writing, move' = move,
           MoverStays("worker") \/ \A w \in Work : pub[w] = NoPub,
           \A w \in Work : art'[w].path = art[w].path,
           \A w \in Work : pub[w] # NoPub /\ Published(w) => job'[w].state = job[w].state
    PROVE  Inv'
<1>1. Shapes'
  BY RestingShapes DEF Inv
<1>2. \A m \in Mover : MoverRests(m)
  BY DEF ProcessesRest, MoverRests, MoverLeaves, Moving
<1>3. SyncerRests
  BY SyncersRest DEF ProcessesRest
<1>4. \A w \in Work : MoveSame(w) /\ art'[w].path \in {art[w].path, None}
  BY SameMoves
<1>5. \A w \in Work : pub[w] # NoPub /\ art'[w].path # None => job'[w].state = job[w].state
  BY DEF Published
<1>6. \A m \in Mover : mover[m].pc = "renamed" /\ MoverStays(m)
         => writing' = writing /\ art'[mover[m].w].path = art[mover[m].w].path
  BY DEF Inv, Shapes, MoverShape
<1> QED  BY <1>1, <1>2, <1>3, <1>4, <1>5, <1>6, QuietKeeps

\* Enqueue writes a row that is not running, and a pin.
LEMMA EnqueueKeeps ==
    ASSUME Inv, NEW w \in Work, NEW kind \in {"PACK", "REFILE"}, NEW p \in Path \cup {None}, Enqueue(w, kind, p)
    PROVE  Inv'
<1>1. Types /\ Shapes /\ job[w].state # "RUNNING"
  BY DEF Inv, Enqueue
<1>2. mover' \in [Mover -> MoverState] /\ MoversStay
  BY <1>1, MoversAge DEF Enqueue
<1>3. edit' \in [Work -> {"NONE", "CURRENT", "STALE"}] /\ syncer' \in SyncState /\ SyncerStays
  BY <1>1, BumpStays DEF Enqueue
<1>4. count' \in [DOMAIN Bounds -> Nat]
  BY <1>1, CountedTyped, BoundNames DEF Enqueue
<1>5. pin' \in [Work -> Path \cup {None}] /\ job' \in [Work -> JobRow]
  BY <1>1 DEF Enqueue, Types, JobRow
<1>6. Types'
  BY <1>1, <1>2, <1>3, <1>4, <1>5 DEF Types, Enqueue
<1>7. ProcessesRest /\ MoverStays("worker")
  BY <1>2, <1>3 DEF ProcessesRest, MoversStay, Mover
<1>8. \A v \in Work : pub[v] # NoPub /\ Published(v) => job'[v].state = job[v].state
  BY <1>1 DEF Enqueue, Types, Inv, Publishing
<1> QED  BY <1>6, <1>7, <1>8, RestKeeps DEF Enqueue

\* Claim starts the worker on a row: nothing is published then.
LEMMA ClaimKeeps ==
    ASSUME Inv, NEW w \in Work, Claim(w)
    PROVE  Inv'
<1> DEFINE ms == Aged(mover, w, FALSE)
           x == [Idle EXCEPT !.pc = job[w].kind, !.w = w, !.fresh = job[w].bound]
<1>1. Types /\ Shapes /\ phase = "UP" /\ writing = None /\ "worker" \in Mover /\ mover["worker"].pc = "idle"
  BY DEF Inv, Claim, Up, Mover
<1>2. ms \in [Mover -> MoverState] /\ \A m \in Mover :
         /\ ms[m].pc = mover[m].pc /\ ms[m].w = mover[m].w /\ ms[m].src = mover[m].src
         /\ ms[m].dst = mover[m].dst /\ ms[m].file = mover[m].file
  <2>1. mover \in [Mover -> MoverState]
    BY <1>1 DEF Types
  <2>2. ms = [m \in Mover |-> ms[m]] /\ \A m \in Mover : ms[m] \in {mover[m], Faded(mover[m])}
    BY DEF Aged, Faded
  <2> HIDE DEF ms
  <2> QED  BY ONLY <2>1, <2>2, AgedStays
<1>3. x \in MoverState /\ x.pc \in {"PACK", "REFILE"} /\ x.w = w /\ x.file = None
  BY <1>1 DEF Types, JobRow, MoverState, MoverPc, Idle
<1>4. mover' = [ms EXCEPT !["worker"] = x]
  BY DEF Claim
<1> HIDE DEF ms, x
<1>5. mover' \in [Mover -> MoverState] /\ mover'["worker"] = x /\ MoverStays("request")
  BY <1>2, <1>3, <1>4 DEF Mover, MoverStays
<1>6. edit' \in [Work -> {"NONE", "CURRENT", "STALE"}] /\ syncer' \in SyncState /\ SyncerStays
  BY <1>1, BumpStays DEF Claim
<1>7. Types'
  <2>1. job' \in [Work -> JobRow]
    <3> DEFINE row == [job[w] EXCEPT !.state = "RUNNING"]
    <3>1. job \in [Work -> JobRow] /\ job' = [job EXCEPT ![w] = row]
      BY <1>1 DEF Claim, Types
    <3>2. row \in JobRow
      BY <3>1 DEF JobRow
    <3> HIDE DEF row
    <3> QED  BY <3>1, <3>2
  <2> QED  BY <1>1, <1>5, <1>6, <2>1 DEF Claim, Types
<1>8. Shapes'
  <2>1. MoverShape("request")'
    BY <1>1, <1>5, StaysShaped DEF Shapes, Mover
  <2>2. MoverShape("worker")'
    BY <1>3, <1>5 DEF MoverShape, Moving
  <2> QED  BY <1>1, <1>6, <2>1, <2>2, SyncerShaped DEF Shapes, Mover
<1>9. \A m \in Mover : MoverRests(m)
  BY <1>3, <1>5 DEF MoverRests, Mover, Moving
<1>10. \A v \in Work : pub[v] = NoPub
  BY <1>1 DEF Inv, Publishing
<1>11. SyncerRests
  BY <1>6, SyncersRest
<1>12. \A m \in Mover : mover[m].pc # "renamed"
  BY <1>1, NobodyRenames DEF Inv
<1>13. \A v \in Work : MoveSame(v) /\ art'[v].path \in {art[v].path, None}
  BY SameMoves DEF Claim
<1> QED  BY <1>7, <1>8, <1>9, <1>10, <1>11, <1>12, <1>13, QuietKeeps DEF Claim

\* The worker chooses a path for its archive.
LEMMA PackPlanKeeps ==
    ASSUME Inv, NEW p \in Path, PackPlan(p)
    PROVE  Inv'
<1> DEFINE x == [mover["worker"] EXCEPT !.pc = "packing", !.dst = p]
<1>1. Types /\ Shapes /\ phase = "UP" /\ "worker" \in Mover /\ mover["worker"] \in MoverState /\ mover["worker"].pc = "PACK"
  BY DEF Inv, PackPlan, Up, Mover, Types
<1>2. x \in MoverState /\ x.pc = "packing" /\ x.w = mover["worker"].w /\ x.dst = p /\ x.file = mover["worker"].file
  BY <1>1 DEF MoverState, MoverPc
<1>3. mover' = [mover EXCEPT !["worker"] = x]
  BY <1>1 DEF PackPlan, Types
<1>4. mover["worker"].w \in Work
  BY <1>1 DEF Shapes, MoverShape
<1> HIDE DEF x
<1>5. mover' \in [Mover -> MoverState] /\ mover'["worker"] = x /\ MoverStays("request")
  BY <1>1, <1>2, <1>3 DEF Mover, MoverStays, Types
<1>6. Types'
  BY <1>1, <1>5 DEF PackPlan, Types
<1>7. Shapes'
  <2>1. MoverShape("request")'
    BY <1>1, <1>5, StaysShaped DEF Shapes, Mover
  <2>2. MoverShape("worker")'
    BY <1>2, <1>4, <1>5 DEF MoverShape, Moving
  <2> QED  BY <1>1, <2>1, <2>2 DEF Shapes, Mover, PackPlan, SyncShape
<1>8. \A m \in Mover : MoverRests(m)
  BY <1>2, <1>5 DEF MoverRests, Mover, Moving
<1>9. \A v \in Work : pub[v] = NoPub
  BY <1>1 DEF Inv, Publishing
<1>10. SyncerRests
  BY SyncersRest DEF PackPlan, SyncerStays
<1>11. \A v \in Work : MoveSame(v) /\ art'[v].path \in {art[v].path, None}
  BY SameMoves DEF PackPlan
<1> QED  BY <1>6, <1>7, <1>8, <1>9, <1>10, <1>11, QuietKeeps DEF PackPlan

\* A row without worker goes back when its publication is settled.
LEMMA ReclaimKeeps ==
    ASSUME Inv, NEW w \in Work, Reclaim(w)
    PROVE  Inv'
<1>1. Types /\ pub[w] = NoPub
  BY DEF Inv, Reclaim
<1>2. mover' \in [Mover -> MoverState] /\ MoversStay
  BY <1>1, MoversAge DEF Reclaim
<1>3. edit' \in [Work -> {"NONE", "CURRENT", "STALE"}] /\ syncer' \in SyncState /\ SyncerStays
  BY <1>1, BumpStays DEF Reclaim
<1>4. job' \in [Work -> JobRow] /\ \A v \in Work \ {w} : job'[v] = job[v]
  BY <1>1 DEF Reclaim, Types, JobRow
<1>5. Types'
  BY <1>1, <1>2, <1>3, <1>4 DEF Types, Reclaim
<1>6. ProcessesRest /\ MoverStays("worker")
  BY <1>2, <1>3 DEF ProcessesRest, MoversStay, Mover
<1> QED  BY <1>1, <1>4, <1>5, <1>6, RestKeeps DEF Reclaim

\* A pin of the operator touches no file.
LEMMA PinPathKeeps ==
    ASSUME Inv, NEW w \in Work, NEW p \in Path, PinPath(w, p)
    PROVE  Inv'
<1>1. Types
  BY DEF Inv
<1>2. mover' \in [Mover -> MoverState] /\ MoversStay
  BY <1>1, MoversAge DEF PinPath
<1>3. edit' \in [Work -> {"NONE", "CURRENT", "STALE"}] /\ syncer' \in SyncState /\ SyncerStays
  BY <1>1, BumpStays DEF PinPath
<1>4. count' \in [DOMAIN Bounds -> Nat]
  BY <1>1, CountedTyped, BoundNames DEF PinPath
<1>5. pin' \in [Work -> Path \cup {None}]
  BY <1>1 DEF PinPath, Types
<1>6. Types'
  BY <1>1, <1>2, <1>3, <1>4, <1>5 DEF Types, PinPath
<1>7. ProcessesRest /\ MoverStays("worker")
  BY <1>2, <1>3 DEF ProcessesRest, MoversStay, Mover
<1> QED  BY <1>6, <1>7, RestKeeps DEF PinPath

\* An edit of metadata touches no file.
LEMMA EditKeeps ==
    ASSUME Inv, NEW w \in Work, Edit(w)
    PROVE  Inv'
<1>1. Types
  BY DEF Inv
<1>2. mover' \in [Mover -> MoverState] /\ MoversStay
  BY <1>1, MoversAge DEF Edit
<1>3. syncer' = syncer \/ syncer' = [syncer EXCEPT !.fresh = FALSE]
  BY DEF Edit
<1>4. syncer' \in SyncState /\ SyncerStays
  BY <1>1, <1>3 DEF Types, SyncState, SyncerStays
<1>5. count' \in [DOMAIN Bounds -> Nat] /\ edit' \in [Work -> {"NONE", "CURRENT", "STALE"}]
  BY <1>1, CountedTyped, BoundNames DEF Edit, Types
<1>6. Types'
  BY <1>1, <1>2, <1>4, <1>5 DEF Types, Edit
<1>7. ProcessesRest /\ MoverStays("worker")
  BY <1>2, <1>4 DEF ProcessesRest, MoversStay, Mover
<1> QED  BY <1>6, <1>7, RestKeeps DEF Edit

\* The worker, or the request, ends with what it did not rename.
LEMMA EndsRest ==
    ASSUME Types, Shapes, NEW m \in Mover, mover[m].w \in Work, MoverEnds(m)
    PROVE  ProcessesRest /\ \A i \in Mover : MoverRests(i)
<1>1. MoverLeaves(m) /\ \A i \in Mover \ {m} : MoverStays(i)
  BY MoverEndsLeaves
<1>2. mover' \in [Mover -> MoverState] /\ syncer' \in SyncState /\ SyncerStays
  BY MoverEndsLeaves
<1> QED  BY <1>1, <1>2 DEF ProcessesRest, MoverRests, MoverLeaves, Moving

\* A mover ends: types and shapes, whatever becomes of the file and of its record.
LEMMA EndsTyped ==
    ASSUME Types, Shapes, NEW m \in Mover, mover[m].w \in Work, MoverEnds(m),
           fs' \in [Path -> File \cup {None}], move' \in [Work -> MoveRow], writing' \in Mover \cup {None},
           UNCHANGED <<made, art, pin, pub, removal, phase, count, raced>>
    PROVE  Types' /\ Shapes'
<1>1. mover' \in [Mover -> MoverState] /\ syncer' \in SyncState
  BY MoverEndsLeaves
<1>2. job' \in [Work -> JobRow] /\ edit' \in [Work -> {"NONE", "CURRENT", "STALE"}]
  BY MoverEndsLeaves
<1>3. Shapes'
  BY EndsRest, RestingShapes
<1> QED  BY <1>1, <1>2, <1>3 DEF Types

\* The worker leaves before it has published or moved anything.
LEMMA WorkerLeaveKeeps ==
    ASSUME Inv, WorkerLeave
    PROVE  Inv'
<1> DEFINE w == mover["worker"].w
<1>1. Types /\ Shapes /\ "worker" \in Mover /\ w \in Work /\ MoverEnds("worker") /\ phase = "UP"
  BY DEF Inv, WorkerLeave, Mover, Shapes, MoverShape, Up
<1>2. ProcessesRest
  BY <1>1, EndsRest
<1>3. Types'
  BY <1>1, EndsTyped DEF WorkerLeave, Types
<1>4. \A v \in Work : pub[v] = NoPub
  BY <1>1 DEF Inv, Publishing, WorkerLeave
<1> QED  BY <1>2, <1>3, <1>4, RestKeeps DEF WorkerLeave

\* A move whose file cannot be put back leaves its record.
LEMMA MoveAbandonKeeps ==
    ASSUME Inv, NEW m \in Mover, MoveAbandon(m)
    PROVE  Inv'
<1> DEFINE w == mover[m].w
<1>1. Types /\ Shapes /\ w \in Work /\ MoverEnds(m) /\ phase = "UP" /\ mover[m].pc = "renamed"
  BY DEF Inv, MoveAbandon, Shapes, MoverShape, Up
<1>2. writing = m /\ pub[w] = NoPub /\ \A i \in Mover : mover[i].pc = "renamed" => i = m
  BY <1>1 DEF Inv, Journaled
<1>3. MoverLeaves(m) /\ \A i \in Mover : MoverRests(i)
  BY <1>1, MoverEndsLeaves, EndsRest
<1>4. Types' /\ Shapes'
  BY <1>1, EndsTyped DEF MoveAbandon, Types
<1>5. SyncerRests
  BY <1>1, MoverEndsLeaves, SyncersRest
<1>6. MoverStays("worker") \/ \A v \in Work : pub[v] = NoPub
  BY <1>1, MoverEndsLeaves DEF Inv, Publishing, Mover
<1>7. \A v \in Work : pub[v] # NoPub => job'[v].state = job[v].state
  BY <1>1, <1>2, MoverEndsLeaves DEF MoverEnds
<1>8. \A i \in Mover : mover[i].pc = "renamed" => ~MoverStays(i)
  BY <1>1, <1>2, <1>3 DEF MoverStays, MoverLeaves
<1>9. \A v \in Work : MoveSame(v) /\ art'[v].path \in {art[v].path, None}
  BY SameMoves DEF MoveAbandon
<1> QED  BY <1>3, <1>4, <1>5, <1>6, <1>7, <1>8, <1>9, QuietKeeps DEF MoveAbandon

\* The syncer goes on to another step, with the file it opened perhaps.
LEMMA SyncerGoesOn ==
    ASSUME Types, NEW pc \in SyncPc, NEW f \in File \cup {None},
           syncer' = [syncer EXCEPT !.pc = pc, !.opened = f]
    PROVE  /\ syncer' \in SyncState /\ syncer'.pc = pc /\ syncer'.w = syncer.w /\ syncer'.path = syncer.path
           /\ syncer'.file = syncer.file /\ syncer'.opened = f /\ syncer'.new = syncer.new
BY DEF Types, SyncState

\* A step of the syncer that touches no file.
LEMMA SyncerQuiet ==
    ASSUME Inv, syncer' \in SyncState, SyncShape', SyncerRests, edit' \in [Work -> {"NONE", "CURRENT", "STALE"}],
           UNCHANGED <<fs, made, art, pin, job, move, pub, removal, mover, writing, phase, count, raced>>
    PROVE  Inv'
<1>1. Types'
  BY DEF Inv, Types
<1>2. \A m \in Mover : MoverStays(m)
  BY DEF MoverStays
<1>3. Shapes'
  BY <1>2, StaysShaped DEF Inv, Shapes
<1>4. \A m \in Mover : MoverRests(m)
  BY <1>2 DEF MoverRests
<1>5. \A v \in Work : MoveSame(v) /\ art'[v].path \in {art[v].path, None}
  BY SameMoves
<1>6. MoverStays("worker")
  BY <1>2 DEF Mover
<1>7. \A w \in Work : pub[w] # NoPub /\ art'[w].path # None => job'[w].state = job[w].state
  OBVIOUS
<1> QED  BY <1>1, <1>3, <1>4, <1>5, <1>6, <1>7, QuietKeeps

\* The end of a rewrite, when nothing was replaced.
LEMMA SyncEndsQuiet ==
    ASSUME Inv, SyncEnds, UNCHANGED <<fs, made, art, pin, job, move, pub, removal, mover, writing, phase, count, raced>>
    PROVE  Inv'
<1>1. syncer' \in SyncState /\ SyncerLeaves /\ edit' \in [Work -> {"NONE", "CURRENT", "STALE"}]
  BY SyncEndsLeaves DEF Inv
<1>2. SyncShape' /\ SyncerRests
  BY <1>1, SyncerShaped, SyncersRest DEF Inv, Shapes
<1> QED  BY <1>1, <1>2, SyncerQuiet

\* The rewrite looks at its file again ...
LEMMA SyncOpenKeeps ==
    ASSUME Inv, SyncOpen
    PROVE  Inv'
<1>1. CASE SyncEnds
  BY <1>1, SyncEndsQuiet DEF SyncOpen
<1>2. CASE syncer' = [syncer EXCEPT !.pc = "linked"] /\ edit' = edit
  <2>1. Types /\ syncer.pc = "read" /\ SyncShape
    BY DEF Inv, SyncOpen, Shapes
  <2>2. /\ syncer' \in SyncState /\ syncer'.pc = "linked" /\ syncer'.w = syncer.w /\ syncer'.path = syncer.path
        /\ syncer'.file = syncer.file /\ syncer'.opened = syncer.opened /\ syncer'.new = syncer.new
    BY <1>2, <2>1 DEF Types, SyncState, SyncPc
  <2>3. SyncShape' /\ SyncerRests
    BY <2>1, <2>2 DEF SyncShape, SyncerRests, Done
  <2> QED  BY <1>2, <2>1, <2>2, <2>3, SyncerQuiet DEF SyncOpen, Types
<1> QED  BY <1>1, <1>2 DEF SyncOpen

\* ... reads it ...
LEMMA SyncCopyKeeps ==
    ASSUME Inv, SyncCopy
    PROVE  Inv'
<1>1. CASE SyncEnds
  BY <1>1, SyncEndsQuiet DEF SyncCopy
<1>2. CASE fs[syncer.path] # None /\ syncer' = [syncer EXCEPT !.pc = "copied", !.opened = fs[syncer.path]] /\ edit' = edit
  <2>1. Types /\ syncer.pc = "linked" /\ SyncShape /\ syncer.path \in Path /\ fs[syncer.path] \in File
    BY <1>2 DEF Inv, SyncCopy, Shapes, SyncShape, Types
  <2>2. /\ syncer' \in SyncState /\ syncer'.pc = "copied" /\ syncer'.w = syncer.w /\ syncer'.path = syncer.path
        /\ syncer'.file = syncer.file /\ syncer'.opened = fs[syncer.path] /\ syncer'.new = syncer.new
    BY <1>2, <2>1, SyncerGoesOn DEF SyncPc
  <2>3. SyncShape' /\ SyncerRests
    BY <2>1, <2>2 DEF SyncShape, SyncerRests, Done
  <2> QED  BY <1>2, <2>1, <2>2, <2>3, SyncerQuiet DEF SyncCopy, Types
<1> QED  BY <1>1, <1>2 DEF SyncCopy

\* ... and may be refused.
LEMMA SyncRefuseKeeps ==
    ASSUME Inv, SyncRefuse
    PROVE  Inv'
<1>1. Types /\ syncer.pc = "stamped" /\ SyncShape
  BY DEF Inv, SyncRefuse, Shapes
<1>2. /\ syncer' \in SyncState /\ syncer'.pc = "refused" /\ syncer'.w = syncer.w /\ syncer'.path = syncer.path
      /\ syncer'.file = syncer.file /\ syncer'.opened = syncer.opened /\ syncer'.new = syncer.new
  BY <1>1 DEF Types, SyncState, SyncPc, SyncRefuse
<1>3. SyncShape' /\ SyncerRests
  BY <1>1, <1>2 DEF SyncShape, SyncerRests, Done
<1> QED  BY <1>1, <1>2, <1>3, SyncerQuiet DEF SyncRefuse, Types

\* The commit of a rewrite changes the hash of a book, not its place.
LEMMA SyncCommitKeeps ==
    ASSUME Inv, SyncCommit
    PROVE  Inv'
<1> DEFINE w == syncer.w
<1>1. Types /\ Shapes /\ w \in Work /\ syncer.path \in Path /\ syncer.new \in File
      /\ art[w].path = syncer.path /\ writing = None
  BY DEF Inv, SyncCommit, Shapes, SyncShape, Done
<1>2. mover' \in [Mover -> MoverState] /\ MoversStay
  BY <1>1, MoversAge DEF SyncCommit
<1>3. syncer' \in SyncState /\ SyncerLeaves /\ edit' \in [Work -> {"NONE", "CURRENT", "STALE"}]
  BY <1>1, SyncEndsLeaves DEF SyncCommit
<1>4. art' \in [Work -> ArtRow] /\ \A v \in Work : art'[v].path = art[v].path
  <2> DEFINE a == [art[w] EXCEPT !.sha = syncer.new]
  <2>1. art[w] \in [path : Path, sha : File]
    BY <1>1, Values DEF Types, ArtRow, NoArt
  <2>2. a \in ArtRow /\ a.path = art[w].path /\ art' = [art EXCEPT ![w] = a]
    BY <1>1, <2>1 DEF ArtRow, SyncCommit
  <2> HIDE DEF a
  <2> QED  BY <1>1, <2>2 DEF Types
<1>5. job' \in [Work -> JobRow] /\ \A v \in Work : job'[v].state = job[v].state
  <2> DEFINE j == [job[w] EXCEPT !.bound = FALSE]
  <2>1. job[w] \in JobRow /\ job \in [Work -> JobRow]
    BY <1>1 DEF Types
  <2>2. j \in JobRow /\ j.state = job[w].state
    BY <2>1 DEF JobRow
  <2>3. job' = [job EXCEPT ![w] = j]
    BY DEF SyncCommit
  <2> HIDE DEF j
  <2> QED  BY <1>1, <2>1, <2>2, <2>3
<1>6. Types'
  BY <1>1, <1>2, <1>3, <1>4, <1>5 DEF Types, SyncCommit
<1>7. ProcessesRest /\ MoverStays("worker")
  BY <1>2, <1>3 DEF ProcessesRest, MoversStay, Mover
<1> QED  BY <1>4, <1>5, <1>6, <1>7, RestKeeps DEF SyncCommit

\* The syncer reads the book that the row names; it is not one that is being published.
LEMMA SyncBeginKeeps ==
    ASSUME Inv, NEW w \in Work, SyncBegin(w)
    PROVE  Inv'
<1>1. Types /\ Shapes /\ syncer.pc = "idle"
  BY DEF Inv, SyncBegin
<1>2. \A m \in Mover : MoverStays(m) /\ MoverRests(m)
  BY DEF MoverStays, MoverRests, SyncBegin
<1>3. CASE syncer' = syncer
  <2>1. syncer' \in SyncState /\ SyncShape' /\ SyncerRests
    BY <1>1, <1>3, SyncersRest DEF Types, Shapes, SyncShape, SyncerStays
  <2>2. edit' \in [Work -> {"NONE", "CURRENT", "STALE"}]
    BY <1>1 DEF SyncBegin, Types
  <2> QED  BY <2>1, <2>2, SyncerQuiet DEF SyncBegin
<1>4. CASE /\ Syncable(w) /\ edit' = edit
           /\ syncer' = [pc |-> "read", w |-> w, path |-> art[w].path, file |-> fs[art[w].path],
                         opened |-> None, new |-> None, fresh |-> TRUE]
  <2>1. art[w].path \in Path /\ fs[art[w].path] \in File /\ Published(w) /\ job[w].state # "RUNNING"
    BY <1>1, <1>4, Values DEF Syncable, Published, Types, ArtRow, NoArt
  <2>2. syncer' \in SyncState /\ SyncShape'
    BY <1>4, <2>1 DEF SyncState, SyncPc, SyncShape, Done
  <2>3. Types'
    BY <1>1, <1>4, <2>2 DEF SyncBegin, Types
  <2>4. Shapes'
    BY <1>1, <1>2, <2>2, StaysShaped DEF Shapes
  <2>5. Journaled'
    BY <1>2, JournalRests DEF Inv, SyncBegin
  <2>6. Publishing'
    <3>1. \A v \in Work : pub'[v] # NoPub /\ art'[v].path # None => Published(v) /\ job'[v].state = job[v].state
      BY DEF SyncBegin, Published
    <3>2. MoverStays("worker")
      BY <1>2 DEF Mover
    <3> QED  BY <3>1, <3>2, PublishingRests DEF Inv, SyncBegin
  <2>7. Numbered'
    BY <1>4, <2>1 DEF Inv, Numbered, Counts, SyncBegin
  <2>8. ASSUME raced' = {} PROVE Calm'
    <3>1. Calm /\ pub[w] = NoPub
      BY <2>1, <2>8 DEF Inv, SyncBegin, Publishing
    <3>2. \A v \in Work : Undisturbed(v)
      BY SameMoves DEF SyncBegin, Undisturbed, MoveSame
    <3>3. \A v \in Work : Harmless(v)
      BY <1>4, <3>1 DEF Harmless, Done
    <3>4. \A v \in Work : CalmAt(v)'
      BY <1>1, <3>1, <3>2, <3>3, WorkStaysCalm DEF Calm
    <3>5. \A m \in Mover : CalmMover(m)'
      <4>1. \A m \in Mover : mover[m].pc \in {"prepared", "renamed"} => mover[m].w \in Work
        BY <1>1 DEF Shapes, MoverShape
      <4> QED  BY <1>1, <1>2, <3>1, <3>2, <4>1, MoverStaysCalm DEF Calm, Inv
    <3>6. CalmSyncer'
      BY <1>4 DEF CalmSyncer, Done
    <3> QED  BY <3>4, <3>5, <3>6 DEF Calm
  <2> QED  BY <2>3, <2>4, <2>5, <2>6, <2>7, <2>8 DEF Inv
<1> QED  BY <1>3, <1>4 DEF SyncBegin

\* A removal unlists the book and drops its row; files and journals stay.
LEMMA RemoveKeeps ==
    ASSUME Inv, NEW w \in Work, Remove(w)
    PROVE  Inv'
<1>1. Types /\ Shapes /\ writing = None
  BY DEF Inv, Remove
<1>2. mover' \in [Mover -> MoverState] /\ MoversStay
  BY <1>1, MoversAge DEF Remove
<1>3. edit' \in [Work -> {"NONE", "CURRENT", "STALE"}] /\ syncer' \in SyncState /\ SyncerStays
  BY <1>1, BumpStays DEF Remove
<1>4. count' \in [DOMAIN Bounds -> Nat]
  BY <1>1, CountedTyped, BoundNames DEF Remove
<1>5. art' \in [Work -> ArtRow] /\ art'[w].path = None /\ \A v \in Work \ {w} : art'[v] = art[v]
  BY <1>1 DEF Remove, Types, ArtRow, Unlisted, NoArt
<1>6. job' \in [Work -> JobRow] /\ \A v \in Work \ {w} : job'[v] = job[v]
  BY <1>1 DEF Remove, Types, JobRow, NoJob
<1>7. removal' \in [Work -> RemovalRow]
  <2> DEFINE targets == {art[w].path, pin[w]} \ {None}
  <2>1. targets \in SUBSET Path
    BY <1>1 DEF Types, ArtRow, NoArt
  <2> HIDE DEF targets
  <2>2. PICK status \in {"STOPPING", "DELETING"} :
           removal' = [removal EXCEPT ![w] = [status |-> status, targets |-> targets, todo |-> targets, failed |-> FALSE]]
    BY DEF Remove, targets
  <2> QED  BY <1>1, <2>1, <2>2 DEF Types, RemovalRow
<1>8. raced' \subseteq {"PACK", "SYNC", "UNLINK", "REMOVE"} /\ (raced' = {} => raced = {})
  BY <1>1 DEF Remove, Types
<1>9. Types'
  BY <1>1, <1>2, <1>3, <1>4, <1>5, <1>6, <1>7, <1>8 DEF Types, Remove
<1>10. ProcessesRest /\ MoverStays("worker") /\ \A m \in Mover : MoverRests(m)
  BY <1>2, <1>3 DEF ProcessesRest, MoversStay, Mover, MoverRests
<1>11. Shapes' /\ SyncerRests
  BY <1>1, <1>3, <1>10, RestingShapes, SyncersRest
<1>12. \A m \in Mover : mover[m].pc # "renamed"
  BY <1>1, NobodyRenames DEF Inv
<1>13. \A v \in Work : MoveSame(v) /\ art'[v].path \in {art[v].path, None}
  BY <1>5, SameMoves DEF Remove
<1>14. \A v \in Work : pub[v] # NoPub /\ art'[v].path # None => job'[v].state = job[v].state
  BY <1>5, <1>6
<1> QED  BY <1>8, <1>9, <1>10, <1>11, <1>12, <1>13, <1>14, QuietKeeps DEF Remove

\* A removal begins to delete when its executions have left.
LEMMA RemovalStoppedKeeps ==
    ASSUME Inv, NEW w \in Work, RemovalStopped(w)
    PROVE  Inv'
<1>1. Types /\ removal[w].status = "STOPPING"
  BY DEF Inv, RemovalStopped
<1>2. removal' \in [Work -> RemovalRow]
  <2> DEFINE r == [removal[w] EXCEPT !.status = "DELETING"]
  <2>1. r \in RemovalRow /\ removal' = [removal EXCEPT ![w] = r]
    BY <1>1 DEF Types, RemovalRow, NoRemoval, RemovalStopped
  <2> HIDE DEF r
  <2> QED  BY <1>1, <2>1 DEF Types
<1>3. Types'
  BY <1>1, <1>2 DEF Types, RemovalStopped
<1>4. ProcessesRest /\ MoverStays("worker")
  BY <1>1, UnchangedRests DEF ProcessesRest, MoversStay, Mover, RemovalStopped
<1> QED  BY <1>3, <1>4, RestKeeps DEF RemovalStopped

\* A removal ends, or begins again.
LEMMA RemovalEndKeeps ==
    ASSUME Inv, NEW w \in Work, RemovalEnd(w)
    PROVE  Inv'
<1>1. Types /\ removal[w].status = "DELETING"
  BY DEF Inv, RemovalEnd
<1>2. removal' \in [Work -> RemovalRow]
  <2> DEFINE r == [removal[w] EXCEPT !.todo = removal[w].targets, !.failed = FALSE]
  <2>1. r \in RemovalRow /\ NoRemoval \in RemovalRow
    <3>1. removal[w] \in RemovalRow /\ removal[w] # NoRemoval
      BY <1>1 DEF Types, NoRemoval
    <3> QED  BY <3>1 DEF RemovalRow
  <2>2. removal' = [removal EXCEPT ![w] = r] \/ removal' = [removal EXCEPT ![w] = NoRemoval]
    BY <1>1 DEF RemovalEnd, Types
  <2> HIDE DEF r
  <2> QED  BY <1>1, <2>1, <2>2 DEF Types
<1>3. /\ mover' \in [Mover -> MoverState] /\ MoversStay /\ pin' \in [Work -> Path \cup {None}]
      /\ edit' \in [Work -> {"NONE", "CURRENT", "STALE"}] /\ syncer' \in SyncState /\ SyncerStays
  <2>1. CASE UNCHANGED <<pin, mover, edit, syncer>>
    BY <1>1, <2>1, UnchangedRests DEF Types
  <2>2. CASE pin' = [pin EXCEPT ![w] = None] /\ mover' = Aged(mover, w, FALSE) /\ Bump(w)
    <3>1. mover' \in [Mover -> MoverState] /\ MoversStay
      BY <1>1, <2>2, MoversAge
    <3>2. edit' \in [Work -> {"NONE", "CURRENT", "STALE"}] /\ syncer' \in SyncState /\ SyncerStays
      BY <1>1, <2>2, BumpStays
    <3> QED  BY <1>1, <2>2, <3>1, <3>2 DEF Types
  <2> QED  BY <2>1, <2>2 DEF RemovalEnd
<1>4. Types'
  BY <1>1, <1>2, <1>3 DEF Types, RemovalEnd
<1>5. ProcessesRest /\ MoverStays("worker")
  BY <1>3 DEF ProcessesRest, MoversStay, Mover
<1> QED  BY <1>4, <1>5, RestKeeps DEF RemovalEnd

\* The process starts again.
LEMMA RestartKeeps ==
    ASSUME Inv, Restart
    PROVE  Inv'
<1>1. Types'
  BY DEF Inv, Types, Restart
<1>2. ProcessesRest
  BY UnchangedRests DEF ProcessesRest, MoversStay, Inv, Restart
<1>3. Shapes' /\ SyncerRests /\ \A m \in Mover : MoverRests(m)
  BY <1>2, RestingShapes, SyncersRest DEF Inv, Restart, MoverRests, MoverStays, SyncerStays
<1>4. \A v \in Work : MoveSame(v) /\ art'[v].path \in {art[v].path, None}
  BY SameMoves DEF Restart
<1>5. phase' # "UP"
  BY DEF Restart
<1>6. \A w \in Work : pub[w] # NoPub /\ art'[w].path # None => job'[w].state = job[w].state
  BY DEF Restart
<1> QED  BY <1>1, <1>3, <1>4, <1>5, <1>6, QuietKeeps DEF Restart

\* The start is over when nothing is prepared.
LEMMA StartedKeeps ==
    ASSUME Inv, Started
    PROVE  Inv'
<1>1. Types' /\ \A w \in Work : pub[w] = NoPub
  BY DEF Inv, Types, Started
<1>2. ProcessesRest
  BY UnchangedRests DEF ProcessesRest, MoversStay, Inv, Started
<1>3. Shapes'
  BY <1>2, RestingShapes DEF Inv
<1>4. Journaled'
  BY JournalRests DEF Inv, Started, MoverStays
<1>5. Publishing'
  BY <1>1 DEF Started, Publishing
<1>6. Numbered'
  BY DEF Inv, Started, Numbered, Counts
<1>7. raced' = {} => Calm'
  BY DEF Inv, Started, Calm, CalmAt, Apart, Owning, Listed, Elsewhere, Keeps, Shows, CalmMover, CalmSyncer, Published, Unsettled, Owned
<1> QED  BY <1>1, <1>3, <1>4, <1>5, <1>6, <1>7 DEF Inv

\* What the process forgets is not in an empty row.
LEMMA NoMoveForgotten == [NoMove EXCEPT !.live = FALSE] = NoMove
<1> DEFINE g == [NoMove EXCEPT !.live = FALSE]
           R == [status: {"NONE"}, worker: BOOLEAN, live: BOOLEAN, src: {None}, dst: {None}, sha: {None}]
<1>1. NoMove \in R
  BY DEF NoMove
<1>2. g \in R
  BY <1>1
<1>3. \A z \in R : z = [status |-> z.status, worker |-> z.worker, live |-> z.live, src |-> z.src, dst |-> z.dst, sha |-> z.sha]
  OBVIOUS
<1>4. g.status = "NONE" /\ g.worker = FALSE /\ g.live = FALSE /\ g.src = None /\ g.dst = None /\ g.sha = None
  BY DEF NoMove
<1> HIDE DEF g, R
<1>5. g = NoMove
  BY <1>2, <1>3, <1>4 DEF NoMove
<1> QED  BY <1>5 DEF g

\* Nor does a removal that is not there begin again.
LEMMA NoRemovalRestarted == [NoRemoval EXCEPT !.todo = NoRemoval.targets, !.failed = FALSE] = NoRemoval
<1> DEFINE g == [NoRemoval EXCEPT !.todo = NoRemoval.targets, !.failed = FALSE]
           R == [status: {"NONE"}, targets: {{}}, todo: {{}}, failed: BOOLEAN]
<1>1. NoRemoval \in R
  BY DEF NoRemoval
<1>2. g \in R
  BY <1>1
<1>3. \A z \in R : z = [status |-> z.status, targets |-> z.targets, todo |-> z.todo, failed |-> z.failed]
  OBVIOUS
<1>4. g.status = "NONE" /\ g.targets = {} /\ g.todo = {} /\ g.failed = FALSE
  BY DEF NoRemoval
<1> HIDE DEF g, R
<1>5. g = NoRemoval
  BY <1>2, <1>3, <1>4 DEF NoRemoval
<1> QED  BY <1>5 DEF g

\* The process is lost: nobody holds anything any more.
LEMMA LostEnds ==
    ASSUME Inv, Lost, fs' \in [Path -> File \cup {None}]
    PROVE  /\ Types' /\ Shapes' /\ Journaled' /\ Publishing'
           /\ (\A m \in Mover : MoverRests(m)) /\ SyncerRests /\ \A w \in Work : MoveSame(w)
<1>1. Types
  BY DEF Inv
<1>2. mover' \in [Mover -> MoverState] /\ \A m \in Mover : MoverLeaves(m)
  BY DEF Lost, Idle, MoverState, MoverPc, MoverLeaves
<1>3. syncer' \in SyncState /\ SyncerLeaves
  BY DEF Lost, SyncIdle, SyncState, SyncPc, SyncerLeaves
<1>4. move' \in [Work -> MoveRow] /\ \A w \in Work : MoveSame(w)
  <2>1. \A w \in Work : [move[w] EXCEPT !.live = FALSE] \in MoveRow
    <3> SUFFICES ASSUME NEW w \in Work PROVE [move[w] EXCEPT !.live = FALSE] \in MoveRow
      OBVIOUS
    <3>1. move[w] \in MoveRow
      BY <1>1 DEF Types
    <3>2. CASE move[w] = NoMove
      BY <3>2, NoMoveForgotten DEF MoveRow
    <3>3. CASE move[w] # NoMove
      BY <3>1, <3>3 DEF MoveRow
    <3> QED  BY <3>2, <3>3
  <2>2. move' = [w \in Work |-> [move[w] EXCEPT !.live = FALSE]]
    BY DEF Lost
  <2>3. \A w \in Work : move[w] \in MoveRow
    BY <1>1 DEF Types
  <2>4. \A w \in Work : MoveSame(w)
    <3> SUFFICES ASSUME NEW w \in Work PROVE MoveSame(w)
      OBVIOUS
    <3>1. move'[w] = [move[w] EXCEPT !.live = FALSE] /\ move[w] \in MoveRow
      BY <2>2, <2>3
    <3> QED  BY <3>1 DEF MoveSame, Unsettled, MoveRow, NoMove
  <2> QED  BY <2>1, <2>2, <2>4
<1>5. removal' \in [Work -> RemovalRow]
  <2>1. \A w \in Work : [removal[w] EXCEPT !.todo = removal[w].targets, !.failed = FALSE] \in RemovalRow
    <3> SUFFICES ASSUME NEW w \in Work
                 PROVE  [removal[w] EXCEPT !.todo = removal[w].targets, !.failed = FALSE] \in RemovalRow
      OBVIOUS
    <3>1. removal[w] \in RemovalRow
      BY <1>1 DEF Types
    <3>2. CASE removal[w] = NoRemoval
      BY <3>2, NoRemovalRestarted DEF RemovalRow
    <3>3. CASE removal[w] # NoRemoval
      BY <3>1, <3>3 DEF RemovalRow
    <3> QED  BY <3>2, <3>3
  <2> QED  BY <2>1 DEF Lost
<1>6. count' \in [DOMAIN Bounds -> Nat]
  BY <1>1, CountedTyped, BoundNames DEF Lost
<1>7. Types'
  BY <1>1, <1>2, <1>3, <1>4, <1>5, <1>6 DEF Types, Lost
<1>8. Shapes' /\ SyncerRests
  BY <1>2, <1>3, SyncersRest, RestingShapes DEF ProcessesRest, Inv
<1>9. \A m \in Mover : MoverRests(m)
  BY <1>2 DEF MoverRests, MoverLeaves, Moving
<1>10. Journaled'
  BY <1>2 DEF Journaled, MoverLeaves
<1>11. Publishing'
  BY DEF Inv, Publishing, Lost, Published
<1> QED  BY <1>4, <1>7, <1>8, <1>9, <1>10, <1>11

\* The loss of the process at any step.
LEMMA CrashKeeps ==
    ASSUME Inv, Crash
    PROVE  Inv'
<1>1. Lost /\ fs' = fs /\ fs' \in [Path -> File \cup {None}]
  BY DEF Crash, Inv, Types
<1>2. /\ Types' /\ Shapes' /\ (\A m \in Mover : MoverRests(m)) /\ SyncerRests /\ \A w \in Work : MoveSame(w)
  BY <1>1, LostEnds
<1>3. \A m \in Mover : ~MoverStays(m) \/ mover[m].pc = "idle"
  BY <1>1 DEF Lost, Idle, MoverStays
<1>4. phase' # "UP"
  BY <1>1 DEF Lost
<1>5. \A w \in Work : art'[w].path \in {art[w].path, None} /\ job'[w] = job[w]
  BY <1>1 DEF Lost
<1> QED  BY <1>1, <1>2, <1>3, <1>4, <1>5, QuietKeeps DEF Lost

-----------------------------------------------------------------------------
(* Steps that move, replace or delete the file of one work.                *)

\* A step is about one work: it is calm after it, and the others are undisturbed.
LEMMA CalmButOne ==
    ASSUME Types, Shapes, Journaled, Calm, NEW w \in Work,
           \A v \in Work \ {w} : Undisturbed(v) /\ Harmless(v),
           CalmAt(w)', CalmSyncer',
           \A m \in Mover : \/ CalmMover(m)'
                            \/ MoverRests(m) /\ (mover[m].pc \in {"prepared", "renamed"} => mover[m].w # w)
    PROVE  Calm'
<1>1. \A v \in Work : CalmAt(v)'
  BY WorkStaysCalm DEF Calm
<1>2. ASSUME NEW m \in Mover PROVE CalmMover(m)'
  <2>1. CASE MoverRests(m) /\ (mover[m].pc \in {"prepared", "renamed"} => mover[m].w # w)
    <3>1. mover[m].pc \in {"prepared", "renamed"} => mover[m].w \in Work
      BY DEF Shapes, MoverShape
    <3> QED  BY <2>1, <3>1, MoverStaysCalm DEF Calm
  <2> QED  BY <2>1
<1> QED  BY <1>1, <1>2 DEF Calm

\* No other work is disturbed by a step that writes on free paths and on files of one work.
LEMMA OthersUndisturbed ==
    ASSUME Types, NEW w \in Work,
           \A p \in Path : fs'[p] = fs[p] \/ fs[p] = None \/ fs[p].work = w,
           \A v \in Work \ {w} : art'[v] = art[v] /\ pub'[v] = pub[v] /\ (move'[v] = move[v] \/ MoveSame(v))
    PROVE  \A v \in Work \ {w} : Undisturbed(v)
<1> SUFFICES ASSUME NEW v \in Work, v # w PROVE Undisturbed(v)
  OBVIOUS
<1>1. Published(v) => art[v].path \in Path
  BY DEF Types, ArtRow, NoArt, Published
<1>2. Unsettled(v) => move[v].dst \in Path
  BY DEF Types, MoveRow, NoMove, Unsettled
<1>3. \A p \in Path : Owned(fs[p], v) => fs'[p] = fs[p]
  BY DEF Owned
<1> QED  BY <1>1, <1>2, <1>3 DEF Undisturbed, Unsettled, MoveSame

\* A rewrite that goes on with what it had threatens nobody.
LEMMA SyncerRestsHarmlessToAll ==
    ASSUME Types, Calm, SyncerRests
    PROVE  (\A v \in Work : Harmless(v)) /\ CalmSyncer'
BY SyncerRestsHarmless, SyncerStaysCalm DEF Calm, CalmAt

\* The file of an unfinished move goes back to where it was.
LEMMA PutBack ==
    ASSUME Types, NEW w \in Work, Unsettled(w), CalmAt(w),
           fs[move[w].src] = None, fs[move[w].dst] = move[w].sha,
           fs' = [fs EXCEPT ![move[w].src] = move[w].sha, ![move[w].dst] = None],
           pub' = pub, art' = art
    PROVE  /\ \A p \in Path : fs'[p] = fs[p] \/ fs[p] = None \/ fs[p].work = w
           /\ Published(w) => Keeps(art[w].path, w)' /\ art[w].path # move[w].dst
<1> DEFINE r == move[w]
<1>1. r.src \in Path /\ r.dst \in Path /\ r.sha \in File /\ r.sha # None /\ r.src # r.dst /\ r.sha.work = w
  BY Values DEF Types, MoveRow, NoMove, Unsettled, CalmAt, Owning
<1>2. fs'[r.src] = r.sha /\ fs'[r.dst] = None /\ \A p \in Path \ {r.src, r.dst} : fs'[p] = fs[p]
  BY <1>1 DEF Types
<1>3. ASSUME Published(w) PROVE Keeps(art[w].path, w)' /\ art[w].path # r.dst
  <2>1. art[w].path \in Path
    BY <1>3 DEF Types, ArtRow, NoArt, Published
  <2>2. CASE art[w].path = r.src
    <3>1. pub[w] # NoPub => r.sha # pub[w].new
      BY DEF CalmAt, Apart
    <3>2. pub[w] = NoPub => pub[w].dst # art[w].path
      BY <2>1, Values DEF NoPub
    <3> QED  BY <1>1, <1>2, <2>2, <3>1, <3>2 DEF Keeps, Owned
  <2>3. CASE art[w].path # r.src
    <3>1. Keeps(art[w].path, w) /\ (art[w].path = r.dst => ~Shows(r.dst, w, r.sha))
      BY <1>3, <2>3 DEF CalmAt, Elsewhere
    <3>2. art[w].path # r.dst
      BY <3>1 DEF Shows
    <3>3. fs'[art[w].path] = fs[art[w].path]
      BY <1>2, <2>1, <2>3, <3>2
    <3> QED  BY <3>1, <3>2, <3>3 DEF Keeps
  <2> QED  BY <2>2, <2>3
<1>4. \A p \in Path : fs'[p] = fs[p] \/ fs[p] = None \/ fs[p].work = w
  BY <1>1, <1>2
<1> QED  BY <1>3, <1>4

\* A recovered move leaves its work calm: the file is where it was, or the record stays.
LEMMA RecoveredCalm ==
    ASSUME Types, Shapes, Journaled, Calm, NEW w \in Work, Unsettled(w), Recovered(w),
           art' = art, pub' = pub, SyncerRests,
           \A m \in Mover : MoverRests(m) /\ (mover[m].pc \in {"prepared", "renamed"} /\ MoverStays(m) => mover[m].w # w)
    PROVE  Calm'
<1> DEFINE r == move[w]
<1>1. r.src \in Path /\ r.dst \in Path /\ r.sha \in File /\ r.sha # None /\ r.sha.work = w /\ CalmAt(w)
  BY Values DEF Types, MoveRow, NoMove, Unsettled, CalmAt, Owning, Calm
<1>2. \A v \in Work \ {w} : move'[v] = move[v]
  BY DEF Recovered, Types
<1>3. (\A v \in Work : Harmless(v)) /\ CalmSyncer'
  BY SyncerRestsHarmlessToAll
<1>4. \A m \in Mover : \/ CalmMover(m)'
                       \/ MoverRests(m) /\ (mover[m].pc \in {"prepared", "renamed"} => mover[m].w # w)
  BY DEF MoverRests, CalmMover, Moving
<1>5. /\ \A p \in Path : fs'[p] = fs[p] \/ fs[p] = None \/ fs[p].work = w
      /\ CalmAt(w)'
  <2>1. CASE fs' = fs /\ fs[r.dst] = None /\ move' = [move EXCEPT ![w] = NoMove]
    <3>1. Published(w) => Keeps(art[w].path, w)
      BY <1>1, <2>1 DEF CalmAt, Listed, Keeps, Owned
    <3>2. move'[w] = NoMove
      BY <2>1 DEF Types
    <3>3. Listed(w)'
      BY <2>1, <3>1 DEF Listed, Keeps, Published, Owned
    <3>4. Apart(w)' /\ Owning(w)' /\ Elsewhere(w)'
      <4>1. pub[w] # NoPub => pub[w].new # None
        BY Values DEF Types, PubRow
      <4> QED  BY <1>1, <1>3, <3>2, <4>1 DEF Apart, Owning, Elsewhere, Harmless, NoMove, CalmAt, Unsettled
    <3> QED  BY <2>1, <3>3, <3>4 DEF CalmAt
  <2>2. CASE /\ fs[r.src] = None /\ fs[r.dst] = r.sha /\ move' = [move EXCEPT ![w] = NoMove]
             /\ fs' = [fs EXCEPT ![r.src] = r.sha, ![r.dst] = None]
    <3>1. /\ \A p \in Path : fs'[p] = fs[p] \/ fs[p] = None \/ fs[p].work = w
          /\ Published(w) => Keeps(art[w].path, w)'
      BY <1>1, <2>2, PutBack
    <3>2. move'[w] = NoMove
      BY <2>2 DEF Types
    <3>3. Listed(w)'
      BY <3>1 DEF Listed, Keeps, Published, Owned
    <3>4. Apart(w)' /\ Owning(w)' /\ Elsewhere(w)'
      <4>1. pub[w] # NoPub => pub[w].new # None
        BY Values DEF Types, PubRow
      <4> QED  BY <1>1, <1>3, <3>2, <4>1 DEF Apart, Owning, Elsewhere, Harmless, NoMove, CalmAt, Unsettled
    <3> QED  BY <3>1, <3>3, <3>4 DEF CalmAt
  <2>3. CASE fs' = fs /\ move' = [move EXCEPT ![w].status = "RECOVERY_REQUIRED"]
    <3>1. /\ move'[w].status = "RECOVERY_REQUIRED" /\ move'[w].src = r.src
          /\ move'[w].dst = r.dst /\ move'[w].sha = r.sha
      <4>1. r \in MoveRow /\ r # NoMove /\ move'[w] = [r EXCEPT !.status = "RECOVERY_REQUIRED"]
        BY <2>3 DEF Types, Unsettled, NoMove
      <4> QED  BY <4>1 DEF MoveRow
    <3>2. Undisturbed(w)
      BY <2>3, <3>1 DEF Undisturbed, Unsettled
    <3> QED  BY <1>1, <1>3, <2>3, <3>2, WorkStaysCalm
  <2> QED  BY <2>1, <2>2, <2>3 DEF Recovered
<1>6. \A v \in Work \ {w} : Undisturbed(v)
  BY <1>2, <1>5, OthersUndisturbed
<1> QED  BY <1>3, <1>4, <1>5, <1>6, CalmButOne

\* The versions of a recovered file are counted.
LEMMA RecoveredNumbered ==
    ASSUME Types, Numbered, NEW w \in Work, Unsettled(w), Recovered(w), made' = made, pub' = pub,
           SyncerRests, \A m \in Mover : MoverRests(m)
    PROVE  Numbered'
<1>1. move[w].src \in Path /\ move[w].dst \in Path /\ move[w] \in MoveRow /\ move[w] # NoMove
  BY DEF Types, MoveRow, NoMove, Unsettled
<1>2. \A p \in Path : fs'[p] \in {fs[p], None, move[w].sha}
  BY <1>1 DEF Recovered, Types
<1>3. \A v \in Work : move'[v].sha \in {move[v].sha, None}
  <2>1. move' = [move EXCEPT ![w] = NoMove] \/ move' = [move EXCEPT ![w] = [move[w] EXCEPT !.status = "RECOVERY_REQUIRED"]]
    BY DEF Recovered, Types
  <2> DEFINE r == [move[w] EXCEPT !.status = "RECOVERY_REQUIRED"]
  <2>2. r.sha = move[w].sha /\ NoMove.sha = None
    BY <1>1 DEF MoveRow, NoMove
  <2>3. \A v \in Work : move'[v] \in {move[v], NoMove} \/ (v = w /\ move'[v] = r)
    BY <2>1 DEF Types
  <2> HIDE DEF r
  <2> QED  BY <2>2, <2>3
<1>4. \A p \in Path : fs'[p] \in {fs[p], None} \/ Counts(fs'[p])
  BY <1>2 DEF Numbered
<1>5. \A v \in Work : move'[v].sha \in {move[v].sha, None} /\ pub'[v] \in {pub[v], NoPub}
  BY <1>3
<1> QED  BY <1>4, <1>5, NumberedRests

\* The recovery of a record by a start, a worker or a command.
LEMMA RecoverMoveKeeps ==
    ASSUME Inv, NEW w \in Work, RecoverMove(w)
    PROVE  Inv'
<1>1. Types /\ Shapes /\ Journaled /\ writing = None /\ Unsettled(w) /\ Recovered(w)
  BY DEF Inv, RecoverMove, Recoverable, Unsettled
<1>2. Types' /\ Shapes'
  BY <1>1, RecoverMoveTyped
<1>3. \A m \in Mover : MoverStays(m) /\ MoverRests(m)
  BY DEF MoverStays, MoverRests, RecoverMove
<1>4. SyncerRests
  BY SyncersRest DEF SyncerStays, RecoverMove
<1>5. \A m \in Mover : mover[m].pc \in {"prepared", "renamed"} => mover[m].w # w
  BY <1>1 DEF Journaled, Recorded, RecoverMove, Recoverable, Left
<1>6. \A v \in Work \ {w} : move'[v] = move[v]
  BY <1>1 DEF Recovered, Types
<1>7. Journaled'
  <2>1. \A m \in Mover : mover[m].pc \in {"prepared", "renamed"} => move'[mover[m].w] = move[mover[m].w]
    BY <1>1, <1>5, <1>6 DEF Shapes, MoverShape
  <2> QED  BY <1>1, <1>3, <2>1, JournalRests DEF RecoverMove
<1>8. Publishing'
  <2>1. MoverStays("worker") /\ \A v \in Work : art'[v].path # None => Published(v)
    BY <1>3 DEF Mover, RecoverMove, Published
  <2> QED  BY <2>1, PublishingRests DEF RecoverMove, Inv
<1>9. Numbered'
  BY <1>1, <1>3, <1>4, RecoveredNumbered DEF Inv, RecoverMove
<1>10. raced' = {} => Calm'
  BY <1>1, <1>3, <1>4, <1>5, RecoveredCalm DEF Inv, RecoverMove
<1> QED  BY <1>2, <1>7, <1>8, <1>9, <1>10 DEF Inv

\* The mover m ends, and with it what its work had in the journal.
LEMMA EndsJournaled ==
    ASSUME Inv, NEW m \in Mover, mover[m].w \in Work, MoverEnds(m),
           mover[m].pc \in Moving, phase = "UP",
           art' = art, pub' = pub, phase' = phase,
           mover[m].pc \in {"prepared", "renamed"} \/ move' = move,
           \A v \in Work \ {mover[m].w} : move'[v] = move[v],
           writing' = writing \/ \A i \in Mover \ {m} : mover[i].pc # "renamed"
    PROVE  Journaled' /\ Publishing'
<1>1. Types /\ Shapes /\ MoverLeaves(m) /\ \A i \in Mover \ {m} : MoverStays(i)
  BY MoverEndsLeaves DEF Inv
<1>2. Journaled'
  <2>1. \A i \in Mover : MoverStays(i) \/ mover'[i].pc \notin {"prepared", "renamed"}
    BY <1>1 DEF MoverLeaves
  <2>2. \A i \in Mover : mover[i].pc \in {"prepared", "renamed"} /\ MoverStays(i) => i # m
    BY <1>1 DEF MoverLeaves, MoverStays
  <2>3. \A i \in Mover : mover[i].pc \in {"prepared", "renamed"} /\ i # m /\ mover[m].pc \in {"prepared", "renamed"}
           => mover[i].w # mover[m].w
    BY DEF Inv, Journaled, Recorded, Mover
  <2>4. \A i \in Mover : mover[i].pc \in {"prepared", "renamed"} /\ MoverStays(i) => move'[mover[i].w] = move[mover[i].w]
    BY <1>1, <2>2, <2>3 DEF Shapes, MoverShape
  <2> QED  BY <2>1, <2>2, <2>4, JournalRests DEF Inv
<1>3. Publishing'
  <2>1. m = "worker" => \A v \in Work : pub[v] = NoPub
    BY DEF Inv, Publishing, Moving
  <2>2. m # "worker" => MoverStays("worker") /\ job' = job
    BY <1>1 DEF Mover, MoverEnds
  <2>3. \A v \in Work : pub'[v] \in {pub[v], NoPub} /\ (art'[v].path # None => Published(v))
    BY DEF Published
  <2> QED  BY <2>1, <2>2, <2>3, PublishingRests DEF Inv
<1> QED  BY <1>2, <1>3

\* The file goes back when the database refuses the move.
LEMMA MoveUndoKeeps ==
    ASSUME Inv, NEW m \in Mover, MoveUndo(m)
    PROVE  Inv'
<1> DEFINE w == mover[m].w
<1>1. Types /\ Shapes /\ Journaled /\ w \in Work /\ MoverEnds(m) /\ mover[m].pc = "renamed" /\ phase = "UP"
  BY DEF Inv, MoveUndo, Shapes, MoverShape, Up
<1>2. Recorded(m) /\ Unsettled(w)
  BY <1>1 DEF Journaled, Recorded, Unsettled
<1>3. Recovered(w)
  <2>1. mover[m].file \in File /\ mover[m].file # None
    BY <1>1, Values DEF Shapes, MoverShape, Moving
  <2> QED  BY <1>2, <2>1 DEF MoveUndo, Recovered, Recorded
<1>4. MoverLeaves(m) /\ (\A i \in Mover : MoverRests(i)) /\ SyncerRests
  BY <1>1, MoverEndsLeaves, EndsRest, SyncersRest
<1>5. Types' /\ Shapes'
  BY <1>1, <1>2, <1>3, RecoveredTyped, EndsTyped DEF MoveUndo
<1>6. \A v \in Work \ {w} : move'[v] = move[v]
  BY <1>1, <1>3 DEF Recovered, Types
<1>7. Journaled' /\ Publishing'
  <2>1. \A i \in Mover \ {m} : mover[i].pc # "renamed"
    BY <1>1 DEF Journaled
  <2> QED  BY <1>1, <1>6, <2>1, EndsJournaled DEF MoveUndo, Moving
<1>8. Numbered'
  BY <1>1, <1>2, <1>3, <1>4, RecoveredNumbered DEF Inv, MoveUndo
<1>9. ASSUME raced' = {} PROVE Calm'
  <2>1. \A i \in Mover : mover[i].pc \in {"prepared", "renamed"} /\ MoverStays(i) => mover[i].w # w
    BY <1>1, <1>4 DEF Journaled, Recorded, Mover, MoverStays, MoverLeaves
  <2> QED  BY <1>1, <1>2, <1>3, <1>4, <1>9, <2>1, RecoveredCalm DEF Inv, MoveUndo
<1> QED  BY <1>5, <1>7, <1>8, <1>9 DEF Inv

\* A move that is refused before its rename drops its record.
LEMMA MoveRefusedKeeps ==
    ASSUME Inv, NEW m \in Mover, MoveRefused(m)
    PROVE  Inv'
<1>0. PICK w \in Work : w = mover[m].w
  BY DEF Inv, MoveRefused, Shapes, MoverShape
<1>1. /\ Types /\ Shapes /\ Journaled /\ mover[m].w = w /\ MoverEnds(m) /\ mover[m].pc \in Moving
      /\ phase = "UP" /\ writing = None
  BY <1>0 DEF Inv, MoveRefused, Up, Moving
<1>2. MoverLeaves(m) /\ (\A i \in Mover : MoverRests(i)) /\ SyncerRests
  BY <1>1, MoverEndsLeaves, EndsRest, SyncersRest
<1>3. (mover[m].pc = "prepared" /\ move' = [move EXCEPT ![w] = NoMove]) \/ move' = move
  BY <1>1 DEF MoveRefused
<1>4. move' \in [Work -> MoveRow] /\ \A v \in Work \ {w} : move'[v] = move[v]
  BY <1>1, <1>3 DEF Types, MoveRow
<1>5. Types' /\ Shapes'
  BY <1>1, <1>4, EndsTyped DEF MoveRefused, Types
<1>6. Journaled' /\ Publishing'
  <2>1. mover[m].pc \in {"prepared", "renamed"} \/ move' = move
    BY <1>3
  <2> QED  BY <1>1, <1>4, <2>1, EndsJournaled DEF MoveRefused
<1>7. Numbered'
  <2>1. \A v \in Work : move'[v].sha \in {move[v].sha, None} /\ pub'[v] \in {pub[v], NoPub}
    BY <1>1, <1>3 DEF Types, NoMove, MoveRefused
  <2> QED  BY <1>2, <2>1, NumberedRests DEF Inv, MoveRefused
<1>8. ASSUME raced' = {} PROVE Calm'
  <2>1. Calm /\ (\A v \in Work : Harmless(v)) /\ CalmSyncer' /\ CalmAt(w)
    BY <1>1, <1>2, <1>8, SyncerRestsHarmlessToAll DEF Inv, MoveRefused, Calm
  <2>2. CASE move' = move
    <3>1. \A v \in Work : Undisturbed(v)
      BY <2>2, SameMoves DEF MoveRefused, Undisturbed, MoveSame
    <3>2. \A v \in Work : CalmAt(v)'
      BY <1>1, <2>1, <3>1, WorkStaysCalm DEF Calm
    <3>3. \A i \in Mover : CalmMover(i)'
      <4>1. \A i \in Mover : mover[i].pc \in {"prepared", "renamed"} => mover[i].w \in Work
        BY <1>1 DEF Shapes, MoverShape
      <4> QED  BY <1>1, <1>2, <2>1, <3>1, <4>1, MoverStaysCalm DEF Calm
    <3> QED  BY <2>1, <3>2, <3>3 DEF Calm
  <2>3. CASE mover[m].pc = "prepared" /\ move' = [move EXCEPT ![w] = NoMove]
    <3>1. move'[w] = NoMove /\ pub' = pub /\ art' = art /\ fs' = fs
      BY <1>1, <2>3 DEF Types, MoveRefused
    <3>2. Listed(w)'
      BY <1>1, <2>1, <2>3, <3>1 DEF Calm, CalmMover, Listed, Keeps, Published
    <3>3. Apart(w)' /\ Owning(w)' /\ Elsewhere(w)'
      <4>1. pub[w] # NoPub => pub[w].new # None
        BY <1>1, Values DEF Types, PubRow
      <4> QED  BY <1>1, <2>1, <3>1, <4>1 DEF Apart, Owning, Elsewhere, Harmless, NoMove, CalmAt, Unsettled
    <3>4. \A v \in Work \ {w} : Undisturbed(v)
      BY <1>1, <1>4, <3>1, OthersUndisturbed
    <3>5. \A i \in Mover : \/ CalmMover(i)'
                           \/ MoverRests(i) /\ (mover[i].pc \in {"prepared", "renamed"} => mover[i].w # w)
      <4>1. CalmMover(m)'
        BY <1>2 DEF CalmMover, MoverLeaves, Moving
      <4>2. \A i \in Mover \ {m} : mover[i].pc \in {"prepared", "renamed"} => mover[i].w # w
        BY <1>1, <2>3 DEF Journaled, Recorded, Mover
      <4> QED  BY <1>2, <4>1, <4>2
    <3>6. CalmAt(w)'
      BY <2>1, <3>2, <3>3 DEF CalmAt
    <3> QED  BY <1>1, <2>1, <3>4, <3>5, <3>6, CalmButOne
  <2> QED  BY <1>3, <2>2, <2>3
<1> QED  BY <1>5, <1>6, <1>7, <1>8 DEF Inv

\* A move begins with the book that the library lists.
LEMMA BeginKeeps ==
    ASSUME Inv, Types', Shapes', NEW m \in Mover, NEW w \in Work, phase = "UP",
           mover[m].pc \in {"idle", "REFILE"}, mover'[m].pc = "inspected", mover'[m].w = w,
           mover'[m].file = fs[art[w].path], \A i \in Mover \ {m} : MoverStays(i),
           Published(w), ~Unsettled(w), fs[art[w].path] # None,
           UNCHANGED <<fs, made, art, job, move, pub, syncer, writing, phase, raced>>
    PROVE  Inv'
<1>1. Types /\ art[w].path \in Path
  BY DEF Inv, Types, ArtRow, NoArt, Published
<1>2. Journaled'
  <2>1. \A i \in Mover : MoverStays(i) \/ mover'[i].pc \notin {"prepared", "renamed"}
    OBVIOUS
  <2> QED  BY <2>1, JournalRests DEF Inv
<1>3. Publishing'
  <2>1. MoverStays("worker") \/ \A v \in Work : pub'[v] = NoPub
    BY DEF Inv, Publishing, Mover
  <2>2. \A v \in Work : pub'[v] \in {pub[v], NoPub} /\ (art'[v].path # None => Published(v))
    BY DEF Published
  <2> QED  BY <2>1, <2>2, PublishingRests DEF Inv
<1>4. Numbered'
  BY <1>1 DEF Inv, Numbered, Counts, MoverStays
<1>5. ASSUME raced' = {} PROVE Calm'
  <2>1. Calm
    BY <1>5 DEF Inv
  <2>2. \A v \in Work : Undisturbed(v)
    BY SameMoves DEF Undisturbed, MoveSame
  <2>3. SyncerRests
    BY SyncersRest DEF SyncerStays
  <2>4. (\A v \in Work : Harmless(v)) /\ CalmSyncer'
    BY <1>1, <2>1, <2>3, SyncerRestsHarmlessToAll
  <2>5. \A v \in Work : CalmAt(v)'
    BY <1>1, <2>1, <2>2, <2>4, WorkStaysCalm DEF Calm
  <2>6. \A i \in Mover \ {m} : CalmMover(i)'
    <3>1. \A i \in Mover : mover[i].pc \in {"prepared", "renamed"} => mover[i].w \in Work
      BY DEF Inv, Shapes, MoverShape
    <3>2. \A i \in Mover \ {m} : MoverRests(i)
      BY DEF MoverRests
    <3> QED  BY <1>1, <2>1, <2>2, <3>1, <3>2, MoverStaysCalm DEF Calm, Inv
  <2>7. CalmMover(m)'
    <3>1. fs[art[w].path].work = w
      BY <2>1 DEF Calm, CalmAt, Listed, Keeps, Owned
    <3> QED  BY <3>1 DEF CalmMover
  <2> QED  BY <2>4, <2>5, <2>6, <2>7 DEF Calm
<1> QED  BY <1>2, <1>3, <1>4, <1>5 DEF Inv

\* A rename of the operator begins ...
LEMMA RenameBeginKeeps ==
    ASSUME Inv, NEW w \in Work, NEW p \in Path, RenameBegin(w, p)
    PROVE  Inv'
<1>1. Types' /\ Shapes'
  BY RenameBeginTyped DEF Inv
<1>2. "request" \in Mover /\ mover[ "request"].pc = "idle" /\ phase = "UP"
  BY DEF Mover, RenameBegin, Up
<1>3. /\ mover'["request"].pc = "inspected" /\ mover'["request"].w = w /\ mover'["request"].file = fs[art[w].path]
      /\ \A i \in Mover \ {"request"} : MoverStays(i)
  BY DEF Inv, Types, RenameBegin, Mover, MoverStays
<1> QED  BY <1>1, <1>2, <1>3, BeginKeeps DEF RenameBegin

\* ... and a refile of the worker, with the file they found.
LEMMA RefileBeginKeeps ==
    ASSUME Inv, NEW p \in Path, RefileBegin(p)
    PROVE  Inv'
<1>0. PICK w \in Work : w = mover["worker"].w
  BY DEF Inv, Shapes, MoverShape, RefileBegin, Mover
<1>1. Types' /\ Shapes'
  BY RefileBeginTyped DEF Inv
<1>2. "worker" \in Mover /\ mover["worker"].pc = "REFILE" /\ phase = "UP" /\ mover["worker"] \in MoverState
  BY DEF Mover, RefileBegin, Up, Inv, Types
<1>3. /\ mover'["worker"].pc = "inspected" /\ mover'["worker"].w = w /\ mover'["worker"].file = fs[art[w].path]
      /\ \A i \in Mover \ {"worker"} : MoverStays(i)
  BY <1>0, <1>2 DEF Inv, Types, RefileBegin, Mover, MoverStays, MoverState
<1> QED  BY <1>0, <1>1, <1>2, <1>3, BeginKeeps DEF RefileBegin

\* The checks of both transactions exclude a publication of the same work.
LEMMA ValidUnpublished ==
    ASSUME Inv, NEW m \in Mover, mover[m].pc \in {"inspected", "prepared"}, MoveValid(m), phase = "UP"
    PROVE  /\ mover[m].w \in Work /\ mover[m].src \in Path /\ mover[m].dst \in Path /\ mover[m].file \in File
           /\ pub[mover[m].w] = NoPub /\ Published(mover[m].w)
<1>1. mover[m].w \in Work /\ mover[m].src \in Path /\ mover[m].dst \in Path /\ mover[m].file \in File
  BY DEF Inv, Shapes, MoverShape, Moving
<1>2. Published(mover[m].w)
  BY <1>1, Values DEF MoveValid, Published
<1>3. pub[mover[m].w] = NoPub
  BY <1>1, <1>2 DEF Inv, Publishing, MoveValid, Mover
<1> QED  BY <1>1, <1>2, <1>3

\* The record is written before the file is renamed.
LEMMA MovePrepareKeeps ==
    ASSUME Inv, NEW m \in Mover, MovePrepare(m)
    PROVE  Inv'
<1>0. PICK w \in Work : w = mover[m].w
  BY DEF Inv, Shapes, MoverShape, MovePrepare
<1> DEFINE x == mover[m]
           r == [status |-> "PREPARED", worker |-> m = "worker", live |-> TRUE, src |-> x.src, dst |-> x.dst, sha |-> x.file]
<1>1. /\ Types /\ Shapes /\ Journaled /\ Types' /\ Shapes' /\ x.pc = "inspected" /\ phase = "UP" /\ writing = None
      /\ MoveValid(m) /\ ~Unsettled(w) /\ fs[x.dst] = None
  BY <1>0, MovePrepareTyped DEF Inv, MovePrepare, Up, Free
<1>2. x.src \in Path /\ x.dst \in Path /\ x.file \in File /\ pub[w] = NoPub /\ Published(w)
  BY <1>0, <1>1, ValidUnpublished
<1>3. /\ mover'[m].pc = "prepared" /\ mover'[m].w = w /\ mover'[m].src = x.src /\ mover'[m].dst = x.dst
      /\ mover'[m].file = x.file /\ \A i \in Mover \ {m} : MoverStays(i)
  BY <1>0, <1>1, MoverGoesOn DEF MovePrepare, MoverPc
<1>4. /\ move'[w].status = "PREPARED" /\ move'[w].worker = (m = "worker") /\ move'[w].live
      /\ move'[w].src = x.src /\ move'[w].dst = x.dst /\ move'[w].sha = x.file
      /\ \A v \in Work \ {w} : move'[v] = move[v]
  BY <1>0, <1>1 DEF MovePrepare, Types
<1>5. \A i \in Mover : mover[i].pc # "renamed" /\ (mover[i].pc = "prepared" => i # m /\ mover[i].w # w)
  BY <1>1, NobodyRenames DEF Journaled, Recorded, Unsettled
<1>6. Journaled'
  <2>1. ASSUME NEW i \in Mover, i # m, mover'[i].pc \in {"prepared", "renamed"}
        PROVE  mover'[i].pc = "prepared" /\ Recorded(i)'
    <3>1. mover[i].pc = "prepared" /\ mover'[i].w = mover[i].w /\ mover[i].w # w /\ mover[i].w \in Work
      BY <1>1, <1>3, <1>5, <2>1 DEF MoverStays, Shapes, MoverShape
    <3> QED  BY <1>1, <1>3, <1>4, <2>1, <3>1 DEF Journaled, Recorded, MoverStays
  <2>2. Recorded(m)'
    BY <1>3, <1>4 DEF Recorded
  <2> QED  BY <1>3, <2>1, <2>2 DEF Journaled
<1>7. Publishing'
  <2>1. MoverStays("worker") \/ \A v \in Work : pub'[v] = NoPub
    BY <1>1, <1>3 DEF Inv, Publishing, Mover, MovePrepare
  <2>2. \A v \in Work : pub'[v] \in {pub[v], NoPub} /\ (art'[v].path # None => Published(v))
    BY DEF Published, MovePrepare
  <2> QED  BY <2>1, <2>2, PublishingRests DEF Inv, MovePrepare
<1>8. Numbered'
  <2>1. \A i \in Mover : mover'[i].file = mover[i].file
    BY <1>3 DEF MoverStays
  <2>2. \A v \in Work : move'[v].sha \in {move[v].sha, mover[m].file}
    BY <1>4
  <2> QED  BY <2>1, <2>2 DEF Inv, Numbered, Counts, MovePrepare
<1>9. ASSUME raced' = {} PROVE Calm'
  <2>1. Calm /\ CalmAt(w) /\ fs' = fs /\ art' = art /\ pub' = pub /\ syncer' = syncer /\ CalmMover(m)
    BY <1>9 DEF Inv, MovePrepare, Calm
  <2>2. (\A v \in Work : Harmless(v)) /\ CalmSyncer'
    BY <1>1, <2>1, SyncersRest, SyncerRestsHarmlessToAll DEF SyncerStays
  <2>3. \A v \in Work \ {w} : Undisturbed(v)
    BY <1>1, <1>4, <2>1, OthersUndisturbed
  <2>4. Keeps(art[w].path, w)
    BY <1>1, <1>2, <2>1 DEF CalmAt, Listed
  <2>5. CalmAt(w)'
    <3>1. Apart(w)' /\ Listed(w)'
      BY <1>2, <2>1, <2>4 DEF Apart, Listed, Keeps
    <3>2. Owning(w)'
      BY <1>0, <1>1, <1>2, <1>4, <2>1 DEF Owning, CalmMover, Moving
    <3>3. Elsewhere(w)'
      BY <1>0, <1>1, <1>4, <2>1 DEF Elsewhere, MoveValid
    <3> QED  BY <3>1, <3>2, <3>3 DEF CalmAt
  <2>6. CalmMover(m)'
    <3>1. x.file.work = w
      BY <1>0, <1>1, <2>1 DEF CalmMover, Moving
    <3>2. Keeps(art[w].path, w)'
      BY <2>1, <2>4 DEF Keeps
    <3> QED  BY <1>3, <2>1, <3>1, <3>2 DEF CalmMover, Keeps
  <2>7. \A i \in Mover : \/ CalmMover(i)'
                         \/ MoverRests(i) /\ (mover[i].pc \in {"prepared", "renamed"} => mover[i].w # w)
    BY <1>3, <1>5, <2>6 DEF MoverRests
  <2> QED  BY <1>1, <2>1, <2>2, <2>3, <2>5, <2>7, CalmButOne
<1> QED  BY <1>1, <1>6, <1>7, <1>8, <1>9 DEF Inv

\* The rename, under the write lock: the book is at the destination of its record.
LEMMA MoveRenameKeeps ==
    ASSUME Inv, NEW m \in Mover, MoveRename(m)
    PROVE  Inv'
<1>0. PICK w \in Work : w = mover[m].w
  BY DEF Inv, Shapes, MoverShape, MoveRename
<1> DEFINE x == mover[m]
<1>1. /\ Types /\ Shapes /\ Journaled /\ Types' /\ Shapes' /\ x.pc = "prepared" /\ phase = "UP" /\ writing = None
      /\ MoveValid(m) /\ fs[x.dst] = None
  BY MoveRenameTyped DEF Inv, MoveRename, Up
<1>2. x.src \in Path /\ x.dst \in Path /\ x.file \in File /\ pub[w] = NoPub /\ Published(w)
  BY <1>0, <1>1, ValidUnpublished
<1>3. /\ mover'[m].pc = "renamed" /\ mover'[m].w = w /\ mover'[m].src = x.src /\ mover'[m].dst = x.dst
      /\ mover'[m].file = x.file /\ \A i \in Mover \ {m} : MoverStays(i)
  BY <1>0, <1>1, MoverGoesOn DEF MoveRename, MoverPc
<1>4. Recorded(m) /\ Unsettled(w) /\ art[w].path = x.src /\ fs[x.src] = x.file /\ x.src # x.dst
  BY <1>0, <1>1, <1>2, Values DEF Journaled, Recorded, MoveValid, Unsettled
<1>5. fs'[x.src] = None /\ fs'[x.dst] = x.file /\ \A p \in Path \ {x.src, x.dst} : fs'[p] = fs[p]
  BY <1>1, <1>2, <1>4 DEF MoveRename, Types
<1>6. \A i \in Mover : mover[i].pc # "renamed" /\ (mover[i].pc = "prepared" /\ i # m => mover[i].w # w)
  BY <1>0, <1>1, NobodyRenames DEF Journaled, Recorded, Mover
<1>7. Journaled'
  <2>1. ASSUME NEW i \in Mover, i # m, mover'[i].pc \in {"prepared", "renamed"}
        PROVE  mover'[i].pc = "prepared" /\ Recorded(i)'
    BY <1>1, <1>3, <1>6, <2>1 DEF Journaled, Recorded, MoverStays, MoveRename
  <2>2. Recorded(m)'
    BY <1>0, <1>3, <1>4 DEF Recorded, MoveRename
  <2>3. writing' = m /\ art'[w].path = x.src /\ pub'[w] = NoPub
    BY <1>2, <1>4 DEF MoveRename
  <2> QED  BY <1>3, <2>1, <2>2, <2>3 DEF Journaled
<1>8. Publishing'
  <2>1. MoverStays("worker") \/ \A v \in Work : pub'[v] = NoPub
    BY <1>1, <1>3 DEF Inv, Publishing, Mover, MoveRename
  <2>2. \A v \in Work : pub'[v] \in {pub[v], NoPub} /\ (art'[v].path # None => Published(v))
    BY DEF Published, MoveRename
  <2> QED  BY <2>1, <2>2, PublishingRests DEF Inv, MoveRename
<1>9. Numbered'
  <2>1. \A i \in Mover : mover'[i].file = mover[i].file
    BY <1>3 DEF MoverStays
  <2>2. \A p \in Path : fs'[p] \in {fs[p], None, mover[m].file}
    BY <1>5
  <2> QED  BY <2>1, <2>2 DEF Inv, Numbered, Counts, MoveRename
<1>10. ASSUME raced' = {} PROVE Calm'
  <2>1. Calm /\ CalmAt(w) /\ move' = move /\ art' = art /\ pub' = pub /\ syncer' = syncer /\ CalmMover(m)
    BY <1>10 DEF Inv, MoveRename, Calm
  <2>2. (\A v \in Work : Harmless(v)) /\ CalmSyncer'
    BY <1>1, <2>1, SyncersRest, SyncerRestsHarmlessToAll DEF SyncerStays
  <2>3. x.file.work = w /\ x.file # None
    BY <1>0, <1>1, <1>2, <2>1, Values DEF CalmMover, Moving
  <2>4. \A p \in Path : fs'[p] = fs[p] \/ fs[p] = None \/ fs[p].work = w
    BY <1>1, <1>4, <1>5, <2>3
  <2>5. \A v \in Work \ {w} : Undisturbed(v)
    BY <1>1, <2>1, <2>4, OthersUndisturbed
  <2>6. CalmAt(w)'
    <3>1. Apart(w)' /\ Owning(w)'
      BY <2>1 DEF Apart, Owning, CalmAt, Unsettled
    <3>2. move[w].dst = x.dst /\ move[w].src = x.src
      BY <1>0, <1>4 DEF Recorded
    <3>3. Listed(w)'
      BY <1>2, <1>4, <1>5, <2>1, <2>3, <3>2, Values DEF Listed, Keeps, Owned, Unsettled, NoPub
    <3>4. Elsewhere(w)'
      BY <1>4, <2>1, <3>2 DEF Elsewhere
    <3> QED  BY <3>1, <3>3, <3>4 DEF CalmAt
  <2>7. CalmMover(m)'
    BY <1>3, <1>5, <2>3 DEF CalmMover, Owned
  <2>8. \A i \in Mover : \/ CalmMover(i)'
                         \/ MoverRests(i) /\ (mover[i].pc \in {"prepared", "renamed"} => mover[i].w # w)
    BY <1>3, <1>6, <2>7 DEF MoverRests
  <2> QED  BY <1>1, <2>1, <2>2, <2>5, <2>6, <2>8, CalmButOne
<1> QED  BY <1>1, <1>7, <1>8, <1>9, <1>10 DEF Inv

\* The move is committed: the book is where it has been renamed to.
LEMMA MoveCommitKeeps ==
    ASSUME Inv, NEW m \in Mover, MoveCommit(m)
    PROVE  Inv'
<1>0. PICK w \in Work : w = mover[m].w
  BY DEF Inv, Shapes, MoverShape, MoveCommit
<1> DEFINE x == mover[m]
           g == [mover EXCEPT ![m] = Idle]
<1>1. Types /\ Shapes /\ Journaled /\ x.pc = "renamed" /\ phase = "UP" /\ x.src \in Path /\ x.dst \in Path
  BY DEF Inv, MoveCommit, Up, Shapes, MoverShape, Moving
<1>2. /\ Recorded(m) /\ writing = m /\ art[w].path = x.src /\ pub[w] = NoPub /\ Published(w)
      /\ \A i \in Mover \ {m} : mover[i].pc # "renamed" /\ (mover[i].pc = "prepared" => mover[i].w # w)
  BY <1>0, <1>1, Values DEF Journaled, Recorded, Mover, Published
<1>3. mover' \in [Mover -> MoverState] /\ MoverLeaves(m) /\ \A i \in Mover \ {m} : MoverStays(i)
  <2>1. Idle \in MoverState
    BY DEF Idle, MoverState, MoverPc
  <2>2. g \in [Mover -> MoverState] /\ g[m] = Idle /\ \A i \in Mover \ {m} : g[i] = mover[i]
    BY <1>1, <2>1 DEF Types
  <2>3. mover' = [i \in Mover |-> mover'[i]] /\ \A i \in Mover : mover'[i] \in {g[i], Faded(g[i])}
    BY <1>0 DEF Aged, Faded, MoveCommit
  <2> HIDE DEF g
  <2>4. mover' \in [Mover -> MoverState] /\ \A i \in Mover :
           /\ mover'[i].pc = g[i].pc /\ mover'[i].w = g[i].w /\ mover'[i].src = g[i].src
           /\ mover'[i].dst = g[i].dst /\ mover'[i].file = g[i].file
    BY <2>2, <2>3, AgedStays
  <2> QED  BY <2>2, <2>4 DEF MoverLeaves, MoverStays, Idle
<1>4. edit' \in [Work -> {"NONE", "CURRENT", "STALE"}] /\ syncer' \in SyncState /\ SyncerStays
  BY <1>0, <1>1, BumpStays DEF MoveCommit
<1>5. job' \in [Work -> JobRow] /\ \A v \in Work \ {w} : job'[v] = job[v]
  <2> DEFINE s == IF m = "worker" THEN "DONE" ELSE job[w].state
             j == [job[w] EXCEPT !.bound = FALSE, !.state = s]
  <2>1. job[w] \in JobRow /\ job \in [Work -> JobRow]
    BY <1>1 DEF Types
  <2>2. s \in {"NONE", "PENDING", "RUNNING", "DONE"}
    BY <2>1 DEF JobRow
  <2>3. job' = [job EXCEPT ![w].bound = FALSE, ![w].state = s]
    BY <1>0 DEF MoveCommit
  <2> HIDE DEF s
  <2>4. j \in JobRow
    BY <2>1, <2>2 DEF JobRow
  <2>5. job' = [job EXCEPT ![w] = j]
    BY <2>1, <2>3
  <2> HIDE DEF j
  <2> QED  BY <2>1, <2>4, <2>5
<1>6. art' \in [Work -> ArtRow] /\ art'[w].path = x.dst /\ \A v \in Work \ {w} : art'[v] = art[v]
  <2>1. art[w] \in ArtRow /\ art[w] # NoArt
    BY <1>1, <1>2 DEF Types, Published, NoArt
  <2> DEFINE a == [art[w] EXCEPT !.path = x.dst]
  <2>2. a \in ArtRow /\ a.path = x.dst
    BY <1>1, <2>1 DEF ArtRow
  <2>3. art' = [art EXCEPT ![w] = a]
    BY <1>0 DEF MoveCommit
  <2> HIDE DEF a
  <2> QED  BY <1>1, <2>2, <2>3 DEF Types
<1>7. move' \in [Work -> MoveRow] /\ move'[w] = NoMove /\ \A v \in Work \ {w} : move'[v] = move[v]
  BY <1>0, <1>1 DEF MoveCommit, Types, MoveRow
<1>8. Types'
  <2>1. pin' \in [Work -> Path \cup {None}]
    BY <1>1 DEF MoveCommit, Types
  <2> QED  BY <1>1, <1>3, <1>4, <1>5, <1>6, <1>7, <2>1 DEF MoveCommit, Types
<1>9. ProcessesRest /\ SyncerRests /\ \A i \in Mover : MoverRests(i)
  BY <1>3, <1>4, SyncersRest DEF ProcessesRest, MoverRests, MoverLeaves, Moving
<1>10. Shapes'
  BY <1>1, <1>9, RestingShapes
<1>11. Journaled'
  <2>1. \A i \in Mover : MoverStays(i) \/ mover'[i].pc \notin {"prepared", "renamed"}
    BY <1>3 DEF MoverLeaves
  <2>2. \A i \in Mover : mover[i].pc \in {"prepared", "renamed"} /\ MoverStays(i) => i # m
    BY <1>3 DEF MoverLeaves, MoverStays
  <2>3. \A i \in Mover : mover[i].pc \in {"prepared", "renamed"} /\ MoverStays(i)
           => move'[mover[i].w] = move[mover[i].w] /\ mover[i].pc # "renamed"
    BY <1>1, <1>2, <1>7, <2>2 DEF Shapes, MoverShape
  <2> QED  BY <1>1, <2>1, <2>3, JournalRests
<1>12. Publishing'
  <2>1. MoverStays("worker") \/ \A v \in Work : pub'[v] = NoPub
    BY <1>1, <1>3 DEF Inv, Publishing, Mover, MoveCommit
  <2>2. \A v \in Work : pub'[v] # NoPub /\ art'[v].path # None => Published(v) /\ job'[v].state = job[v].state
    BY <1>2, <1>5, <1>6 DEF Published, MoveCommit
  <2> QED  BY <2>1, <2>2, PublishingRests DEF Inv, MoveCommit
<1>13. Numbered'
  <2>1. \A v \in Work : move'[v].sha \in {move[v].sha, None} /\ pub'[v] \in {pub[v], NoPub}
    BY <1>7 DEF NoMove, MoveCommit
  <2> QED  BY <1>9, <2>1, NumberedRests DEF Inv, MoveCommit
<1>14. ASSUME raced' = {} PROVE Calm'
  <2>1. Calm /\ CalmAt(w) /\ fs' = fs /\ pub' = pub
    BY <1>14 DEF Inv, MoveCommit, Calm
  <2>2. (\A v \in Work : Harmless(v)) /\ CalmSyncer'
    BY <1>1, <1>9, <2>1, SyncerRestsHarmlessToAll
  <2>3. \A v \in Work \ {w} : Undisturbed(v)
    BY <1>1, <1>6, <1>7, <2>1, OthersUndisturbed
  <2>4. Listed(w)'
    <3>1. Owned(fs[x.dst], w)
      BY <1>0, <1>1, <2>1 DEF Calm, CalmMover
    <3> QED  BY <1>1, <1>2, <1>6, <2>1, <3>1, Values DEF Listed, Keeps, NoPub, Owned
  <2>5. Apart(w)' /\ Owning(w)' /\ Elsewhere(w)'
    BY <1>2, <1>7, <2>1 DEF Apart, Owning, Elsewhere, NoMove, Unsettled
  <2>6. CalmAt(w)'
    BY <2>4, <2>5 DEF CalmAt
  <2>7. \A i \in Mover : \/ CalmMover(i)'
                         \/ MoverRests(i) /\ (mover[i].pc \in {"prepared", "renamed"} => mover[i].w # w)
    <3>1. CalmMover(m)'
      BY <1>3 DEF CalmMover, MoverLeaves, Moving
    <3> QED  BY <1>2, <1>9, <3>1
  <2> QED  BY <1>1, <2>1, <2>2, <2>3, <2>6, <2>7, CalmButOne
<1> QED  BY <1>8, <1>10, <1>11, <1>12, <1>13, <1>14 DEF Inv

-----------------------------------------------------------------------------
(* Steps of a publication.                                                 *)

\* A new version of the archive of w is none that is around.
LEMMA NewVersion ==
    ASSUME Types, NEW w \in Work, made[w] < MaxFile, made' = [made EXCEPT ![w] = @ + 1]
    PROVE  /\ made' \in [Work -> 0..MaxFile] /\ made'[w] = made[w] + 1
           /\ [work |-> w, n |-> made[w] + 1] \in File /\ made[w] + 1 <= made'[w]
           /\ \A f \in File \cup {None} : Counts(f) => Counts(f)' /\ f # [work |-> w, n |-> made[w] + 1]
<1> DEFINE new == [work |-> w, n |-> made[w] + 1]
<1>1. made \in [Work -> 0..MaxFile] /\ MaxFile \in Nat
  BY LibraryAssumption DEF Types
<1>2. made[w] + 1 \in 1..MaxFile
  BY <1>1
<1>3. made' \in [Work -> 0..MaxFile] /\ made'[w] = made[w] + 1 /\ \A v \in Work \ {w} : made'[v] = made[v]
  BY <1>1, <1>2
<1>4. new \in File /\ new.work = w /\ new.n = made[w] + 1
  BY <1>2 DEF File
<1>5. ASSUME NEW f \in File \cup {None}, Counts(f)
      PROVE  (f # None => f.n <= made'[f.work]) /\ f # new
  <2>1. CASE f = None
    BY <2>1, <1>4, Values
  <2>2. CASE f \in File
    <3>1. f.work \in Work /\ f.n \in 1..MaxFile /\ f # None
      BY <2>2, Values DEF File
    <3>2. f.n <= made[f.work] /\ made[f.work] \in Nat /\ made[w] \in Nat
      BY <1>1, <1>5, <3>1 DEF Counts
    <3>3. f.work = w => f.n # new.n
      BY <1>4, <3>1, <3>2
    <3>4. f # new
      BY <1>4, <3>3
    <3>5. made[f.work] <= made'[f.work] /\ made'[f.work] \in Nat
      BY <1>3, <3>1, <3>2
    <3> QED  BY <3>1, <3>2, <3>4, <3>5
  <2> QED  BY <2>1, <2>2
<1>6. made[w] + 1 <= made'[w]
  BY <1>1, <1>3
<1> QED  BY <1>3, <1>4, <1>5, <1>6 DEF Counts

\* A publication is recorded with a new version, while the old file stays.
LEMMA PackPrepareKeeps ==
    ASSUME Inv, PackPrepare
    PROVE  Inv'
<1>0. PICK w \in Work : w = mover["worker"].w
  BY DEF Inv, Shapes, MoverShape, PackPrepare, Mover
<1> DEFINE x == mover["worker"]
           new == [work |-> w, n |-> made[w] + 1]
           r == [dst |-> x.dst, old |-> fs[x.dst], new |-> new]
<1>1. /\ Types /\ Shapes /\ Journaled /\ Numbered /\ x.pc = "packing" /\ phase = "UP" /\ writing = None
      /\ x.dst \in Path /\ job[w].state = "RUNNING" /\ made[w] < MaxFile /\ "worker" \in Mover
  BY <1>0 DEF Inv, PackPrepare, Up, Shapes, MoverShape, Mover
<1>2. \A v \in Work : pub[v] = NoPub
  BY <1>1 DEF Inv, Publishing
<1>3. /\ made' \in [Work -> 0..MaxFile] /\ made'[w] = made[w] + 1 /\ new \in File /\ new.work = w
      /\ \A f \in File \cup {None} : Counts(f) => Counts(f)' /\ f # new
      /\ new.n <= made'[w]
  <2>1. made' = [made EXCEPT ![w] = @ + 1]
    BY <1>0 DEF PackPrepare
  <2>2. /\ made' \in [Work -> 0..MaxFile] /\ made'[w] = made[w] + 1 /\ new \in File /\ made[w] + 1 <= made'[w]
        /\ \A f \in File \cup {None} : Counts(f) => Counts(f)' /\ f # new
    BY <1>1, <2>1, NewVersion
  <2>3. new.work = w /\ new.n = made[w] + 1
    OBVIOUS
  <2> HIDE DEF new
  <2> QED  BY <2>2, <2>3
<1>4. pub' \in [Work -> PubRow] /\ pub'[w] = r /\ \A v \in Work \ {w} : pub'[v] = NoPub
  <2>1. fs[x.dst] \in File \cup {None}
    BY <1>1 DEF Types
  <2>2. r \in PubRow
    BY <1>1, <1>3, <2>1 DEF PubRow
  <2>3. pub' = [pub EXCEPT ![w] = r]
    BY <1>0, <1>3 DEF PackPrepare
  <2> QED  BY <1>1, <1>2, <2>2, <2>3 DEF Types
<1>5. /\ mover' \in [Mover -> MoverState] /\ mover'["worker"].pc = "publishing" /\ mover'["worker"].w = w
      /\ mover'["worker"].dst = x.dst /\ mover'["worker"].file = x.file /\ MoverStays("request")
  BY <1>0, <1>1, MoverGoesOn DEF PackPrepare, MoverPc, Mover
<1>6. Types'
  <2>1. raced' \subseteq {"PACK", "SYNC", "UNLINK", "REMOVE"}
    BY <1>1 DEF Types, PackPrepare
  <2> QED  BY <1>1, <1>3, <1>4, <1>5, <2>1 DEF Types, PackPrepare
<1>7. Shapes'
  <2>1. MoverShape("request")'
    BY <1>1, <1>5, StaysShaped DEF Shapes, Mover
  <2>2. MoverShape("worker")'
    BY <1>1, <1>5 DEF MoverShape, Moving
  <2> QED  BY <1>1, <2>1, <2>2 DEF Shapes, Mover, PackPrepare, SyncShape
<1>8. \A m \in Mover : MoverRests(m) /\ mover[m].pc # "renamed"
  <2>1. \A m \in Mover : MoverRests(m)
    BY <1>5 DEF Mover, MoverRests, Moving
  <2> QED  BY <1>1, <2>1, NobodyRenames
<1>9. Journaled'
  BY <1>1, <1>8, JournalRests DEF MoverRests, Moving, PackPrepare
<1>10. Publishing'
  BY <1>0, <1>1, <1>4, <1>5 DEF Publishing, PackPrepare, Published
<1>11. \A f \in File \cup {None} : Counts(f) => Counts(f)' /\ f # new
  BY <1>3
<1>12. /\ (\A p \in Path : fs[p] \in File \cup {None}) /\ (\A v \in Work : move[v].sha \in File \cup {None})
       /\ (\A m \in Mover : mover[m].file \in File \cup {None})
       /\ syncer.file \in File \cup {None} /\ syncer.opened \in File \cup {None} /\ syncer.new \in File \cup {None}
  BY <1>1 DEF Types, MoveRow, NoMove, MoverState, SyncState
<1>13. Numbered'
  <2>1. /\ \A p \in Path : Counts(fs[p])'
        /\ Counts(syncer.file)' /\ Counts(syncer.opened)' /\ Counts(syncer.new)'
    BY <1>1, <1>11, <1>12 DEF Numbered, PackPrepare
  <2>2. \A m \in Mover : Counts(mover[m].file)'
    BY <1>1, <1>5, <1>11, <1>12 DEF Numbered, Mover, MoverStays, Counts
  <2>3. \A v \in Work : Counts(move[v].sha)'
    BY <1>1, <1>11, <1>12 DEF Numbered, PackPrepare
  <2>4. \A v \in Work : Counts(pub[v].old)' /\ Counts(pub[v].new)'
    BY <1>1, <1>3, <1>4, <2>1 DEF Counts, NoPub, PackPrepare
  <2> QED  BY <2>1, <2>2, <2>3, <2>4 DEF Numbered
<1>14. ASSUME raced' = {} PROVE Calm'
  <2>1. /\ Calm /\ CalmAt(w) /\ fs' = fs /\ art' = art /\ move' = move /\ syncer' = syncer
        /\ (fs[x.dst] = None \/ Owned(fs[x.dst], w))
    BY <1>0, <1>14 DEF Inv, PackPrepare, Calm
  <2>2. \A v \in Work : Harmless(v)
    BY <1>2, <2>1 DEF Harmless
  <2>3. CalmSyncer'
    BY <2>1 DEF CalmSyncer, Calm
  <2>4. \A v \in Work \ {w} : Undisturbed(v)
    BY <1>1, <1>2, <1>4, <2>1, OthersUndisturbed
  <2>5. \A p \in Path : fs[p] # new
    BY <1>1, <1>11, <1>12 DEF Numbered
  <2>6. \A p \in Path : Keeps(p, w) => Keeps(p, w)'
    BY <1>4, <2>1, <2>5 DEF Keeps
  <2>7. \A p \in Path : \A f : Shows(p, w, f)' => fs[p] = f
    BY <1>4, <2>1, <2>5 DEF Shows
  <2>8. Apart(w)'
    BY <1>1, <1>4, <1>11, <1>12, <2>1 DEF Apart, Numbered
  <2>9. Owning(w)'
    BY <1>4, <2>1 DEF Owning, CalmAt, Owned, Unsettled
  <2>10. Published(w) => art[w].path \in Path
    BY <1>1 DEF Types, ArtRow, NoArt, Published
  <2>11. Unsettled(w) => move[w].dst \in Path
    BY <1>1 DEF Types, MoveRow, NoMove, Unsettled
  <2>12. Listed(w)'
    BY <2>1, <2>6, <2>10, <2>11 DEF Listed, CalmAt, Published, Unsettled, Keeps
  <2>13. Elsewhere(w)'
    <3> SUFFICES ASSUME Published(w), Unsettled(w), art[w].path # move[w].src
                 PROVE  /\ Keeps(art[w].path, w)'
                        /\ art[w].path = move[w].dst =>
                             /\ ~Shows(move[w].dst, w, move[w].sha)'
                             /\ syncer.pc \in Done /\ syncer.path = move[w].dst /\ syncer.file = move[w].sha
                                  => ~Shows(move[w].dst, w, syncer.new)'
      BY <2>1 DEF Elsewhere, Published, Unsettled
    <3>1. Keeps(art[w].path, w)'
      BY <2>1, <2>6, <2>10 DEF Elsewhere, CalmAt, Keeps
    <3>2. \A f : Shows(move[w].dst, w, f)' => Shows(move[w].dst, w, f)
      BY <2>7, <2>11, <2>1 DEF Shows
    <3>3. ~Shows(move[w].dst, w, move[w].sha) => ~Shows(move[w].dst, w, move[w].sha)'
      BY <3>2, <2>1, <2>7, <2>11 DEF Shows
    <3>4. ~Shows(move[w].dst, w, syncer.new) => ~Shows(move[w].dst, w, syncer.new)'
      BY <3>2, <2>1, <2>7, <2>11 DEF Shows
    <3> QED  BY <2>1, <3>1, <3>3, <3>4 DEF CalmAt, Elsewhere
  <2>14. CalmAt(w)'
    BY <2>8, <2>9, <2>12, <2>13 DEF CalmAt
  <2>15. \A m \in Mover : CalmMover(m)'
    <3> SUFFICES ASSUME NEW m \in Mover PROVE CalmMover(m)'
      OBVIOUS
    <3>1. CASE mover'[m].pc \notin Moving
      BY <3>1 DEF CalmMover, Moving
    <3>2. CASE MoverStays(m)
      <4>1. CASE mover[m].w = w
        <5>1. mover[m].pc = "prepared" /\ Published(w) => Keeps(art[w].path, w)
          BY <4>1, <2>1 DEF Calm, CalmMover
        <5>2. mover[m].pc = "prepared" /\ Published(w) => Keeps(art[w].path, w)'
          BY <5>1, <2>6, <2>10, <2>1 DEF Keeps
        <5> QED  BY <1>8, <2>1, <3>2, <4>1, <5>2 DEF Calm, CalmMover, MoverStays, Published, Keeps
      <4>2. CASE mover[m].w # w
        <5>1. mover[m].pc \in {"prepared", "renamed"} => Undisturbed(mover[m].w)
          BY <1>1, <2>4, <4>2 DEF Shapes, MoverShape
        <5> QED  BY <1>1, <1>8, <2>1, <5>1, MoverStaysCalm DEF Calm
      <4> QED  BY <4>1, <4>2
    <3> QED  BY <1>8, <3>1, <3>2 DEF MoverRests
  <2> QED  BY <1>1, <2>1, <2>2, <2>3, <2>4, <2>14, <2>15, CalmButOne
<1> QED  BY <1>6, <1>7, <1>9, <1>10, <1>13, <1>14 DEF Inv

\* What a move would put back is not shown at its destination.
Gone(w) ==
    /\ ~Shows(move[w].dst, w, move[w].sha)
    /\ syncer.pc \in Done /\ syncer.path = move[w].dst /\ syncer.file = move[w].sha
         => ~Shows(move[w].dst, w, syncer.new)

\* A file of w, and nothing else, is replaced by another one of w.
LEMMA FileStepCalm ==
    ASSUME Types, Shapes, Journaled, Calm, NEW w \in Work, art' = art, move' = move,
           \A v \in Work \ {w} : pub'[v] = pub[v],
           \A p \in Path : fs'[p] = fs[p] \/ fs[p] = None \/ fs[p].work = w,
           \A p \in Path : Keeps(p, w) => Keeps(p, w)',
           \A p \in Path : Owned(fs[p], w) => Owned(fs'[p], w),
           Published(w) /\ Unsettled(w) /\ art[w].path = move[w].dst /\ Gone(w) => Gone(w)',
           Apart(w)', Owning(w)', \A v \in Work : Harmless(v), CalmSyncer',
           \A m \in Mover : MoverStays(m)
    PROVE  Calm'
<1>1. CalmAt(w)
  BY DEF Calm
<1>2. Published(w) => art[w].path \in Path
  BY DEF Types, ArtRow, NoArt, Published
<1>3. Unsettled(w) => move[w].dst \in Path
  BY DEF Types, MoveRow, NoMove, Unsettled
<1>4. Published(w)' = Published(w) /\ Unsettled(w)' = Unsettled(w)
  BY DEF Published, Unsettled
<1>5. Listed(w)'
  <2>1. Published(w) /\ Keeps(art[w].path, w) => Keeps(art[w].path, w)'
    BY <1>2 DEF Keeps
  <2>2. Unsettled(w) /\ Keeps(move[w].dst, w) => Keeps(move[w].dst, w)'
    BY <1>3 DEF Keeps
  <2> QED  BY <1>1, <1>4, <2>1, <2>2 DEF CalmAt, Listed
<1>6. Elsewhere(w)'
  <2>1. ASSUME Published(w), Unsettled(w), art[w].path # move[w].src
        PROVE  Keeps(art[w].path, w)' /\ (art[w].path = move[w].dst => Gone(w)')
    <3>1. Keeps(art[w].path, w) /\ (art[w].path = move[w].dst => Gone(w))
      BY <1>1, <2>1 DEF CalmAt, Elsewhere, Gone
    <3>2. Keeps(art[w].path, w)'
      BY <1>2, <2>1, <3>1 DEF Keeps
    <3> QED  BY <2>1, <3>1, <3>2
  <2> QED  BY <1>4, <2>1 DEF Elsewhere, Gone
<1>7. CalmAt(w)'
  BY <1>5, <1>6 DEF CalmAt
<1>8. \A v \in Work \ {w} : Undisturbed(v)
  BY OthersUndisturbed
<1>9. ASSUME NEW m \in Mover, mover[m].w = w PROVE CalmMover(m)'
  <2>1. mover'[m].pc \in Moving => mover'[m].file.work = mover'[m].w
    BY DEF Calm, CalmMover, MoverStays
  <2>2. mover'[m].pc = "renamed" => Owned(fs'[mover'[m].dst], w)
    BY <1>9 DEF Calm, CalmMover, MoverStays, Shapes, MoverShape, Moving
  <2>3. mover'[m].pc = "prepared" /\ Published(w) => Keeps(art[w].path, w)'
    BY <1>2, <1>9 DEF Calm, CalmMover, MoverStays, Keeps
  <2> QED  BY <1>4, <1>9, <2>1, <2>2, <2>3 DEF CalmMover, MoverStays, Keeps, Published
<1>10. \A m \in Mover : \/ CalmMover(m)'
                        \/ MoverRests(m) /\ (mover[m].pc \in {"prepared", "renamed"} => mover[m].w # w)
  BY <1>9 DEF MoverRests
<1> QED  BY <1>7, <1>8, <1>10, CalmButOne

\* A file that a step changes leaves the journal and the publications as they are.
LEMMA FileStepRests ==
    ASSUME Inv, \A m \in Mover : MoverStays(m),
           UNCHANGED <<art, job, move, pub, writing, phase>>
    PROVE  Journaled' /\ Publishing'
<1>1. Journaled'
  BY JournalRests DEF Inv
<1>2. MoverStays("worker") /\ \A v \in Work : art'[v].path # None => Published(v)
  BY DEF Mover, Published
<1>3. Publishing'
  BY <1>2, PublishingRests DEF Inv
<1> QED  BY <1>1, <1>3

\* What the records and processes of a work that is being published hold.
LEMMA PubTyped ==
    ASSUME Types, NEW w \in Work, pub[w] # NoPub
    PROVE  pub[w].dst \in Path /\ pub[w].new \in File /\ pub[w].new # None /\ pub[w].old \in File \cup {None}
BY Values DEF Types, PubRow

\* The new archive replaces the file at the path of the publication.
LEMMA PackReplaceKeeps ==
    ASSUME Inv, NEW w \in Work, PackReplace(w)
    PROVE  Inv'
<1> DEFINE r == pub[w]
<1>1. /\ Types /\ Shapes /\ Journaled /\ r # NoPub /\ fs[r.dst] = r.old /\ move' = move /\ art' = art /\ pub' = pub
      /\ syncer' = syncer /\ r.dst \in Path /\ r.new \in File /\ r.new # None
  BY PubTyped DEF Inv, PackReplace
<1>2. fs'[r.dst] = r.new /\ \A p \in Path \ {r.dst} : fs'[p] = fs[p]
  BY <1>1 DEF PackReplace, Types
<1>3. Types'
  BY <1>1 DEF PackReplace, Types
<1>4. \A m \in Mover : MoverStays(m) /\ MoverRests(m)
  BY DEF MoverStays, MoverRests, PackReplace
<1>5. Shapes'
  BY <1>1, <1>4, StaysShaped DEF Shapes, SyncShape
<1>6. Journaled' /\ Publishing'
  BY <1>4, FileStepRests DEF PackReplace
<1>7. SyncerRests
  BY <1>1, SyncersRest DEF SyncerStays
<1>8. Numbered'
  <2>1. \A p \in Path : fs'[p] \in {fs[p], None} \/ Counts(fs'[p])
    BY <1>2 DEF Inv, Numbered
  <2> QED  BY <1>1, <1>4, <1>7, <2>1, NumberedRests DEF Inv, PackReplace
<1>9. ASSUME raced' = {} PROVE Calm'
  <2>1. Calm /\ CalmAt(w)
    BY <1>9 DEF Inv, PackReplace, Calm
  <2>2. (\A v \in Work : Harmless(v)) /\ CalmSyncer'
    BY <1>1, <1>7, <2>1, SyncerRestsHarmlessToAll
  <2>3. r.new.work = w /\ (r.old # None => r.old.work = w)
    BY <1>1, <2>1 DEF CalmAt, Owning
  <2>4. \A p \in Path : fs'[p] = fs[p] \/ fs[p] = None \/ fs[p].work = w
    BY <1>1, <1>2, <2>3
  <2>5. \A p \in Path : (Owned(fs[p], w) => Owned(fs'[p], w)) /\ (Keeps(p, w) => Keeps(p, w)')
    BY <1>1, <1>2, <2>3 DEF Owned, Keeps
  <2>6. Apart(w)' /\ Owning(w)'
    BY <1>1, <2>1 DEF CalmAt, Apart, Owning, Unsettled
  <2>7. ASSUME Unsettled(w), Gone(w) PROVE Gone(w)'
    <3>1. move[w].dst \in Path
      BY <1>1, <2>7 DEF Types, MoveRow, NoMove, Unsettled
    <3>2. \A f : f # r.new /\ ~Shows(move[w].dst, w, f) =>
             ~(fs'[move[w].dst] = f \/ (r.dst = move[w].dst /\ fs'[move[w].dst] = r.new /\ r.old = f))
      BY <1>1, <1>2, <3>1 DEF Shows
    <3>3. move[w].sha # r.new
      BY <1>1, <2>1 DEF CalmAt, Apart
    <3>4. syncer.pc \in Done /\ syncer.file = move[w].sha => syncer.new # r.new
      BY <1>1, <2>1, <2>7 DEF CalmAt, Apart, Owning, Calm, CalmSyncer
    <3> QED  BY <1>1, <2>7, <3>2, <3>3, <3>4 DEF Gone, Shows
  <2> QED  BY <1>1, <1>4, <2>1, <2>2, <2>4, <2>5, <2>6, <2>7, FileStepCalm
<1> QED  BY <1>3, <1>5, <1>6, <1>8, <1>9 DEF Inv

\* The new file is confirmed: the library lists it.
LEMMA PackConfirmKeeps ==
    ASSUME Inv, NEW w \in Work, PackFinish(w), job[w].state = "RUNNING", fs[pub[w].dst] = pub[w].new
    PROVE  Inv'
<1> DEFINE r == pub[w]
           a == [path |-> r.dst, sha |-> r.new]
<1>1. /\ Types /\ Shapes /\ Journaled /\ r # NoPub /\ writing = None /\ fs' = fs /\ move' = move
      /\ r.dst \in Path /\ r.new \in File /\ r.new # None
  BY PubTyped DEF Inv, PackFinish
<1>2. mover' \in [Mover -> MoverState] /\ MoversStay
  BY <1>1, MoversAge DEF PackFinish
<1>3. edit' \in [Work -> {"NONE", "CURRENT", "STALE"}] /\ syncer' \in SyncState /\ SyncerStays
  BY <1>1, BumpStays DEF PackFinish
<1>4. art' \in [Work -> ArtRow] /\ art'[w].path = r.dst /\ \A v \in Work \ {w} : art'[v] = art[v]
  <2>1. art' = [art EXCEPT ![w] = a]
    BY <1>1 DEF PackFinish
  <2>2. a \in ArtRow /\ a.path = r.dst
    BY <1>1 DEF ArtRow
  <2> HIDE DEF a
  <2> QED  BY <1>1, <2>1, <2>2 DEF Types
<1>5. job' \in [Work -> JobRow] /\ \A v \in Work \ {w} : job'[v] = job[v]
  <2> DEFINE j == [job[w] EXCEPT !.state = "DONE", !.bound = FALSE]
  <2>1. job[w] \in JobRow /\ job \in [Work -> JobRow]
    BY <1>1 DEF Types
  <2>2. j \in JobRow
    BY <2>1 DEF JobRow
  <2>3. job' = [job EXCEPT ![w].state = "DONE", ![w].bound = FALSE]
    BY <1>1 DEF PackFinish
  <2>4. job' = [job EXCEPT ![w] = j]
    BY <2>1, <2>3
  <2> HIDE DEF j
  <2> QED  BY <2>1, <2>2, <2>4
<1>6. pub' \in [Work -> PubRow] /\ pub'[w] = NoPub /\ \A v \in Work \ {w} : pub'[v] = pub[v]
  BY <1>1 DEF PackFinish, Types, PubRow
<1>7. Types'
  BY <1>1, <1>2, <1>3, <1>4, <1>5, <1>6 DEF PackFinish, Types
<1>8. \A m \in Mover : MoverStays(m) /\ MoverRests(m) /\ mover[m].pc # "renamed"
  BY <1>1, <1>2, NobodyRenames DEF MoversStay, MoverRests
<1>9. SyncerRests
  BY <1>3, SyncersRest
<1>10. Shapes'
  BY <1>1, <1>3, <1>8, StaysShaped, SyncerShaped DEF Shapes
<1>11. Journaled'
  BY <1>1, <1>8, JournalRests
<1>12. Publishing'
  <2>1. MoverStays("worker") /\ \A v \in Work : pub'[v] \in {pub[v], NoPub}
    BY <1>6, <1>8 DEF Mover
  <2>2. \A v \in Work : pub'[v] # NoPub /\ art'[v].path # None => Published(v) /\ job'[v].state = job[v].state
    BY <1>4, <1>5, <1>6 DEF Published
  <2> QED  BY <2>1, <2>2, PublishingRests DEF Inv, PackFinish
<1>13. Numbered'
  <2>1. \A v \in Work : move'[v].sha \in {move[v].sha, None} /\ pub'[v] \in {pub[v], NoPub}
    BY <1>1, <1>6
  <2> QED  BY <1>1, <1>8, <1>9, <2>1, NumberedRests DEF Inv, PackFinish
<1>14. ASSUME raced' = {} PROVE Calm'
  <2>1. Calm /\ CalmAt(w)
    BY <1>14 DEF Inv, PackFinish, Calm
  <2>2. (\A v \in Work : Harmless(v)) /\ CalmSyncer'
    BY <1>1, <1>9, <2>1, SyncerRestsHarmlessToAll
  <2>3. \A v \in Work \ {w} : Undisturbed(v)
    BY <1>1, <1>4, <1>6, OthersUndisturbed
  <2>4. r.dst # NoPub.dst
    BY <1>1, Values DEF NoPub
  <2>5. Keeps(art[w].path, w)'
    BY <1>1, <1>4, <1>6, <2>1, <2>4 DEF Keeps, Owned, CalmAt, Owning
  <2>6. Apart(w)' /\ Owning(w)' /\ Listed(w)'
    BY <1>1, <1>6, <2>1, <2>5 DEF Apart, Owning, Listed, CalmAt, Unsettled
  <2>7. Elsewhere(w)'
    <3>1. ASSUME Unsettled(w), art'[w].path = move[w].dst PROVE Gone(w)'
      <4>0. PICK q \in Path : q = r.dst
        BY <1>1
      <4>1. \A f : Shows(q, w, f)' => f = r.new
        BY <1>1, <1>6, <2>4, <4>0 DEF Shows
      <4>2. move[w].sha # r.new
        BY <1>1, <2>1 DEF CalmAt, Apart
      <4>3. syncer.pc \in Done /\ syncer.file = move[w].sha => syncer.new # r.new
        BY <1>1, <2>1, <3>1 DEF CalmAt, Apart, Owning, Calm, CalmSyncer
      <4> QED  BY <1>1, <1>3, <1>4, <1>6, <2>4, <3>1, <4>0, <4>1, <4>2, <4>3 DEF Gone, Shows, SyncerStays
    <3> QED  BY <1>1, <2>5, <3>1 DEF Elsewhere, Gone, Unsettled
  <2>8. CalmAt(w)'
    BY <2>6, <2>7 DEF CalmAt
  <2>9. ASSUME NEW m \in Mover, mover[m].w = w PROVE CalmMover(m)'
    <3>1. mover'[m].pc \in Moving => mover'[m].file.work = mover'[m].w
      BY <1>8, <2>1 DEF Calm, CalmMover, MoverStays
    <3>2. mover'[m].w = w /\ mover'[m].pc # "renamed"
      BY <1>8, <2>9 DEF MoverStays
    <3> QED  BY <2>5, <3>1, <3>2 DEF CalmMover, Keeps
  <2>10. \A m \in Mover : \/ CalmMover(m)'
                          \/ MoverRests(m) /\ (mover[m].pc \in {"prepared", "renamed"} => mover[m].w # w)
    BY <1>8, <2>9
  <2> QED  BY <1>1, <2>1, <2>2, <2>3, <2>8, <2>10, CalmButOne
<1> QED  BY <1>7, <1>10, <1>11, <1>12, <1>13, <1>14 DEF Inv

\* The publication is undone: the file that was there before is there again.
LEMMA PackUndoKeeps ==
    ASSUME Inv, NEW w \in Work, PackFinish(w), ~(job[w].state = "RUNNING" /\ fs[pub[w].dst] = pub[w].new)
    PROVE  Inv'
<1> DEFINE r == pub[w]
<1>1. /\ Types /\ Shapes /\ Journaled /\ r # NoPub /\ writing = None /\ move' = move /\ art' = art /\ syncer' = syncer
      /\ r.dst \in Path /\ r.new \in File /\ r.new # None /\ r.old \in File \cup {None}
  BY PubTyped DEF Inv, PackFinish
<1>2. /\ fs'[r.dst] = (IF fs[r.dst] = r.new THEN r.old ELSE fs[r.dst])
      /\ \A p \in Path \ {r.dst} : fs'[p] = fs[p]
      /\ fs' \in [Path -> File \cup {None}]
  BY <1>1 DEF PackFinish, Types
<1>3. pub' \in [Work -> PubRow] /\ pub'[w] = NoPub /\ \A v \in Work \ {w} : pub'[v] = pub[v]
  BY <1>1 DEF PackFinish, Types, PubRow
<1>4. Types'
  BY <1>1, <1>2, <1>3 DEF PackFinish, Types
<1>5. \A m \in Mover : MoverStays(m) /\ MoverRests(m) /\ mover[m].pc # "renamed"
  BY <1>1, NobodyRenames DEF MoverStays, MoverRests, PackFinish
<1>6. Shapes'
  BY <1>1, <1>5, StaysShaped DEF Shapes, SyncShape
<1>7. SyncerRests
  BY <1>1, SyncersRest DEF SyncerStays
<1>8. Journaled'
  BY <1>1, <1>5, JournalRests
<1>9. Publishing'
  <2>1. MoverStays("worker") /\ \A v \in Work : pub'[v] \in {pub[v], NoPub} /\ (art'[v].path # None => Published(v))
    BY <1>1, <1>3, <1>5 DEF Mover, Published
  <2> QED  BY <2>1, PublishingRests DEF Inv, PackFinish
<1>10. Numbered'
  <2>1. \A v \in Work : move'[v].sha \in {move[v].sha, None} /\ pub'[v] \in {pub[v], NoPub}
    BY <1>1, <1>3
  <2>2. \A p \in Path : fs'[p] \in {fs[p], None} \/ Counts(fs'[p])
    BY <1>2 DEF Inv, Numbered
  <2> QED  BY <1>5, <1>7, <2>1, <2>2, NumberedRests DEF Inv, PackFinish
<1>11. ASSUME raced' = {} PROVE Calm'
  <2>1. Calm /\ CalmAt(w)
    BY <1>11 DEF Inv, PackFinish, Calm
  <2>2. (\A v \in Work : Harmless(v)) /\ CalmSyncer'
    BY <1>1, <1>7, <2>1, SyncerRestsHarmlessToAll
  <2>3. r.new.work = w /\ (r.old # None => r.old.work = w)
    BY <1>1, <2>1 DEF CalmAt, Owning
  <2>4. \A p \in Path : fs'[p] = fs[p] \/ fs[p] = None \/ fs[p].work = w
    BY <1>2, <2>3
  <2>5. \A p \in Path : p # NoPub.dst
    BY Values DEF NoPub
  <2>6. \A p \in Path : Keeps(p, w) => Owned(fs'[p], w) /\ Keeps(p, w)'
    BY <1>1, <1>2, <1>3, <2>3, <2>5 DEF Owned, Keeps
  <2>7. Apart(w)' /\ Owning(w)'
    BY <1>1, <1>3, <2>1 DEF CalmAt, Apart, Owning, Unsettled
  <2>8. ASSUME Unsettled(w), Gone(w) PROVE Gone(w)'
    <3>1. move[w].dst \in Path
      BY <1>1, <2>8 DEF Types, MoveRow, NoMove, Unsettled
    <3>2. \A f : ~Shows(move[w].dst, w, f) => fs'[move[w].dst] # f
      BY <1>1, <1>2, <3>1 DEF Shows
    <3>3. \A f : Shows(move[w].dst, w, f)' => fs'[move[w].dst] = f
      BY <1>1, <1>3, <2>5, <3>1 DEF Shows
    <3> QED  BY <1>1, <1>3, <2>5, <2>8, <3>1, <3>2 DEF Gone, Shows
  <2>9. \A m \in Mover : mover[m].w = w /\ mover[m].pc = "prepared" => mover[m].pc # "renamed"
    OBVIOUS
  <2>10. CalmAt(w)'
    <3>1. Published(w) => art[w].path \in Path
      BY <1>1 DEF Types, ArtRow, NoArt, Published
    <3>2. Unsettled(w) => move[w].dst \in Path
      BY <1>1 DEF Types, MoveRow, NoMove, Unsettled
    <3>3. Published(w) /\ Keeps(art[w].path, w) => Keeps(art[w].path, w)'
      BY <1>1, <2>6, <3>1 DEF Keeps
    <3>4. Unsettled(w) /\ Keeps(move[w].dst, w) => Keeps(move[w].dst, w)'
      BY <1>1, <2>6, <3>2 DEF Keeps
    <3>5. Listed(w)'
      BY <1>1, <2>1, <3>3, <3>4 DEF CalmAt, Listed, Published, Unsettled
    <3>6. Elsewhere(w)'
      BY <1>1, <2>1, <2>8, <3>3 DEF CalmAt, Elsewhere, Gone, Published, Unsettled
    <3> QED  BY <2>7, <3>5, <3>6 DEF CalmAt
  <2>11. \A v \in Work \ {w} : Undisturbed(v)
    BY <1>1, <1>3, <2>4, OthersUndisturbed
  <2>12. ASSUME NEW m \in Mover, mover[m].w = w PROVE CalmMover(m)'
    <3>1. mover'[m].pc \in Moving => mover'[m].file.work = mover'[m].w
      BY <1>5, <2>1 DEF Calm, CalmMover, MoverStays
    <3>2. mover'[m].w = w /\ mover'[m].pc = mover[m].pc /\ mover'[m].pc # "renamed"
      BY <1>5, <2>12 DEF MoverStays
    <3>3. mover[m].pc = "prepared" /\ Published(w) => Keeps(art[w].path, w)'
      <4>1. Published(w) => art[w].path \in Path
        BY <1>1 DEF Types, ArtRow, NoArt, Published
      <4> QED  BY <1>1, <2>1, <2>6, <2>12, <4>1 DEF Calm, CalmMover, Keeps
    <3> QED  BY <1>1, <3>1, <3>2, <3>3 DEF CalmMover, Keeps, Published
  <2>13. \A m \in Mover : \/ CalmMover(m)'
                          \/ MoverRests(m) /\ (mover[m].pc \in {"prepared", "renamed"} => mover[m].w # w)
    BY <1>5, <2>12
  <2> QED  BY <1>1, <2>1, <2>2, <2>10, <2>11, <2>13, CalmButOne
<1> QED  BY <1>4, <1>6, <1>8, <1>9, <1>10, <1>11 DEF Inv

-----------------------------------------------------------------------------
(* Steps of the syncer and of a removal that change a file.                *)

\* The rewritten archive replaces what has its name.
LEMMA SyncReplaceKeeps ==
    ASSUME Inv, SyncReplace
    PROVE  Inv'
<1>1. CASE SyncEnds /\ UNCHANGED <<fs, made, raced>>
  BY <1>1, SyncEndsQuiet DEF SyncReplace
<1>2. CASE fs[syncer.path] # None
  <2>0. PICK w \in Work, p \in Path : w = syncer.w /\ p = syncer.path
    BY DEF Inv, Shapes, SyncShape, SyncReplace
  <2>1. /\ Types /\ Shapes /\ Journaled /\ Numbered /\ syncer.pc = "copied" /\ syncer \in SyncState /\ syncer.opened \in File
        /\ syncer.file \in File
    BY DEF Inv, SyncReplace, Types, Shapes, SyncShape
  <2>2. PICK v \in Work : v = syncer.opened.work
    BY <2>1 DEF File
  <2>3. made[v] < MaxFile /\ made' = [made EXCEPT ![v] = @ + 1]
    BY <1>2, <2>2 DEF SyncReplace
  <2>4. /\ made' \in [Work -> 0..MaxFile] /\ made'[v] = made[v] + 1
        /\ [work |-> v, n |-> made[v] + 1] \in File /\ made[v] + 1 <= made'[v]
        /\ \A f \in File \cup {None} : Counts(f) => Counts(f)' /\ f # [work |-> v, n |-> made[v] + 1]
    BY <2>1, <2>3, NewVersion
  <2>4a. PICK new \in File : new = [work |-> v, n |-> made[v] + 1]
    BY <2>4
  <2>5. /\ new.work = v /\ new.n <= made'[v]
        /\ \A f \in File \cup {None} : Counts(f) => Counts(f)' /\ f # new
    BY <2>4, <2>4a
  <2>6. fs' = [fs EXCEPT ![p] = new]
    BY <1>2, <2>0, <2>2, <2>4, <2>4a DEF SyncReplace
  <2>7. UNCHANGED <<art, pin, job, move, pub, edit, removal, mover, writing, phase, count>>
    BY <1>2 DEF SyncReplace
  <2>8. syncer' = [syncer EXCEPT !.pc = "replaced", !.new = fs'[p]]
    BY <1>2, <2>0 DEF SyncReplace
  <2>9. raced' = {} => raced = {} /\ fs[p] = syncer.file /\ syncer.opened = syncer.file /\ v = w
    BY <1>2, <2>0, <2>2 DEF SyncReplace
  <2>10. raced' \subseteq {"PACK", "SYNC", "UNLINK", "REMOVE"}
    BY <1>2, <2>1 DEF SyncReplace, Types
  <2>11. fs' \in [Path -> File \cup {None}] /\ fs'[p] = new /\ \A q \in Path \ {p} : fs'[q] = fs[q]
    BY <2>1, <2>4, <2>6 DEF Types
  <2>12. /\ syncer' \in SyncState /\ syncer'.pc = "replaced" /\ syncer'.w = w /\ syncer'.path = p
         /\ syncer'.file = syncer.file /\ syncer'.opened = syncer.opened /\ syncer'.new = new
    BY <2>0, <2>1, <2>4, <2>8, <2>11 DEF SyncState, SyncPc
  <2>13. Types'
    BY <2>1, <2>4, <2>7, <2>10, <2>11, <2>12 DEF Types
  <2>14. \A m \in Mover : MoverStays(m)
    BY <2>7 DEF MoverStays
  <2>15. Shapes'
    <3>1. SyncShape'
      BY <2>1, <2>4, <2>12 DEF SyncShape, Done
    <3> QED  BY <2>1, <2>14, <3>1, StaysShaped DEF Shapes
  <2>16. Journaled' /\ Publishing'
    BY <2>7, <2>14, FileStepRests
  <2>17. /\ (\A q \in Path : fs[q] \in File \cup {None})
         /\ (\A u \in Work : move[u].sha \in File \cup {None} /\ pub[u].old \in File \cup {None} /\ pub[u].new \in File \cup {None})
         /\ (\A m \in Mover : mover[m].file \in File \cup {None})
         /\ syncer.file \in File \cup {None} /\ syncer.opened \in File \cup {None} /\ syncer.new \in File \cup {None}
    BY <2>1 DEF Types, MoveRow, NoMove, PubRow, NoPub, MoverState, SyncState
  <2>18. new # None /\ Counts(new)'
    BY <2>5, Values DEF Counts
  <2>19. Numbered'
    <3>1. \A q \in Path : Counts(fs[q])'
      BY <2>1, <2>5, <2>11, <2>17, <2>18 DEF Numbered, Counts
    <3>2. \A u \in Work : (Counts(move[u].sha) /\ Counts(pub[u].old) /\ Counts(pub[u].new))'
      BY <2>1, <2>5, <2>7, <2>17 DEF Numbered
    <3>3. \A m \in Mover : Counts(mover[m].file)'
      BY <2>1, <2>5, <2>7, <2>17 DEF Numbered
    <3>4. (Counts(syncer.file) /\ Counts(syncer.opened) /\ Counts(syncer.new))'
      BY <2>1, <2>5, <2>12, <2>17, <2>18 DEF Numbered, Counts
    <3> QED  BY <3>1, <3>2, <3>3, <3>4 DEF Numbered
  <2>20. ASSUME raced' = {} PROVE Calm'
    <3>1. Calm /\ CalmAt(w) /\ fs[p] = syncer.file /\ syncer.opened = syncer.file /\ v = w
      BY <2>9, <2>20 DEF Inv, Calm
    <3>2. fs[p] # None /\ fs[p].work = w
      BY <1>2, <2>0, <2>2, <3>1
    <3>3. \A u \in Work : pub[u] # NoPub => new # pub[u].new
      BY <2>1, <2>5, <2>17 DEF Numbered
    <3>4. \A u \in Work : move[u].sha # new
      BY <2>1, <2>5, <2>17 DEF Numbered
    <3>5. ASSUME NEW u \in Work, u # w PROVE Harmless(u)
      <4>1. Unsettled(u) => move[u].sha # syncer.file
        BY <3>1, <3>2, <3>5 DEF Calm, CalmAt, Owning
      <4> QED  BY <2>12, <3>5, <4>1 DEF Harmless
    <3>6. CalmSyncer'
      BY <2>5, <2>12, <3>1, <3>2 DEF CalmSyncer
    <3>7. \A q \in Path : fs'[q] = fs[q] \/ fs[q] = None \/ fs[q].work = w
      BY <2>11, <3>2
    <3>8. \A u \in Work \ {w} : Undisturbed(u)
      BY <2>1, <2>7, <3>7, OthersUndisturbed
    <3>9. \A q \in Path : (Owned(fs[q], w) => Owned(fs'[q], w)) /\ (Keeps(q, w) => Keeps(q, w)')
      <4>1. pub[w] = NoPub => \A q \in Path : pub[w].dst # q
        BY Values DEF NoPub
      <4> QED  BY <2>5, <2>7, <2>11, <2>18, <3>1, <3>3, <4>1 DEF Owned, Keeps
    <3>10. Apart(w)'
      BY <2>0, <2>7, <2>12, <3>1, <3>3 DEF CalmAt, Apart
    <3>11. Owning(w)'
      BY <2>7, <3>1 DEF CalmAt, Owning, Unsettled
    <3>12. ASSUME Unsettled(w), Gone(w) PROVE Gone(w)'
      <4>1. move[w].dst \in Path
        BY <2>1, <3>12 DEF Types, MoveRow, NoMove, Unsettled
      <4>2. pub[w] = NoPub => pub[w].dst # p
        BY Values DEF NoPub
      <4>3. CASE move[w].dst = p
        <5>1. syncer'.file # move[w].sha
          BY <2>12, <3>1, <3>12, <4>3 DEF Gone, Shows
        <5>2. ~Shows(move[w].dst, w, move[w].sha)'
          BY <2>7, <2>11, <3>3, <3>4, <4>2, <4>3 DEF Shows
        <5> QED  BY <2>7, <5>1, <5>2 DEF Gone
      <4>4. CASE move[w].dst # p
        BY <2>7, <2>11, <2>12, <3>12, <4>1, <4>4 DEF Gone, Shows
      <4> QED  BY <4>3, <4>4
    <3>13. Published(w) => art[w].path \in Path
      BY <2>1 DEF Types, ArtRow, NoArt, Published
    <3>14. Unsettled(w) => move[w].dst \in Path
      BY <2>1 DEF Types, MoveRow, NoMove, Unsettled
    <3>15. CalmAt(w)'
      <4>1. Published(w) /\ Keeps(art[w].path, w) => Keeps(art[w].path, w)'
        BY <2>7, <3>9, <3>13 DEF Keeps
      <4>2. Unsettled(w) /\ Keeps(move[w].dst, w) => Keeps(move[w].dst, w)'
        BY <2>7, <3>9, <3>14 DEF Keeps
      <4>3. Listed(w)'
        BY <2>7, <3>1, <4>1, <4>2 DEF CalmAt, Listed, Published, Unsettled
      <4>4. Elsewhere(w)'
        BY <2>7, <3>1, <3>12, <4>1 DEF CalmAt, Elsewhere, Gone, Published, Unsettled
      <4> QED  BY <3>10, <3>11, <4>3, <4>4 DEF CalmAt
    <3>16. ASSUME NEW m \in Mover, mover[m].w = w PROVE CalmMover(m)'
      <4>1. CalmMover(m)
        BY <3>1 DEF Calm
      <4>2. mover[m].pc = "renamed" => Owned(fs'[mover[m].dst], w)
        BY <2>1, <3>9, <3>16, <4>1 DEF CalmMover, Shapes, MoverShape, Moving
      <4>3. mover[m].pc = "prepared" /\ Published(w) => Keeps(art[w].path, w)'
        BY <2>7, <3>9, <3>13, <3>16, <4>1 DEF CalmMover, Keeps
      <4> QED  BY <2>7, <3>16, <4>1, <4>2, <4>3 DEF CalmMover, Published, Keeps
    <3>17. \A m \in Mover : \/ CalmMover(m)'
                            \/ MoverRests(m) /\ (mover[m].pc \in {"prepared", "renamed"} => mover[m].w # w)
      BY <2>14, <3>16 DEF MoverRests
    <3> QED  BY <2>1, <3>1, <3>5, <3>6, <3>8, <3>15, <3>17, CalmButOne
  <2> QED  BY <2>13, <2>15, <2>16, <2>19, <2>20 DEF Inv
<1> QED  BY <1>1, <1>2 DEF SyncReplace

\* The rewrite looks at its result; when it is gone, the backup comes back.
LEMMA SyncStampKeeps ==
    ASSUME Inv, SyncStamp
    PROVE  Inv'
<1>0. PICK w \in Work, p \in Path : w = syncer.w /\ p = syncer.path
  BY DEF Inv, Shapes, SyncShape, SyncStamp
<1>1. /\ Types /\ Shapes /\ Numbered /\ syncer.pc = "replaced" /\ syncer \in SyncState /\ syncer.opened \in File
      /\ syncer.file \in File /\ syncer.new \in File
      /\ UNCHANGED <<made, art, pin, job, move, pub, removal, mover, writing, phase, count>>
  BY DEF Inv, SyncStamp, Types, Shapes, SyncShape, Done
<1>2. \A m \in Mover : MoverStays(m) /\ MoverRests(m)
  BY <1>1 DEF MoverStays, MoverRests
<1>3. Journaled' /\ Publishing'
  BY <1>1, <1>2, FileStepRests
<1>4. raced' \subseteq {"PACK", "SYNC", "UNLINK", "REMOVE"} /\ (raced' = {} => raced = {} /\ fs[p] # None /\ fs[p] = syncer.new)
  BY <1>0, <1>1 DEF SyncStamp, Types
<1>5. CASE /\ fs[p] # None /\ fs' = fs /\ edit' = edit
           /\ syncer' = [syncer EXCEPT !.pc = "stamped", !.new = fs[p]]
  <2>1. fs[p] \in File
    BY <1>1, <1>5 DEF Types
  <2>2. /\ syncer' \in SyncState /\ syncer'.pc = "stamped" /\ syncer'.w = w /\ syncer'.path = p
        /\ syncer'.file = syncer.file /\ syncer'.opened = syncer.opened /\ syncer'.new = fs[p]
    BY <1>0, <1>1, <1>5, <2>1 DEF SyncState, SyncPc
  <2>3. Types'
    BY <1>1, <1>4, <1>5, <2>2 DEF Types
  <2>4. SyncShape'
    BY <1>1, <2>1, <2>2 DEF SyncShape, Done
  <2>5. Shapes'
    BY <1>1, <1>2, <2>4, StaysShaped DEF Shapes
  <2>6. Numbered'
    BY <1>1, <1>5, <2>2 DEF Numbered, Counts
  <2>7. ASSUME raced' = {} PROVE Calm'
    <3>1. Calm /\ SyncerRests
      BY <1>0, <1>1, <1>4, <2>2, <2>7 DEF Inv, SyncerRests, Done
    <3>2. \A v \in Work : Undisturbed(v)
      BY <1>1, <1>5, SameMoves DEF Undisturbed, MoveSame
    <3>3. (\A v \in Work : Harmless(v)) /\ CalmSyncer'
      BY <1>1, <3>1, SyncerRestsHarmlessToAll
    <3>4. \A v \in Work : CalmAt(v)'
      BY <1>1, <3>1, <3>2, <3>3, WorkStaysCalm DEF Calm
    <3>5. \A m \in Mover : mover[m].pc \in {"prepared", "renamed"} => mover[m].w \in Work
      BY <1>1 DEF Shapes, MoverShape
    <3>6. \A m \in Mover : CalmMover(m)'
      BY <1>1, <1>2, <3>1, <3>2, <3>5, MoverStaysCalm DEF Calm, Inv
    <3> QED  BY <3>3, <3>4, <3>6 DEF Calm
  <2> QED  BY <1>3, <2>3, <2>5, <2>6, <2>7 DEF Inv
<1>6. CASE fs' = [fs EXCEPT ![p] = syncer.file] /\ SyncEnds /\ raced' = raced \cup {"SYNC"}
  <2>1. syncer' \in SyncState /\ SyncerLeaves /\ edit' \in [Work -> {"NONE", "CURRENT", "STALE"}]
    BY <1>1, <1>6, SyncEndsLeaves
  <2>2. fs' \in [Path -> File \cup {None}] /\ \A q \in Path : fs'[q] \in {fs[q], syncer.file}
    BY <1>1, <1>6 DEF Types
  <2>3. Types'
    BY <1>1, <1>4, <2>1, <2>2 DEF Types
  <2>4. Shapes' /\ SyncerRests
    BY <1>1, <1>2, <2>1, StaysShaped, SyncerShaped, SyncersRest DEF Shapes
  <2>5. Numbered'
    <3>1. \A q \in Path : fs'[q] \in {fs[q], None} \/ Counts(fs'[q])
      BY <1>1, <2>2 DEF Numbered
    <3>2. \A v \in Work : move'[v].sha \in {move[v].sha, None} /\ pub'[v] \in {pub[v], NoPub}
      BY <1>1
    <3> QED  BY <1>1, <1>2, <2>4, <3>1, <3>2, NumberedRests
  <2>6. raced' # {}
    BY <1>6
  <2> QED  BY <1>3, <2>3, <2>4, <2>5, <2>6 DEF Inv
<1> QED  BY <1>0, <1>5, <1>6 DEF SyncStamp

\* The rewrite is taken back: the file that was backed up is there again.
LEMMA SyncRestoreKeeps ==
    ASSUME Inv, SyncRestore
    PROVE  Inv'
<1>0. PICK w \in Work, p \in Path : w = syncer.w /\ p = syncer.path
  BY DEF Inv, Shapes, SyncShape, SyncRestore
<1>1. /\ Types /\ Shapes /\ Journaled /\ Numbered /\ syncer.pc = "refused" /\ syncer.file \in File /\ syncer.new \in File
      /\ UNCHANGED <<made, art, pin, job, move, pub, removal, mover, writing, phase, count, raced>>
  BY DEF Inv, SyncRestore, Types, Shapes, SyncShape, Done
<1>2. \A m \in Mover : MoverStays(m) /\ MoverRests(m)
  BY <1>1 DEF MoverStays, MoverRests
<1>3. Journaled' /\ Publishing'
  BY <1>1, <1>2, FileStepRests
<1>4. syncer' \in SyncState /\ SyncerLeaves /\ edit' \in [Work -> {"NONE", "CURRENT", "STALE"}]
  BY <1>1, SyncEndsLeaves DEF SyncRestore
<1>5. /\ fs' \in [Path -> File \cup {None}] /\ (fs[p] = syncer.new => fs'[p] = syncer.file)
      /\ (fs[p] # syncer.new => fs'[p] = fs[p]) /\ \A q \in Path \ {p} : fs'[q] = fs[q]
  BY <1>0, <1>1 DEF Types, SyncRestore
<1>6. Types'
  BY <1>1, <1>4, <1>5 DEF Types
<1>7. Shapes' /\ SyncerRests
  BY <1>1, <1>2, <1>4, StaysShaped, SyncerShaped, SyncersRest DEF Shapes
<1>8. Numbered'
  <2>1. \A q \in Path : fs'[q] \in {fs[q], None} \/ Counts(fs'[q])
    BY <1>1, <1>5 DEF Numbered
  <2>2. \A v \in Work : move'[v].sha \in {move[v].sha, None} /\ pub'[v] \in {pub[v], NoPub}
    BY <1>1
  <2> QED  BY <1>1, <1>2, <1>7, <2>1, <2>2, NumberedRests
<1>9. ASSUME raced' = {} PROVE Calm'
  <2>1. Calm /\ CalmAt(w) /\ syncer.file.work = w /\ syncer.new.work = w /\ syncer.file # None
    BY <1>0, <1>1, <1>9, Values DEF Inv, Calm, CalmSyncer, Done
  <2>2. (\A v \in Work : Harmless(v)) /\ CalmSyncer'
    BY <1>1, <1>7, <2>1, SyncerRestsHarmlessToAll
  <2>3. \A q \in Path : fs'[q] = fs[q] \/ fs[q] = None \/ fs[q].work = w
    BY <1>5, <2>1
  <2>4. pub[w] # NoPub => syncer.file # pub[w].new
    BY <1>0, <2>1 DEF CalmAt, Apart
  <2>5. pub[w] = NoPub => \A q \in Path : pub[w].dst # q
    BY Values DEF NoPub
  <2>6. \A q \in Path : (Owned(fs[q], w) => Owned(fs'[q], w)) /\ (Keeps(q, w) => Keeps(q, w)')
    BY <1>1, <1>5, <2>1, <2>4, <2>5 DEF Owned, Keeps
  <2>7. Apart(w)'
    <3>1. pub[w] # NoPub => pub[w].new # None
      BY <1>1, PubTyped
    <3> QED  BY <1>1, <1>4, <2>1, <3>1 DEF CalmAt, Apart, SyncerLeaves
  <2>8. Owning(w)'
    BY <1>1, <2>1 DEF CalmAt, Owning, Unsettled
  <2>9. ASSUME Unsettled(w), Gone(w) PROVE Gone(w)'
    <3>1. move[w].dst \in Path
      BY <1>1, <2>9 DEF Types, MoveRow, NoMove, Unsettled
    <3>2. syncer'.pc \notin Done
      BY <1>4 DEF SyncerLeaves, Done
    <3>3. CASE move[w].dst = p /\ fs[p] = syncer.new
      <4>1. syncer.file # move[w].sha
        BY <1>0, <1>1, <2>9, <3>3 DEF Gone, Shows, Done
      <4> QED  BY <1>1, <1>5, <2>4, <2>5, <3>2, <3>3, <4>1 DEF Gone, Shows
    <3>4. CASE ~(move[w].dst = p /\ fs[p] = syncer.new)
      <4>1. fs'[move[w].dst] = fs[move[w].dst]
        BY <1>5, <3>1, <3>4
      <4> QED  BY <1>1, <2>9, <3>2, <4>1 DEF Gone, Shows
    <3> QED  BY <3>3, <3>4
  <2> QED  BY <1>1, <1>2, <2>1, <2>2, <2>3, <2>6, <2>7, <2>8, <2>9, FileStepCalm
<1> QED  BY <1>3, <1>6, <1>7, <1>8, <1>9 DEF Inv

\* A removal deletes a file that no artifact lists.
LEMMA RemovalUnlinkKeeps ==
    ASSUME Inv, NEW w \in Work, NEW p \in Path, RemovalUnlink(w, p)
    PROVE  Inv'
<1>1. /\ Types /\ Shapes /\ Numbered /\ removal[w].status = "DELETING" /\ writing = None
      /\ UNCHANGED <<made, art, pin, job, move, pub, edit, mover, syncer, writing, phase, count>>
  BY DEF Inv, RemovalUnlink
<1>2. \A m \in Mover : MoverStays(m) /\ MoverRests(m) /\ mover[m].pc # "renamed"
  BY <1>1, NobodyRenames DEF MoverStays, MoverRests, Inv
<1>3. SyncerRests
  BY <1>1, SyncersRest DEF SyncerStays
<1>4. Journaled' /\ Publishing'
  BY <1>1, <1>2, FileStepRests
<1>5. removal' \in [Work -> RemovalRow]
  <2> DEFINE r == [removal[w] EXCEPT !.todo = @ \ {p}]
             f == [removal[w] EXCEPT !.todo = @ \ {p}, !.failed = TRUE]
  <2>1. removal[w] \in RemovalRow /\ removal[w] # NoRemoval /\ removal \in [Work -> RemovalRow]
    BY <1>1 DEF Types, NoRemoval
  <2>2. r \in RemovalRow /\ f \in RemovalRow
    BY <2>1 DEF RemovalRow
  <2>3. CASE removal' = [removal EXCEPT ![w].todo = @ \ {p}]
    <3>1. removal' = [removal EXCEPT ![w] = r]
      BY <2>3
    <3> HIDE DEF r
    <3> QED  BY <2>1, <2>2, <3>1
  <2>4. CASE removal' = [removal EXCEPT ![w].todo = @ \ {p}, ![w].failed = TRUE]
    <3>1. removal' = [removal EXCEPT ![w] = f]
      BY <2>1, <2>4
    <3> HIDE DEF f
    <3> QED  BY <2>1, <2>2, <3>1
  <2> QED  BY <2>3, <2>4 DEF RemovalUnlink
<1>6. /\ fs' \in [Path -> File \cup {None}] /\ (\A q \in Path : fs'[q] \in {fs[q], None})
      /\ fs' = fs \/ (Unreferenced(p) /\ \A q \in Path \ {p} : fs'[q] = fs[q])
  BY <1>1 DEF RemovalUnlink, Types
<1>7. /\ raced' \subseteq {"PACK", "SYNC", "UNLINK", "REMOVE"}
      /\ raced' = {} => raced = {} /\ (fs' = fs \/ \A v \in Work : Unsettled(v) => move[v].dst # p)
  BY <1>1 DEF RemovalUnlink, Types
<1>8. Types'
  BY <1>1, <1>5, <1>6, <1>7 DEF Types
<1>9. Shapes'
  BY <1>1, <1>2, StaysShaped DEF Shapes, SyncShape
<1>10. Numbered'
  <2>1. \A v \in Work : move'[v].sha \in {move[v].sha, None} /\ pub'[v] \in {pub[v], NoPub}
    BY <1>1
  <2> QED  BY <1>1, <1>2, <1>3, <1>6, <2>1, NumberedRests
<1>11. ASSUME raced' = {} PROVE Calm'
  <2>1. Calm
    BY <1>7, <1>11 DEF Inv
  <2>2. \A v \in Work : Undisturbed(v)
    <3> SUFFICES ASSUME NEW v \in Work PROVE Undisturbed(v)
      OBVIOUS
    <3>1. Published(v) => fs'[art[v].path] = fs[art[v].path]
      BY <1>1, <1>6 DEF Unreferenced, Types, ArtRow, NoArt, Published
    <3>2. Unsettled(v) => fs'[move[v].dst] = fs[move[v].dst]
      BY <1>1, <1>6, <1>7, <1>11 DEF Types, MoveRow, NoMove, Unsettled
    <3> QED  BY <1>1, <3>1, <3>2 DEF Undisturbed, Unsettled
  <2>3. (\A v \in Work : Harmless(v)) /\ CalmSyncer'
    BY <1>1, <1>3, <2>1, SyncerRestsHarmlessToAll
  <2>4. \A v \in Work : CalmAt(v)'
    BY <1>1, <2>1, <2>2, <2>3, WorkStaysCalm DEF Calm
  <2>5. \A m \in Mover : mover[m].pc \in {"prepared", "renamed"} => mover[m].w \in Work
    BY <1>1 DEF Shapes, MoverShape
  <2>6. \A m \in Mover : CalmMover(m)'
    BY <1>1, <1>2, <2>1, <2>2, <2>5, MoverStaysCalm DEF Calm, Inv
  <2> QED  BY <2>3, <2>4, <2>6 DEF Calm
<1> QED  BY <1>4, <1>8, <1>9, <1>10, <1>11 DEF Inv

\* The loss of the process between the rename of a recovery and its commit.
LEMMA CrashInRecoveryKeeps ==
    ASSUME Inv, NEW w \in Work, CrashInRecovery(w)
    PROVE  Inv'
<1> DEFINE r == move[w]
<1>1. /\ Types /\ Shapes /\ Journaled /\ Lost /\ Unsettled(w) /\ fs[r.src] = None /\ fs[r.dst] = r.sha
      /\ fs' = [fs EXCEPT ![r.src] = r.sha, ![r.dst] = None] /\ pub' = pub /\ art' = art /\ made' = made /\ raced' = raced
  BY DEF Inv, CrashInRecovery, Recoverable, Unsettled, Lost
<1>2. r.src \in Path /\ r.dst \in Path /\ r.sha \in File /\ r.sha # None
  BY <1>1, Values DEF Types, MoveRow, NoMove, Unsettled
<1>3. fs' \in [Path -> File \cup {None}] /\ \A p \in Path : fs'[p] \in {fs[p], None, r.sha}
  BY <1>1, <1>2 DEF Types
<1>4. /\ Types' /\ Shapes' /\ Journaled' /\ Publishing'
      /\ (\A m \in Mover : MoverRests(m)) /\ SyncerRests /\ \A v \in Work : MoveSame(v)
  BY <1>1, <1>3, LostEnds
<1>5. Numbered'
  <2>1. \A p \in Path : fs'[p] \in {fs[p], None} \/ Counts(fs'[p])
    BY <1>3 DEF Inv, Numbered
  <2>2. \A v \in Work : move'[v].sha \in {move[v].sha, None} /\ pub'[v] \in {pub[v], NoPub}
    BY <1>1, <1>4 DEF MoveSame
  <2> QED  BY <1>1, <1>4, <2>1, <2>2, NumberedRests DEF Inv
<1>6. ASSUME raced' = {} PROVE Calm'
  <2>1. Calm /\ CalmAt(w)
    BY <1>1, <1>6 DEF Inv, Calm
  <2>2. (\A v \in Work : Harmless(v)) /\ CalmSyncer'
    BY <1>1, <1>4, <2>1, SyncerRestsHarmlessToAll
  <2>3. /\ \A p \in Path : fs'[p] = fs[p] \/ fs[p] = None \/ fs[p].work = w
        /\ Published(w) => Keeps(art[w].path, w)' /\ art[w].path # r.dst
    BY <1>1, <2>1, PutBack
  <2>4. \A v \in Work \ {w} : Undisturbed(v)
    BY <1>1, <1>4, <2>3, OthersUndisturbed
  <2>5. MoveSame(w)
    BY <1>4
  <2>6. CalmAt(w)'
    <3>1. Apart(w)' /\ Owning(w)'
      BY <1>1, <2>1, <2>2, <2>5 DEF CalmAt, Apart, Owning, MoveSame, Harmless
    <3>2. Listed(w)'
      BY <1>1, <2>3 DEF Listed, Keeps, Published
    <3>3. Elsewhere(w)'
      BY <1>1, <2>3, <2>5 DEF Elsewhere, Keeps, Published, MoveSame
    <3> QED  BY <3>1, <3>2, <3>3 DEF CalmAt
  <2>7. \A m \in Mover : CalmMover(m)'
    BY <1>1 DEF Lost, CalmMover, Idle, Moving
  <2> QED  BY <1>1, <2>1, <2>2, <2>4, <2>6, <2>7, CalmButOne
<1> QED  BY <1>4, <1>5, <1>6 DEF Inv

-----------------------------------------------------------------------------
(* The invariant, and what it says.                                        *)

\* Every work that is in the library at the start has its own file at its own path.
LEMMA InitFiles ==
    ASSUME NEW home \in [Work -> Path \cup {None}],
           \A v, w \in Work : v # w /\ home[v] # None => home[v] # home[w],
           fs = [p \in Path |-> IF \E w \in Work : home[w] = p
                                THEN [work |-> CHOOSE w \in Work : home[w] = p, n |-> 1] ELSE None]
    PROVE  /\ \A w \in Work : home[w] # None => fs[home[w]] = [work |-> w, n |-> 1]
           /\ \A p \in Path : fs[p] # None => \E w \in Work : home[w] = p /\ fs[p] = [work |-> w, n |-> 1]
<1>1. ASSUME NEW w \in Work, home[w] # None
      PROVE  home[w] \in Path /\ fs[home[w]] = [work |-> w, n |-> 1]
  <2>1. home[w] \in Path
    BY <1>1
  <2>2. PICK v \in Work : v = CHOOSE u \in Work : home[u] = home[w]
    BY <1>1
  <2>3. home[v] = home[w]
    BY <2>2
  <2>4. v = w
    BY <1>1, <2>3
  <2>5. fs[home[w]] = [work |-> CHOOSE u \in Work : home[u] = home[w], n |-> 1]
    BY <1>1, <2>1
  <2> QED  BY <2>1, <2>2, <2>4, <2>5
<1>2. ASSUME NEW p \in Path, fs[p] # None
      PROVE  \E w \in Work : home[w] = p /\ fs[p] = [work |-> w, n |-> 1]
  <2>1. PICK w \in Work : home[w] = p
    BY <1>2
  <2>2. home[w] # None
    BY <2>1, Values
  <2> QED  BY <1>1, <2>1, <2>2
<1> QED  BY <1>1, <1>2

\* Initially every listed book is at its path, and every row is empty.
LEMMA InitInv == Init => Inv
<1> SUFFICES ASSUME Init
             PROVE  Inv
  OBVIOUS
<1>0. MaxFile \in Nat /\ 1 \in 1..MaxFile /\ 1 \in 0..MaxFile /\ 0 \in 0..MaxFile
  BY LibraryAssumption
<1>1. PICK home \in [Work -> Path \cup {None}] :
         /\ \A v, w \in Work : v # w /\ home[v] # None => home[v] # home[w]
         /\ fs = [p \in Path |-> IF \E w \in Work : home[w] = p
                                 THEN [work |-> CHOOSE w \in Work : home[w] = p, n |-> 1] ELSE None]
         /\ art = [w \in Work |-> IF home[w] = None THEN NoArt
                                  ELSE [path |-> home[w], sha |-> [work |-> w, n |-> 1]]]
         /\ made = [w \in Work |-> IF home[w] = None THEN 0 ELSE 1]
         /\ job = [w \in Work |-> IF home[w] = None THEN NoJob ELSE [NoJob EXCEPT !.state = "DONE"]]
  BY DEF Init
<1>2. \A w \in Work : home[w] # None => fs[home[w]] = [work |-> w, n |-> 1]
  BY <1>1, InitFiles
<1>3. \A p \in Path : fs[p] # None => \E w \in Work : home[w] = p /\ fs[p] = [work |-> w, n |-> 1]
  BY <1>1, InitFiles
<1>4. /\ \A w \in Work : pin[w] = None /\ move[w] = NoMove /\ pub[w] = NoPub /\ edit[w] = "NONE" /\ removal[w] = NoRemoval
      /\ \A m \in Mover : mover[m] = Idle
      /\ syncer = SyncIdle /\ writing = None /\ phase = "UP" /\ raced = {}
      /\ pin = [w \in Work |-> None] /\ move = [w \in Work |-> NoMove] /\ pub = [w \in Work |-> NoPub]
      /\ edit = [w \in Work |-> "NONE"] /\ removal = [w \in Work |-> NoRemoval]
      /\ mover = [m \in Mover |-> Idle] /\ count = [k \in DOMAIN Bounds |-> 0]
  BY DEF Init
<1>5. Types
  <2>1. \A w \in Work : [work |-> w, n |-> 1] \in File
    BY <1>0 DEF File
  <2>2. \A p \in Path : fs[p] \in File \cup {None}
    BY <1>3, <2>1
  <2>3. fs \in [Path -> File \cup {None}]
    BY <1>1, <2>2
  <2>4. made \in [Work -> 0..MaxFile]
    BY <1>0, <1>1
  <2>5. art \in [Work -> ArtRow]
    BY <1>1, <2>1 DEF ArtRow
  <2>6. job \in [Work -> JobRow]
    BY <1>1 DEF JobRow, NoJob
  <2>7. mover \in [Mover -> MoverState]
    BY <1>4 DEF MoverState, MoverPc, Idle
  <2>8. syncer \in SyncState
    BY <1>4 DEF SyncState, SyncPc, SyncIdle
  <2>9. count \in [DOMAIN Bounds -> Nat]
    BY <1>4
  <2> QED
    BY <1>4, <2>3, <2>4, <2>5, <2>6, <2>7, <2>8, <2>9 DEF Types, MoveRow, PubRow, RemovalRow
<1>6. Shapes
  BY <1>4 DEF Shapes, MoverShape, SyncShape, Idle, SyncIdle, Moving, Done
<1>7. Journaled
  BY <1>4 DEF Journaled, Idle
<1>8. Publishing
  BY <1>4 DEF Publishing
<1>9. Numbered
  <2>1. ASSUME NEW p \in Path, fs[p] # None
        PROVE  fs[p].n <= made[fs[p].work]
    <3>1. PICK w \in Work : home[w] = p /\ fs[p] = [work |-> w, n |-> 1]
      BY <1>3, <2>1
    <3>2. made[w] = 1
      BY <1>1, <3>1, Values
    <3> QED  BY <3>1, <3>2
  <2> QED
    BY <1>4, <2>1 DEF Numbered, Counts, NoMove, NoPub, Idle, SyncIdle
<1>10. Calm
  <2>1. ASSUME NEW w \in Work
        PROVE  CalmAt(w)
    <3>1. ~Unsettled(w) /\ pub[w] = NoPub
      BY <1>4 DEF Unsettled, NoMove
    <3>2. ASSUME Published(w)
          PROVE  Keeps(art[w].path, w)
      <4>1. home[w] # None /\ art[w].path = home[w]
        BY <1>1, <3>2 DEF Published, NoArt
      <4>2. fs[art[w].path] = [work |-> w, n |-> 1] /\ art[w].path \in Path
        BY <1>2, <4>1
      <4>3. fs[art[w].path] # None
        BY <1>0, <4>2, Values DEF File
      <4> QED
        BY <3>1, <4>2, <4>3, Values DEF Keeps, Owned, NoPub
    <3> QED
      BY <3>1, <3>2 DEF CalmAt, Apart, Owning, Listed, Elsewhere
  <2> QED
    BY <1>4, <2>1 DEF Calm, CalmMover, CalmSyncer, Idle, SyncIdle, Moving, Done
<1> QED
  BY <1>5, <1>6, <1>7, <1>8, <1>9, <1>10 DEF Inv

\* Every step of a move or of the recovery of one keeps the invariant ...
LEMMA MoveStepKeeps == Inv /\ MoveStep => Inv'
BY RecoverMoveKeeps, RenameBeginKeeps, RefileBeginKeeps, PinPathKeeps, MovePrepareKeeps, MoveRenameKeeps,
   MoveCommitKeeps, MoveUndoKeeps, MoveAbandonKeeps, MoveRefusedKeeps DEF MoveStep

\* ... every step of the pack queue and its worker ...
LEMMA PackStepKeeps == Inv /\ PackStep => Inv'
BY EnqueueKeeps, ClaimKeeps, PackPlanKeeps, PackPrepareKeeps, PackReplaceKeeps, PackConfirmKeeps, PackUndoKeeps,
   ReclaimKeeps, WorkerLeaveKeeps DEF PackStep

\* ... every edit and every step of a rewrite ...
LEMMA SyncStepKeeps == Inv /\ SyncStep => Inv'
BY EditKeeps, SyncBeginKeeps, SyncOpenKeeps, SyncCopyKeeps, SyncReplaceKeeps, SyncStampKeeps, SyncCommitKeeps,
   SyncRefuseKeeps, SyncRestoreKeeps DEF SyncStep

\* ... every step of a removal ...
LEMMA RemovalStepKeeps == Inv /\ RemovalStep => Inv'
BY RemoveKeeps, RemovalStoppedKeeps, RemovalUnlinkKeeps, RemovalEndKeeps DEF RemovalStep

\* ... and a step of something else.
LEMMA StutterKeeps == Inv /\ UNCHANGED vars => Inv'
<1> SUFFICES ASSUME Inv, UNCHANGED vars
             PROVE  Inv'
  OBVIOUS
<1>1. Types' = Types
  BY DEF vars, Types
<1>2. Shapes' = Shapes
  BY DEF vars, Shapes, MoverShape, SyncShape
<1>3. Journaled' = Journaled
  BY DEF vars, Journaled, Recorded
<1>4. Publishing' = Publishing
  BY DEF vars, Publishing, Published
<1>5. Numbered' = Numbered
  BY DEF vars, Numbered, Counts
<1>6. Calm' = Calm
  <2>1. \A w \in Work : CalmAt(w)' = CalmAt(w)
    BY DEF vars, CalmAt, Apart, Owning, Listed, Elsewhere, Keeps, Shows, Owned, Unsettled, Published
  <2>2. \A m \in Mover : CalmMover(m)' = CalmMover(m)
    BY DEF vars, CalmMover, Keeps, Owned, Published
  <2>3. CalmSyncer' = CalmSyncer
    BY DEF vars, CalmSyncer
  <2> QED  BY <2>1, <2>2, <2>3 DEF Calm
<1>7. raced' = raced
  BY DEF vars
<1> QED  BY <1>1, <1>2, <1>3, <1>4, <1>5, <1>6, <1>7 DEF Inv

\* So the invariant is inductive.
LEMMA StepKeeps == Inv /\ [Next]_vars => Inv'
BY MoveStepKeeps, PackStepKeeps, SyncStepKeeps, RemovalStepKeeps, CrashKeeps, CrashInRecoveryKeeps, RestartKeeps,
   StartedKeeps, StutterKeeps DEF Next

(* The invariant of the library: rows have their shapes, a live move has its
   record in the journal, a publication belongs to the worker until the process
   is lost, and as long as no file operation has met a foreign file, every listed
   book is where its records say (relocation.py, publication.py, archived.py). *)
THEOREM InvHolds == Spec => []Inv
BY InitInv, StepKeeps, PTL DEF Spec

(* The rows of the library keep their types: an artifact has a hash as long as it
   has a path, and a record of the journal both paths and the hash. *)
THEOREM TypesHold == Spec => []TypeOK
<1>1. Inv => TypeOK
  BY TypesAreTypeOK DEF Inv
<1> QED  BY <1>1, InvHolds, PTL

(* For any number of works, paths, packs, moves, rewrites, removals and losses of
   the process: a book that the library lists is only lost in one of the windows
   that `raced` names; otherwise it is at its path, at the destination of its
   unsettled move, or the backup of a publication. *)
THEOREM BooksStay == Spec => []BooksKeptUnlessRaced
<1>1. Inv => BooksKeptUnlessRaced
  <2> SUFFICES ASSUME Inv, raced = {}, NEW w \in Work, Published(w)
               PROVE  Held(w)
    BY DEF BooksKeptUnlessRaced, BooksKept
  <2>1. Listed(w)
    BY DEF Inv, Calm, CalmAt
  <2> QED  BY <2>1 DEF Listed, Keeps, Held
<1> QED  BY <1>1, InvHolds, PTL

(* Between the rename of a live move and its commit neither a recovery nor another
   mover settles its record, and its file stays at the destination
   (_relocate_sync, recover). *)
THEOREM MovesStayUndisturbed == Spec => []MoveUndisturbed
<1>1. Inv => MoveUndisturbed
  <2> SUFFICES ASSUME Inv, NEW m \in Mover, mover[m].pc = "renamed"
               PROVE  /\ move[mover[m].w].status = "PREPARED" /\ move[mover[m].w].dst = mover[m].dst
                      /\ raced = {} => Owned(fs[mover[m].dst], mover[m].w)
    BY DEF MoveUndisturbed
  <2>1. Recorded(m)
    BY DEF Inv, Journaled
  <2>2. raced = {} => Owned(fs[mover[m].dst], mover[m].w)
    BY DEF Inv, Calm, CalmMover
  <2> QED  BY <2>1, <2>2 DEF Recorded
<1> QED  BY <1>1, InvHolds, PTL

-----------------------------------------------------------------------------
(* What is removed stays removed.                                          *)

\* What a removal has looked at in this pass is gone.
Cleared(w) == removal[w].status = "DELETING" /\ ~removal[w].failed =>
    \A p \in removal[w].targets \ removal[w].todo : ~Owned(fs[p], w)
\* A work without a row is not listed; what of it is still published or moved belongs to
\* an execution that its removal is stopping.
Removed(w) ==
    /\ job[w].state = "NONE" => ~Published(w)
    /\ pub[w] # NoPub => job[w].state = "RUNNING" \/ removal[w].status = "STOPPING"
    /\ removal[w].status = "STOPPING" => removal[w].todo = removal[w].targets
    /\ raced = {} /\ job[w].state = "NONE" =>
         /\ Unsettled(w) => removal[w].status = "STOPPING" /\ move[w].worker
         /\ Cleared(w)
Removals == \A w \in Work : Removed(w)

\* A work without a row and without executions.
Out(w) == job[w].state = "NONE" /\ removal[w].status # "STOPPING"
NothingBack(w) == raced' = {} /\ Out(w) => \A p \in Path : Owned(fs'[p], w) => Owned(fs[p], w)
\* What a step that belongs to no removal does to the rows of a work.
RowsKept(w) ==
    /\ removal'[w] = removal[w]
    /\ job'[w].state = "NONE" =>
         /\ job[w].state = "NONE" /\ art'[w].path = art[w].path
         /\ Unsettled(w)' => Unsettled(w) /\ move'[w].worker = move[w].worker
    /\ pub'[w] # NoPub => job'[w].state = "RUNNING" \/ (pub[w] # NoPub /\ job[w].state # "RUNNING")
Plain == \A w \in Work : RowsKept(w) /\ NothingBack(w)

\* The ghost only grows.
LEMMA RacedGrows == [Next]_vars => (raced' = {} => raced = {})
BY ZenonT(60) DEF Next, MoveStep, PackStep, SyncStep, RemovalStep, Crash, CrashInRecovery, Restart, Started, Lost, vars,
  RecoverMove, RenameBegin, RefileBegin, PinPath, MovePrepare, MoveRename, MoveCommit, MoveUndo, MoveAbandon,
  MoveRefused, Enqueue, Claim, PackPlan, PackPrepare, PackReplace, PackFinish, Reclaim, WorkerLeave, Edit, SyncBegin,
  SyncOpen, SyncCopy, SyncReplace, SyncStamp, SyncCommit, SyncRefuse, SyncRestore, Remove, RemovalStopped,
  RemovalUnlink, RemovalEnd

\* A plain step keeps what is removed so.
LEMMA PlainKeeps ==
    ASSUME Types, NEW w \in Work, Removed(w), RowsKept(w), NothingBack(w), raced' = {} => raced = {}
    PROVE  Removed(w)'
<1>1. Cleared(w) /\ raced' = {} /\ job'[w].state = "NONE" => Cleared(w)'
  <2>1. removal[w].targets \subseteq Path
    BY DEF Types, RemovalRow, NoRemoval
  <2> QED  BY <2>1 DEF Cleared, NothingBack, RowsKept, Out
<1>2. job'[w].state = "NONE" => ~Published(w)'
  BY DEF Removed, RowsKept, Published
<1>3. pub'[w] # NoPub => job'[w].state = "RUNNING" \/ removal'[w].status = "STOPPING"
  BY DEF Removed, RowsKept
<1>4. removal'[w].status = "STOPPING" => removal'[w].todo = removal'[w].targets
  BY DEF Removed, RowsKept
<1>5. raced' = {} /\ job'[w].state = "NONE" =>
         (Unsettled(w)' => removal'[w].status = "STOPPING" /\ move'[w].worker) /\ Cleared(w)'
  BY <1>1 DEF Removed, RowsKept
<1> QED  BY <1>2, <1>3, <1>4, <1>5 DEF Removed, Cleared, Published, Unsettled

\* A step that leaves the files alone brings nothing back.
LEMMA FilesStay ==
    ASSUME fs' = fs
    PROVE  \A w \in Work : NothingBack(w)
BY DEF NothingBack

\* Nor does one that writes only a file of a work that is not out.
LEMMA OneFileBack ==
    ASSUME NEW w \in Work, NEW f, raced' = {} => f = None \/ (f.work = w /\ ~Out(w)),
           \A p \in Path : fs'[p] \in {fs[p], None, f}
    PROVE  \A v \in Work : NothingBack(v)
BY DEF NothingBack, Owned

\* The rows of the tables stay as they are.
LEMMA RowsStay ==
    ASSUME UNCHANGED <<job, art, pub, removal, move>>
    PROVE  \A w \in Work : RowsKept(w)
BY DEF RowsKept, Unsettled

\* Steps that change neither rows nor files.
LEMMA LookingIsPlain ==
    ASSUME \/ \E w \in Work, p \in Path : RenameBegin(w, p) \/ PinPath(w, p)
           \/ \E p \in Path : RefileBegin(p) \/ PackPlan(p)
           \/ \E w \in Work : Edit(w) \/ SyncBegin(w)
           \/ SyncOpen \/ SyncCopy \/ SyncRefuse
           \/ Restart \/ Started \/ UNCHANGED vars
    PROVE  Plain
<1>1. fs' = fs /\ UNCHANGED <<job, art, pub, removal, move>>
  BY DEF RenameBegin, PinPath, RefileBegin, PackPlan, Edit, SyncBegin, SyncOpen, SyncCopy, SyncRefuse, Restart, Started, vars
<1> QED  BY <1>1, FilesStay, RowsStay DEF Plain

\* Steps of the rewrite that put a file where one of the same work is.
LEMMA RewriteIsPlain ==
    ASSUME Inv, raced' = {} => raced = {}, SyncReplace \/ SyncStamp \/ SyncRestore
    PROVE  Plain
<1>1. UNCHANGED <<job, art, pub, removal, move>>
  BY DEF SyncReplace, SyncStamp, SyncRestore
<1>2. syncer.path \in Path /\ syncer.w \in Work /\ fs \in [Path -> File \cup {None}]
  BY DEF Inv, Shapes, SyncShape, Types, SyncReplace, SyncStamp, SyncRestore
<1>3. ASSUME raced' = {}, NEW w \in Work, NEW p \in Path, Owned(fs'[p], w)
      PROVE  Owned(fs[p], w)
  <2>1. CASE SyncReplace
    <3>1. CASE fs[syncer.path] # None
      <4>1. fs[syncer.path] = syncer.opened
        BY <1>3, <2>1, <3>1 DEF SyncReplace
      <4>2. fs'[p] = fs[p] \/ (p = syncer.path /\ fs'[p].work = syncer.opened.work)
        BY <1>2, <2>1, <3>1 DEF SyncReplace
      <4> QED  BY <1>3, <3>1, <4>1, <4>2 DEF Owned
    <3>2. CASE fs[syncer.path] = None
      BY <1>3, <2>1, <3>2 DEF SyncReplace
    <3> QED  BY <3>1, <3>2
  <2>2. CASE SyncStamp
    BY <1>3, <2>2 DEF SyncStamp
  <2>3. CASE SyncRestore
    <3>1. syncer.file.work = syncer.new.work /\ syncer.new # None
      BY <1>3, <2>3, Values DEF Inv, Calm, CalmSyncer, SyncRestore, Done, Shapes, SyncShape
    <3>2. fs'[p] = fs[p] \/ (p = syncer.path /\ fs[p] = syncer.new /\ fs'[p] = syncer.file)
      BY <1>2, <2>3 DEF SyncRestore
    <3> QED  BY <1>3, <3>1, <3>2 DEF Owned
  <2> QED  BY <2>1, <2>2, <2>3
<1> QED  BY <1>1, <1>3, RowsStay DEF Plain, NothingBack

\* The rewrite's commit leaves every row in its state.
LEMMA SyncCommitIsPlain ==
    ASSUME Inv, SyncCommit
    PROVE  Plain
<1>1. \A w \in Work : job'[w].state = job[w].state /\ art'[w].path = art[w].path
  BY DEF Inv, Types, SyncCommit, JobRow, ArtRow
<1>2. fs' = fs /\ UNCHANGED <<pub, removal, move>>
  BY DEF SyncCommit
<1> QED  BY <1>1, <1>2, FilesStay DEF Plain, RowsKept, Unsettled

\* The queue's steps on a row that has nothing published.
LEMMA QueueingIsPlain ==
    ASSUME Inv, NEW w \in Work,
           \/ \E kind \in {"PACK", "REFILE"}, p \in Path \cup {None} : Enqueue(w, kind, p)
           \/ Claim(w) \/ Reclaim(w)
    PROVE  Plain
<1>1. fs' = fs /\ UNCHANGED <<art, pub, removal, move>>
  BY DEF Enqueue, Claim, Reclaim
<1>5. /\ \A v \in Work \ {w} : job'[v] = job[v]
      /\ job'[w].state # "NONE"
      /\ pub[w] # NoPub => job'[w].state = "RUNNING" \/ job[w].state # "RUNNING"
  <2>1. CASE \E kind \in {"PACK", "REFILE"}, p \in Path \cup {None} : Enqueue(w, kind, p)
    BY <2>1 DEF Inv, Types, Enqueue
  <2>2. CASE Claim(w)
    BY <2>2 DEF Inv, Types, JobRow, Claim
  <2>3. CASE Reclaim(w)
    BY <2>3 DEF Inv, Types, JobRow, Reclaim
  <2> QED  BY <2>1, <2>2, <2>3
<1> QED  BY <1>1, <1>5, FilesStay DEF Plain, RowsKept, Unsettled

\* What the end of a mover does to its row: a running row is done, and nothing of it is published.
LEMMA EndsAreKept ==
    ASSUME Inv, NEW m \in Mover, mover[m].w \in Work, MoverEnds(m), m = "worker" => pub[mover[m].w] = NoPub,
           UNCHANGED <<art, pub, removal>>,
           \A v \in Work : Unsettled(v)' => Unsettled(v) /\ move'[v].worker = move[v].worker
    PROVE  \A v \in Work : RowsKept(v)
<1>1. \A v \in Work : \/ job'[v] = job[v]
                      \/ m = "worker" /\ v = mover[m].w /\ job'[v].state = "DONE"
  BY DEF Inv, Types, JobRow, MoverEnds
<1> QED  BY <1>1 DEF RowsKept

\* The recovery of a record: the file it puts back is of a work that is not out.
LEMMA RecoveredIsPlain ==
    ASSUME Inv, Removals, NEW w \in Work, Unsettled(w), Recovered(w), raced' = raced
    PROVE  /\ \A v \in Work : NothingBack(v)
           /\ \A v \in Work : Unsettled(v)' => Unsettled(v) /\ move'[v].worker = move[v].worker
<1>1. move[w].src \in Path /\ move[w].dst \in Path /\ fs \in [Path -> File \cup {None}] /\ move \in [Work -> MoveRow]
      /\ move[w] \in [status: {"PREPARED", "RECOVERY_REQUIRED"}, worker: BOOLEAN, live: BOOLEAN, src: Path, dst: Path, sha: File]
  BY DEF Inv, Types, MoveRow, Unsettled, NoMove
<1>2. \A p \in Path : fs'[p] \in {fs[p], None, move[w].sha}
  BY <1>1 DEF Recovered
<1>3. raced' = {} => move[w].sha.work = w /\ ~Out(w)
  BY DEF Inv, Calm, CalmAt, Owning, Removals, Removed, Out
<1>4. \A v \in Work : Unsettled(v)' => Unsettled(v) /\ move'[v].worker = move[v].worker
  BY <1>1 DEF Recovered, Unsettled, NoMove
<1>5. \A v \in Work : NothingBack(v)
  BY <1>2, <1>3, OneFileBack
<1> QED  BY <1>4, <1>5

\* A recovery settles the record of a work that is not out.
LEMMA RecoverMoveIsPlain ==
    ASSUME Inv, Removals, NEW w \in Work, RecoverMove(w)
    PROVE  Plain
<1>1. Unsettled(w) /\ Recovered(w) /\ UNCHANGED <<art, job, pub, removal, raced>>
  BY DEF RecoverMove, Recoverable, Unsettled
<1> QED  BY <1>1, RecoveredIsPlain DEF Plain, RowsKept

\* A move is recorded for a work that is listed, and so has a row.
LEMMA MovePrepareIsPlain ==
    ASSUME Inv, Removals, NEW m \in Mover, MovePrepare(m)
    PROVE  Plain
<1>1. PICK w \in Work : w = mover[m].w /\ mover[m].src \in Path
  BY DEF Inv, Shapes, MoverShape, Moving, MovePrepare
<1>2. job[w].state # "NONE"
  BY <1>1, Values DEF Removals, Removed, Published, MovePrepare, MoveValid
<1>3. fs' = fs /\ UNCHANGED <<art, job, pub, removal>> /\ \A v \in Work \ {w} : move'[v] = move[v]
  BY <1>1 DEF MovePrepare, Inv, Types
<1> QED  BY <1>2, <1>3, FilesStay DEF Plain, RowsKept, Unsettled

\* The file a move renames is of a listed work.
LEMMA MoveRenameIsPlain ==
    ASSUME Inv, Removals, NEW m \in Mover, MoveRename(m)
    PROVE  Plain
<1>1. PICK w \in Work : w = mover[m].w /\ mover[m].src \in Path /\ mover[m].dst \in Path
  BY DEF Inv, Shapes, MoverShape, Moving, MoveRename
<1>2. ~Out(w)
  BY <1>1, Values DEF Removals, Removed, Published, MoveRename, MoveValid, Out
<1>3. raced' = {} => mover[m].file.work = w
  BY <1>1 DEF MoveRename, Inv, Calm, CalmMover, Moving
<1>4. \A p \in Path : fs'[p] \in {fs[p], None, mover[m].file}
  BY <1>1 DEF MoveRename, Inv, Types
<1>5. \A v \in Work : NothingBack(v)
  BY <1>2, <1>3, <1>4, OneFileBack
<1>6. UNCHANGED <<art, job, pub, removal, move>>
  BY DEF MoveRename
<1> QED  BY <1>5, <1>6, RowsStay DEF Plain

\* Whoever has renamed a file has its book listed at the old path, and nothing published.
LEMMA RenamedIsListed ==
    ASSUME Inv, Removals, NEW m \in Mover, mover[m].pc = "renamed"
    PROVE  /\ mover[m].w \in Work /\ mover[m].src \in Path /\ mover[m].dst \in Path
           /\ Unsettled(mover[m].w) /\ pub[mover[m].w] = NoPub /\ job[mover[m].w].state # "NONE" /\ ~Out(mover[m].w)
           /\ raced = {} => mover[m].file.work = mover[m].w
<1>1. mover[m].w \in Work /\ mover[m].src \in Path /\ mover[m].dst \in Path
  BY DEF Inv, Shapes, MoverShape, Moving
<1>2. Unsettled(mover[m].w) /\ pub[mover[m].w] = NoPub /\ art[mover[m].w].path = mover[m].src
  BY DEF Inv, Journaled, Recorded, Unsettled
<1>3. job[mover[m].w].state # "NONE"
  BY <1>1, <1>2, Values DEF Removals, Removed, Published
<1>4. raced = {} => mover[m].file.work = mover[m].w
  BY DEF Inv, Calm, CalmMover, Moving
<1> QED  BY <1>1, <1>2, <1>3, <1>4 DEF Out

\* A commit changes the path of a listed work ...
LEMMA MoveCommitIsPlain ==
    ASSUME Inv, Removals, NEW m \in Mover, MoveCommit(m)
    PROVE  Plain
<1>1. PICK w \in Work : w = mover[m].w /\ pub[w] = NoPub /\ job[w].state # "NONE"
  BY RenamedIsListed DEF MoveCommit
<1>2. fs' = fs /\ UNCHANGED <<pub, removal>> /\ job'[w].state # "NONE"
      /\ \A v \in Work \ {w} : move'[v] = move[v] /\ job'[v] = job[v] /\ art'[v] = art[v]
  BY <1>1 DEF MoveCommit, Inv, Types, JobRow
<1> QED  BY <1>1, <1>2, FilesStay DEF Plain, RowsKept, Unsettled

\* ... an undo puts its file back ...
LEMMA MoveUndoIsPlain ==
    ASSUME Inv, Removals, NEW m \in Mover, MoveUndo(m)
    PROVE  Plain
<1>1. PICK w \in Work : w = mover[m].w /\ mover[m].src \in Path /\ mover[m].dst \in Path /\ pub[w] = NoPub /\ ~Out(w)
                        /\ Unsettled(w) /\ (raced = {} => mover[m].file.work = w)
  BY RenamedIsListed DEF MoveUndo
<1>2. MoverEnds(m) /\ raced' = raced /\ UNCHANGED <<art, pub, removal>>
  BY DEF MoveUndo
<1>3. CASE Recovered(w)
  BY <1>1, <1>2, <1>3, RecoveredIsPlain, EndsAreKept DEF Plain
<1>4. CASE ~Recovered(w)
  <2>1. /\ \A p \in Path : fs'[p] \in {fs[p], None, mover[m].file}
        /\ \A v \in Work : Unsettled(v)' => Unsettled(v) /\ move'[v].worker = move[v].worker
    BY <1>1, <1>4 DEF MoveUndo, Inv, Types, Unsettled, NoMove
  <2>2. \A v \in Work : NothingBack(v)
    BY <1>1, <1>2, <2>1, OneFileBack
  <2> QED  BY <1>1, <1>2, <2>1, <2>2, EndsAreKept DEF Plain
<1> QED  BY <1>3, <1>4

\* ... and a move that cannot be undone leaves the record.
LEMMA MoveAbandonIsPlain ==
    ASSUME Inv, Removals, NEW m \in Mover, MoveAbandon(m)
    PROVE  Plain
<1>1. mover[m].w \in Work /\ pub[mover[m].w] = NoPub
  BY RenamedIsListed DEF MoveAbandon
<1>2. fs' = fs /\ MoverEnds(m) /\ UNCHANGED <<art, pub, removal, move>>
  BY DEF MoveAbandon
<1> QED  BY <1>1, <1>2, FilesStay, EndsAreKept DEF Plain, Unsettled

\* While the worker moves or packs a book it has not begun to publish it.
LEMMA MoverHasNoPub ==
    ASSUME Inv, NEW m \in Mover, mover[m].pc \in Moving, phase = "UP"
    PROVE  mover[m].w \in Work /\ (m = "worker" => pub[mover[m].w] = NoPub)
BY DEF Inv, Shapes, MoverShape, Moving, Publishing

\* A move that is refused settles its record, and ends its row if it is a refile.
LEMMA MoveRefusedIsPlain ==
    ASSUME Inv, NEW m \in Mover, MoveRefused(m)
    PROVE  Plain
<1>1. mover[m].w \in Work /\ (m = "worker" => pub[mover[m].w] = NoPub)
  BY MoverHasNoPub DEF MoveRefused, Up, Moving
<1>2. fs' = fs /\ MoverEnds(m) /\ UNCHANGED <<art, pub, removal>>
  BY DEF MoveRefused
<1>3. \A v \in Work : Unsettled(v)' => Unsettled(v) /\ move'[v].worker = move[v].worker
  BY DEF MoveRefused, Inv, Types, Unsettled, NoMove
<1> QED  BY <1>1, <1>2, <1>3, FilesStay, EndsAreKept DEF Plain

\* The worker ends its row when nothing of it is published.
LEMMA WorkerLeaveIsPlain ==
    ASSUME Inv, WorkerLeave
    PROVE  Plain
<1>1. "worker" \in Mover /\ mover["worker"].w \in Work /\ pub[mover["worker"].w] = NoPub
  BY DEF Inv, Shapes, MoverShape, WorkerLeave, Mover
<1>2. fs' = fs /\ MoverEnds("worker") /\ UNCHANGED <<art, pub, removal, move>>
  BY DEF WorkerLeave
<1> QED  BY <1>1, <1>2, FilesStay, EndsAreKept DEF Plain, Unsettled

\* A publication begins, goes on and ends for a row that is there.
LEMMA PackPrepareIsPlain ==
    ASSUME Inv, PackPrepare
    PROVE  Plain
<1>1. PICK w \in Work : w = mover["worker"].w
  BY DEF Inv, Shapes, MoverShape, PackPrepare, Mover
<1>2. fs' = fs /\ UNCHANGED <<art, job, removal, move>> /\ job[w].state = "RUNNING" /\ \A v \in Work \ {w} : pub'[v] = pub[v]
  BY <1>1 DEF PackPrepare, Inv, Types
<1> QED  BY <1>2, FilesStay DEF Plain, RowsKept, Unsettled

\* The archive that is put in place is of a work with a running row.
LEMMA PackReplaceIsPlain ==
    ASSUME Inv, NEW w \in Work, PackReplace(w)
    PROVE  Plain
<1>1. raced' = {} => pub[w].new.work = w /\ ~Out(w)
  BY DEF PackReplace, Inv, Calm, CalmAt, Owning, Out
<1>2. \A p \in Path : fs'[p] \in {fs[p], None, pub[w].new}
  BY PubTyped DEF PackReplace, Inv, Types
<1>3. UNCHANGED <<art, job, pub, removal, move>>
  BY DEF PackReplace
<1> QED  BY <1>1, <1>2, <1>3, OneFileBack, RowsStay DEF Plain

\* A publication is undone for a work that runs or is being stopped.
LEMMA PackFinishIsPlain ==
    ASSUME Inv, Removals, NEW w \in Work, PackFinish(w)
    PROVE  Plain
<1>1. raced' = {} => (pub[w].old = None \/ pub[w].old.work = w) /\ ~Out(w)
  BY DEF PackFinish, Inv, Calm, CalmAt, Owning, Out, Removals, Removed
<1>2. \A p \in Path : fs'[p] \in {fs[p], None, pub[w].old}
  BY PubTyped DEF PackFinish, Inv, Types
<1>3. \A v \in Work : NothingBack(v)
  BY <1>1, <1>2, OneFileBack
<1>4. UNCHANGED <<removal, move>> /\ pub'[w] = NoPub
      /\ \A v \in Work \ {w} : pub'[v] = pub[v] /\ job'[v] = job[v] /\ art'[v] = art[v]
  BY DEF PackFinish, Inv, Types
<1>5. (art' = art /\ job' = job) \/ job'[w].state = "DONE"
  <2>1. CASE job[w].state = "RUNNING" /\ fs[pub[w].dst] = pub[w].new
    <3>1. job' = [job EXCEPT ![w].state = "DONE", ![w].bound = FALSE]
      BY <2>1 DEF PackFinish
    <3>2. job \in [Work -> JobRow]
      BY DEF Inv, Types
    <3> QED  BY <3>1, <3>2 DEF JobRow
  <2>2. CASE ~(job[w].state = "RUNNING" /\ fs[pub[w].dst] = pub[w].new)
    BY <2>2 DEF PackFinish
  <2> QED  BY <2>1, <2>2
<1> QED  BY <1>3, <1>4, <1>5 DEF Plain, RowsKept, Unsettled

\* At the end of a removal that was not queued again, nothing of its manifest is left.
FinalAt(w) ==
    raced' = {} /\ removal[w].status = "DELETING" /\ removal'[w] = NoRemoval /\ job'[w].state = "NONE"
      => \A p \in removal[w].targets : ~Owned(fs'[p], w)
Final == Removals' /\ \A w \in Work : FinalAt(w) /\ NothingBack(w)

\* A plain step ends no removal.
LEMMA PlainIsFinal ==
    ASSUME Inv, Removals, Plain, raced' = {} => raced = {}
    PROVE  Final
<1>1. Removals'
  BY PlainKeeps DEF Inv, Removals, Plain
<1>2. \A w \in Work : FinalAt(w)
  BY DEF Plain, RowsKept, FinalAt, NoRemoval
<1> QED  BY <1>1, <1>2 DEF Plain, Final

\* A step of the removal of w leaves the other works alone.
LEMMA OneRemoval ==
    ASSUME Inv, Removals, NEW w \in Work, raced' = {} => raced = {},
           \A p \in Path : fs'[p] \in {fs[p], None}, UNCHANGED <<pub, move>>,
           \A v \in Work \ {w} : art'[v] = art[v] /\ job'[v] = job[v] /\ removal'[v] = removal[v],
           Removed(w)', FinalAt(w)
    PROVE  Final
<1>1. \A v \in Work : NothingBack(v)
  BY DEF NothingBack, Owned
<1>2. \A v \in Work \ {w} : RowsKept(v)
  BY DEF RowsKept, Unsettled
<1>3. \A v \in Work \ {w} : Removed(v)'
  BY <1>1, <1>2, PlainKeeps DEF Inv, Removals
<1>4. \A v \in Work \ {w} : FinalAt(v)
  BY DEF FinalAt, NoRemoval
<1> QED  BY <1>1, <1>3, <1>4 DEF Final, Removals

\* A removal begins: the row goes, and what runs is to be stopped.
LEMMA RemoveIsFinal ==
    ASSUME Inv, Removals, NEW w \in Work, Remove(w)
    PROVE  Final
<1>1. PICK t \in SUBSET Path, status \in {"STOPPING", "DELETING"} :
         /\ job[w].state = "RUNNING" => status = "STOPPING"
         /\ removal' = [removal EXCEPT ![w] = [status |-> status, targets |-> t, todo |-> t, failed |-> FALSE]]
  <2>1. {art[w].path, pin[w]} \ {None} \in SUBSET Path
    BY DEF Inv, Types, ArtRow, NoArt
  <2> QED  BY <2>1 DEF Remove
<1>2. removal'[w].status = status /\ removal'[w].targets = t /\ removal'[w].todo = t /\ removal[w].status = "NONE"
      /\ \A v \in Work \ {w} : removal'[v] = removal[v]
  BY <1>1 DEF Inv, Types, Remove, NoRemoval
<1>3. /\ fs' = fs /\ UNCHANGED <<pub, move>> /\ art'[w].path = None /\ job'[w].state = "NONE"
      /\ \A v \in Work \ {w} : art'[v] = art[v] /\ job'[v] = job[v]
  BY DEF Inv, Types, Remove, Unlisted, NoArt, NoJob
<1>4. /\ raced' = {} => raced = {}
      /\ raced' = {} /\ Unsettled(w) => move[w].worker /\ job[w].state = "RUNNING"
  BY DEF Remove, Removable
<1>5. pub[w] # NoPub => job[w].state = "RUNNING"
  BY <1>2 DEF Removals, Removed
<1>6. Removed(w)'
  BY <1>1, <1>2, <1>3, <1>4, <1>5 DEF Removed, Published, Unsettled, Cleared
<1>7. FinalAt(w)
  BY <1>2 DEF FinalAt
<1> QED  BY <1>2, <1>3, <1>4, <1>6, <1>7, OneRemoval

\* It deletes only after every execution and journal of the work has ended.
LEMMA RemovalStoppedIsFinal ==
    ASSUME Inv, Removals, NEW w \in Work, RemovalStopped(w)
    PROVE  Final
<1>1. /\ UNCHANGED <<fs, art, job, pub, move, raced>> /\ pub[w] = NoPub /\ ~(Unsettled(w) /\ move[w].worker)
      /\ removal[w].status = "STOPPING"
  BY DEF RemovalStopped
<1>2. /\ removal'[w].status = "DELETING" /\ removal'[w].targets = removal[w].targets /\ removal'[w].todo = removal[w].todo
      /\ \A v \in Work \ {w} : removal'[v] = removal[v]
  BY DEF RemovalStopped, Inv, Types, RemovalRow, NoRemoval
<1>3. Removed(w)'
  BY <1>1, <1>2 DEF Removals, Removed, Published, Unsettled, Cleared
<1>4. FinalAt(w)
  BY <1>1 DEF FinalAt
<1> QED  BY <1>1, <1>2, <1>3, <1>4, OneRemoval

\* It looks at one path of its manifest after the other.
LEMMA RemovalUnlinkIsFinal ==
    ASSUME Inv, Removals, NEW w \in Work, NEW p \in Path, RemovalUnlink(w, p)
    PROVE  Final
<1>1. /\ UNCHANGED <<art, job, pub, move>> /\ removal[w].status = "DELETING" /\ w \in DOMAIN removal
      /\ raced' = {} => raced = {}
  BY DEF RemovalUnlink, Inv, Types
<1>2. /\ \A v \in Work \ {w} : removal'[v] = removal[v]
      /\ removal'[w].status = "DELETING" /\ removal'[w].targets = removal[w].targets /\ removal'[w].todo = removal[w].todo \ {p}
  BY <1>1 DEF RemovalUnlink, Inv, Types, RemovalRow, NoRemoval
<1>3. \/ fs'[p] = None /\ removal'[w].failed = removal[w].failed
      \/ fs' = fs /\ removal'[w].failed
  <2>1. removal \in [Work -> RemovalRow] /\ fs \in [Path -> File \cup {None}]
    BY DEF Inv, Types
  <2>2. CASE Unreferenced(p)
    <3>1. fs' = [fs EXCEPT ![p] = None] /\ removal' = [removal EXCEPT ![w].todo = @ \ {p}]
      BY <2>2 DEF RemovalUnlink
    <3> QED  BY <2>1, <3>1 DEF RemovalRow, NoRemoval
  <2>3. CASE ~Unreferenced(p)
    <3>1. fs' = fs /\ removal' = [removal EXCEPT ![w].todo = @ \ {p}, ![w].failed = TRUE]
      BY <2>3 DEF RemovalUnlink
    <3> QED  BY <2>1, <3>1 DEF RemovalRow, NoRemoval
  <2> QED  BY <2>2, <2>3
<1>4. fs' = fs \/ (fs'[p] = None /\ \A q \in Path \ {p} : fs'[q] = fs[q])
  BY DEF RemovalUnlink, Inv, Types
<1>5. Cleared(w) => Cleared(w)'
  <2>1. removal[w].targets \subseteq Path
    BY DEF Inv, Types, RemovalRow, NoRemoval
  <2> QED  BY <1>1, <1>2, <1>3, <1>4, <2>1 DEF Cleared, Owned
<1>6. Removed(w)'
  BY <1>1, <1>2, <1>5 DEF Removals, Removed, Published, Unsettled, Cleared
<1>7. FinalAt(w)
  BY <1>2 DEF FinalAt, NoRemoval
<1> QED  BY <1>1, <1>2, <1>4, <1>6, <1>7, OneRemoval

\* A removal ends only when all of its manifest has been looked at and nothing failed.
LEMMA RemovalEndIsFinal ==
    ASSUME Inv, Removals, NEW w \in Work, RemovalEnd(w)
    PROVE  Final
<1>1. /\ UNCHANGED <<fs, art, job, pub, move, raced>> /\ removal[w].status = "DELETING" /\ removal[w].todo = {}
  BY DEF RemovalEnd
<1>2. \A v \in Work \ {w} : removal'[v] = removal[v]
  BY DEF RemovalEnd, Inv, Types
<1>3. \/ removal'[w].status = "DELETING" /\ removal'[w].todo = removal'[w].targets
      \/ ~removal[w].failed /\ removal'[w] = NoRemoval
  <2>1. CASE removal[w].failed
    <3>1. removal' = [removal EXCEPT ![w].todo = removal[w].targets, ![w].failed = FALSE]
      BY <2>1 DEF RemovalEnd
    <3>2. removal \in [Work -> RemovalRow]
      BY DEF Inv, Types
    <3> QED  BY <1>1, <3>1, <3>2 DEF RemovalRow, NoRemoval
  <2>2. CASE ~removal[w].failed
    BY <2>2 DEF RemovalEnd, Inv, Types
  <2> QED  BY <2>1, <2>2
<1>4. Removed(w)'
  BY <1>1, <1>3 DEF Removals, Removed, Published, Unsettled, Cleared, NoRemoval
<1>5. FinalAt(w)
  BY <1>1, <1>3 DEF FinalAt, NoRemoval, Removals, Removed, Cleared
<1> QED  BY <1>1, <1>2, <1>4, <1>5, OneRemoval

\* After a loss of the process every removal looks at its whole manifest again.
LEMMA LostIsFinal ==
    ASSUME Inv, Removals, Lost, \A w \in Work : NothingBack(w)
    PROVE  Final
<1>1. ASSUME NEW w \in Work
      PROVE  /\ removal'[w].status = removal[w].status /\ removal'[w].targets = removal[w].targets
             /\ removal'[w].todo = removal'[w].targets
             /\ Unsettled(w)' = Unsettled(w) /\ move'[w].worker = move[w].worker
             /\ art' = art /\ job' = job /\ pub' = pub /\ raced' = raced
  <2>1. removal \in [Work -> RemovalRow] /\ move \in [Work -> MoveRow]
    BY DEF Inv, Types
  <2>2. removal'[w] = [removal[w] EXCEPT !.todo = removal[w].targets, !.failed = FALSE]
    BY DEF Lost
  <2>3. move'[w] = [move[w] EXCEPT !.live = FALSE]
    BY DEF Lost
  <2>4. /\ removal'[w].status = removal[w].status /\ removal'[w].targets = removal[w].targets
        /\ removal'[w].todo = removal'[w].targets
    BY <2>1, <2>2 DEF RemovalRow, NoRemoval
  <2>5. move'[w].status = move[w].status /\ move'[w].worker = move[w].worker
    BY <2>1, <2>3 DEF MoveRow, NoMove
  <2> QED  BY <2>4, <2>5 DEF Lost, Unsettled
<1>2. Removals'
  BY <1>1 DEF Removals, Removed, Published, Cleared, Unsettled
<1>3. \A w \in Work : FinalAt(w)
  BY <1>1 DEF FinalAt, NoRemoval
<1> QED  BY <1>2, <1>3 DEF Final

\* The loss of the process brings nothing back ...
LEMMA CrashIsFinal ==
    ASSUME Inv, Removals, Crash
    PROVE  Final
BY FilesStay, LostIsFinal DEF Crash

\* ... also between the rename of a recovery and its commit.
LEMMA CrashInRecoveryIsFinal ==
    ASSUME Inv, Removals, NEW w \in Work, CrashInRecovery(w)
    PROVE  Final
<1>1. Lost /\ Unsettled(w) /\ raced' = raced
  BY DEF CrashInRecovery, Lost, Recoverable, Unsettled
<1>2. move[w].src \in Path /\ move[w].dst \in Path /\ fs \in [Path -> File \cup {None}]
  BY <1>1 DEF Inv, Types, MoveRow, Unsettled, NoMove
<1>3. \A p \in Path : fs'[p] \in {fs[p], None, move[w].sha}
  BY <1>2 DEF CrashInRecovery
<1>4. raced' = {} => move[w].sha.work = w /\ ~Out(w)
  BY <1>1 DEF Inv, Calm, CalmAt, Owning, Removals, Removed, Out
<1>5. \A v \in Work : NothingBack(v)
  BY <1>3, <1>4, OneFileBack
<1> QED  BY <1>1, <1>5, LostIsFinal

\* So every step keeps what removals rely on, and brings no file of a removed work back.
LEMMA StepIsFinal ==
    ASSUME Inv, Removals, [Next]_vars
    PROVE  Final
<1>1. raced' = {} => raced = {}
  BY RacedGrows
<1>2. CASE MoveStep
  <2>1. Plain
    BY <1>2, LookingIsPlain, RecoverMoveIsPlain, MovePrepareIsPlain, MoveRenameIsPlain, MoveCommitIsPlain, MoveUndoIsPlain,
       MoveAbandonIsPlain, MoveRefusedIsPlain DEF MoveStep
  <2> QED  BY <1>1, <2>1, PlainIsFinal
<1>3. CASE PackStep
  <2>1. Plain
    BY <1>3, LookingIsPlain, QueueingIsPlain, PackPrepareIsPlain, PackReplaceIsPlain, PackFinishIsPlain,
       WorkerLeaveIsPlain DEF PackStep
  <2> QED  BY <1>1, <2>1, PlainIsFinal
<1>4. CASE SyncStep
  <2>1. Plain
    BY <1>1, <1>4, LookingIsPlain, RewriteIsPlain, SyncCommitIsPlain DEF SyncStep
  <2> QED  BY <1>1, <2>1, PlainIsFinal
<1>5. CASE RemovalStep
  BY <1>5, RemoveIsFinal, RemovalStoppedIsFinal, RemovalUnlinkIsFinal, RemovalEndIsFinal DEF RemovalStep
<1>6. CASE Restart \/ Started \/ UNCHANGED vars
  BY <1>1, <1>6, LookingIsPlain, PlainIsFinal
<1> QED  BY <1>2, <1>3, <1>4, <1>5, <1>6, CrashIsFinal, CrashInRecoveryIsFinal DEF Next

\* Initially a work without a row is not listed, and nothing is going on.
LEMMA InitRemovals == Init => Removals
<1> SUFFICES ASSUME Init, NEW w \in Work
             PROVE  Removed(w)
  BY DEF Removals
<1>1. pub[w] = NoPub /\ move[w] = NoMove /\ removal[w] = NoRemoval
  BY DEF Init
<1>2. job[w].state = "NONE" => ~Published(w)
  BY DEF Init, NoJob, NoArt, Published
<1> QED  BY <1>1, <1>2 DEF Removed, Cleared, Unsettled, NoMove, NoRemoval

(* What each removal relies on: while it deletes the files of a work without a
   row, no execution, publication or journal of that work is left, unless a file
   operation has met a foreign file (_begin_removal_sync, _removal_stopped_sync). *)
THEOREM RemovalsHold == Spec => []Removals
<1>1. Inv /\ Removals /\ [Next]_vars => Removals'
  BY StepIsFinal DEF Final
<1> QED  BY <1>1, InitRemovals, InvHolds, PTL DEF Spec

(* For any number of works and paths, also after crashes and retries: a removal ends with
   no file of its manifest left, unless the work was queued again, and no
   journal, publication or rewrite brings a file of a removed work back later. *)
THEOREM RemovalStaysFinal == Spec => RemovalIsFinal
<1> DEFINE A == \A w \in Work : raced' = {} =>
         /\ removal[w].status = "DELETING" /\ removal'[w] = NoRemoval /\ job'[w].state = "NONE"
              => \A p \in removal[w].targets : ~Owned(fs'[p], w)
         /\ job[w].state = "NONE" /\ removal[w] = NoRemoval
              => \A p \in Path : Owned(fs'[p], w) => Owned(fs[p], w)
<1>1. Inv /\ Removals /\ [Next]_vars => [A]_vars
  BY StepIsFinal DEF Final, FinalAt, NothingBack, Out, NoRemoval
<1> QED  BY <1>1, InvHolds, RemovalsHold, PTL DEF Spec, RemovalIsFinal
=============================================================================
