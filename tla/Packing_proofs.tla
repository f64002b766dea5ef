--------------------------- MODULE Packing_proofs ---------------------------
(***************************************************************************)
(* Packing: proofs of its safety properties, for any set of contents and   *)
(* any bounds that PackingAssumption allows.                               *)
(*                                                                         *)
(* The argument.  The journal has at most one record that is not settled.  *)
(* While no other program touches the library, the archive that record     *)
(* remembers is the artifact, the file in the library is that archive or   *)
(* the new one, and when it is the new one the old can be restored         *)
(* (LibraryKnown).  What makes this inductive is where the processes are:  *)
(* a recovery is never at a record that is still being executed (Apart);   *)
(* whoever is about to replace the file does so for a record that is still *)
(* prepared, and whoever finishes for a valid execution has the new        *)
(* archive in place (Safe); the recoveries of a stop and of a reclaim      *)
(* cover every prepared record of their task (Bound), so that the row gets *)
(* its next state only with nothing prepared (StillIsSettled).             *)
(*                                                                         *)
(* Steps are described by relations (RowMoves, CopiesOf, Moved, SamePlan): *)
(* one lemma per relation keeps the invariant for the processes that do    *)
(* not move, one lemma per action shows the one that does.                 *)
(***************************************************************************)
EXTENDS Packing, TLAPS

-----------------------------------------------------------------------------
(* The inductive invariant. *)

JobType == [state : JobState, task : 0..MaxTask, attempt : 0..MaxAttempt, input : 0..MaxVersion]
IntentType == [version : 0..MaxVersion, status : {"NONE", "UNREQUESTED", "READY", "QUEUED"}]

Types ==
    /\ job \in JobType
    /\ pub \in [Attempt -> PubType]
    /\ dest \in Bytes /\ artifact \in Content \union {None}
    /\ staged \in [Attempt -> Content \union {None}]
    /\ backup \in [Attempt -> Bytes]
    /\ linked \subseteq Attempt /\ source \subseteq Version
    /\ intent \in IntentType
    /\ proc \in [Actor -> ProcType]
    /\ stop \in BOOLEAN /\ phase \in {"up", "stopping", "down"} /\ touched \in 0..MaxTouch

Settled == {"COMMITTED", "ROLLED_BACK"}
Over == {"COMPLETED", "FAILED", "STOPPING", "CANCELLED"}
Still == {"PENDING", "PAUSED", "WAITING", "CANCELLED"}
Before == {"packing", "staged", "backed", "changed"}
Filed == {"replace", "finish", "cleanup"}

Prepared(a) == pub[a].status = "PREPARED"

\* The row and the journal.
Row ==
    /\ job.state # "NONE" => job.input # 0
    /\ job.attempt # 0 => job.state # "NONE"
    /\ intent.status # "NONE" => intent.version # 0

Journal ==
    \A a \in Attempt : pub[a].status # "NONE" =>
        /\ a <= job.attempt /\ pub[a].task <= job.task /\ pub[a].new \in Content

OneUnsettled ==
    \A a, b \in Attempt : pub[a].status \in Unsettled /\ pub[b].status \in Unsettled => a = b

CommittedIsOver ==
    \A a \in Attempt : pub[a].status = "COMMITTED" =>
        /\ pub[a].task = job.task => a = job.attempt /\ job.state \in Over
        /\ a = job.attempt => job.state # "RUNNING"

\* One process, by where it is.
Duties(x) ==
    /\ proc[x].pc = "idle" => proc[x].duty = "none"
    /\ x = "worker" => proc[x].duty \in {"none", "publish", "leave"}
    /\ x # "worker" => proc[x].duty \notin {"publish", "leave"}
    /\ proc[x].duty = "none" => proc[x].pc = "idle"
    /\ proc[x].pc \in Before \union {"failed", "leaving"} => proc[x].duty = "publish"
    /\ proc[x].pc \in {"select", "next"} => proc[x].duty # "publish"
    /\ proc[x].pc = "select" => proc[x].duty # "files"
    /\ x = "worker" /\ proc[x].pc # "idle" => job.attempt # 0 /\ proc[x].task <= job.task
    /\ proc[x].duty = "publish" => proc[x].at = job.attempt

Places(x) ==
    /\ proc[x].pc \in Filed => proc[x].at \in Attempt /\ pub[proc[x].at].status # "NONE"
    /\ proc[x].pc = "cleanup" => pub[proc[x].at].status \in Settled
    /\ x # "worker" /\ proc[x].at # 0 => pub[proc[x].at].status # "NONE"
    /\ \A a \in proc[x].todo : pub[a].status # "NONE"
    /\ proc[x].pc \in Before => pub[job.attempt].status = "NONE"
    /\ proc[x].pc \in {"staged", "backed", "changed"} => staged[job.attempt] \in Content

\* As long as no other program touched the file.
NoneAsked == \A a \in Attempt : pub[a].status # "RECOVERY_REQUIRED"

LibraryKnown ==
    /\ (\A a \in Attempt : ~Prepared(a)) => dest = artifact
    /\ \A a \in Attempt : Prepared(a) =>
        /\ pub[a].old = artifact
        /\ dest = pub[a].old \/ dest = pub[a].new
        /\ dest # pub[a].old => staged[a] = None /\ Restorable(a)
        /\ staged[a] = pub[a].new => Restorable(a)

NothingPrepared(t) == \A a \in Attempt : pub[a].task = t => ~Prepared(a)
StillIsSettled == job.state \in Still => NothingPrepared(job.task)

\* A process is at a record that is still being executed only as the one that executes it.
Apart(x) ==
    x # "worker" => \A a \in Attempt :
        pub[a].status # "NONE" /\ (a \in proc[x].todo \/ a = proc[x].at
                                   \/ (proc[x].duty \in {"reclaim", "stop"} /\ pub[a].task = proc[x].task))
            => ~Active(a)

Bound(x) ==
    /\ proc[x].duty # "retry" /\ proc[x].pc # "changed"
    /\ proc[x].pc = "backed" => backup[job.attempt] = proc[x].old
    /\ proc[x].pc \in Before /\ proc[x].task = job.task =>
        NothingPrepared(job.task) /\ job.state \notin {"PENDING", "PAUSED", "WAITING"}
    /\ proc[x].duty = "stop" => job.state = "STOPPING" /\ job.task = proc[x].task /\ Worker.pc = "idle"
    /\ proc[x].duty = "reclaim" =>
        /\ proc[x].task <= job.task
        /\ job.task = proc[x].task => Worker.pc = "idle" /\ job.state \in Over \union {"RUNNING"}
    /\ proc[x].duty \in {"stop", "reclaim"} /\ proc[x].pc # "select" =>
        \A a \in Attempt : Prepared(a) /\ pub[a].task = proc[x].task =>
            a \in proc[x].todo \/ (proc[x].at = a /\ proc[x].pc \in {"replace", "finish"})

\* Whoever is about to replace the file does so for a record that is still prepared, and
\* whoever finishes for an execution that is not over has the new archive in place.
Safe(x) ==
    LET a == proc[x].at IN
    /\ proc[x].pc = "replace" /\ Eligible(x, a) /\ staged[a] = pub[a].new => Prepared(a)
    /\ proc[x].pc = "finish" /\ Prepared(a) /\ Eligible(x, a) => dest = pub[a].new \/ staged[a] # pub[a].new

OneRecovery ==
    \A x, y \in Actor :
        \/ proc[x].duty \in {"files", "reclaim"} /\ proc[y].duty \in {"files", "reclaim"}
        \/ proc[x].duty = "stop" /\ proc[y].duty = "stop"
        => x = y

Always == Row /\ Journal /\ OneUnsettled /\ CommittedIsOver /\ \A x \in Actor : Duties(x) /\ Places(x)
Calmly ==
    touched = 0 =>
        /\ NoneAsked /\ LibraryKnown /\ StillIsSettled
        /\ \A x \in Actor : Apart(x) /\ Bound(x) /\ Safe(x)
Inv == Types /\ OneRecovery /\ Always /\ Calmly

-----------------------------------------------------------------------------
(* Steps in terms of relations between the old and the new state. *)

Moved(x) ==
    /\ proc' \in [Actor -> ProcType]
    /\ \A y \in Actor : y # x => proc'[y] = proc[y]
SamePlan(x) ==
    /\ proc'[x].duty = proc[x].duty /\ proc'[x].task = proc[x].task /\ proc'[x].at = proc[x].at
    /\ proc'[x].todo = proc[x].todo /\ proc'[x].old = proc[x].old

\* What the types say of single processes and records.
LEMMA RecordFacts ==
    /\ \A x \in Actor : Types => proc[x] \in ProcType
    /\ \A a \in Attempt : Types => pub[a] \in PubType
    /\ "worker" \in Actor
    /\ Keeper \subseteq Actor
    /\ \A x \in Keeper : x # "worker"
    /\ \A x \in Actor : x # "worker" => x \in Keeper
    /\ 0 \notin Attempt
<1> USE PackingAssumption
<1>1. \A x \in Actor : Types => proc[x] \in ProcType
    BY DEF Types
<1>2. \A a \in Attempt : Types => pub[a] \in PubType
    BY DEF Types
<1>3. "worker" \in Actor /\ Keeper \subseteq Actor /\ \A x \in Actor : x # "worker" => x \in Keeper
    BY DEF Actor
<1>4. \A x \in Keeper : x # "worker"
    OBVIOUS
<1>5. 0 \notin Attempt
    BY DEF Attempt
<1> QED BY <1>1, <1>2, <1>3, <1>4, <1>5

\* The values of a process at rest.
LEMMA RestingTyped == Resting \in ProcType /\ Resting.pc = "idle" /\ Resting.duty = "none"
                      /\ Resting.at = 0 /\ Resting.todo = {} /\ Resting.task = 0
BY PackingAssumption DEF Resting, ProcType, Pc, Duty, Bytes

\* Writing one process.
LEMMA PutProc ==
    ASSUME Types, NEW x \in Actor, NEW r \in ProcType, proc' = [proc EXCEPT ![x] = r]
    PROVE  Moved(x) /\ proc'[x] = r
BY DEF Types, Moved

\* A process goes to another place with the same plan.
LEMMA ToMoves ==
    ASSUME Types, NEW x \in Actor, NEW p \in Pc, To(x, p)
    PROVE  Moved(x) /\ SamePlan(x) /\ proc'[x].pc = p
<1> DEFINE q == proc[x]
           r == [q EXCEPT !.pc = p]
<1>1. proc' = [proc EXCEPT ![x] = r]
    BY DEF To
<1>2. q \in ProcType
    BY DEF Types
<1> HIDE DEF q
<1>3. r \in ProcType /\ r.pc = p /\ r.duty = q.duty /\ r.task = q.task /\ r.at = q.at /\ r.todo = q.todo
        /\ r.old = q.old
    BY <1>2 DEF ProcType
<1> HIDE DEF r
<1>4. Moved(x) /\ proc'[x] = r
    BY <1>1, <1>3, PutProc
<1> QED BY <1>3, <1>4 DEF SamePlan, q

\* A process comes to rest.
LEMMA RestMoves ==
    ASSUME Types, NEW x \in Actor, Rest(x)
    PROVE  Moved(x) /\ proc'[x] = Resting
BY RestingTyped, PutProc DEF Rest

\* Writing the state of the row.
LEMMA StateTo ==
    ASSUME Types, NEW s \in JobState, SetState(s)
    PROVE  /\ job' \in JobType /\ job'.state = s
           /\ job'.task = job.task /\ job'.attempt = job.attempt /\ job'.input = job.input
BY DEF Types, SetState, JobType

-----------------------------------------------------------------------------
(* A step that leaves the journal and the files alone. *)

\* What the others may rely on: the row goes to its next state as the loops and commands may move it.
RowMoves(movers) ==
    /\ job' \in JobType /\ job'.attempt = job.attempt /\ job.task <= job'.task
    /\ job.state # "NONE" => job'.state # "NONE"
    /\ job'.state # "NONE" => job'.input # 0
    /\ job'.state = "RUNNING" => job.state = "RUNNING" /\ job'.task = job.task
    /\ job'.task = job.task => \A a \in Attempt : pub[a].status = "COMMITTED" /\ pub[a].task = job.task =>
                                   job'.state \in Over
    /\ touched = 0 => /\ job'.state \in Still => NothingPrepared(job'.task)
                      /\ \A y \in Actor \ movers :
                            /\ proc[y].duty = "stop" => job'.state = "STOPPING" /\ job'.task = job.task
                            /\ proc[y].duty = "reclaim" /\ job'.task = proc[y].task =>
                                    job'.state \in Over \union {"RUNNING"}
                            /\ proc[y].pc \in Before /\ job'.task = proc[y].task =>
                                    job'.state \notin {"PENDING", "PAUSED", "WAITING"}

Calm0 == UNCHANGED <<pub, dest, staged, backup, linked, artifact, touched>>

\* The worker does not begin, and its cancel is not taken back.
WorkerGoesOn ==
    /\ Worker.pc = "idle" => proc'["worker"].pc = "idle"
    /\ stop' \in BOOLEAN /\ (stop /\ proc'["worker"].pc # "idle" => stop')

MoverFine(x) ==
    /\ Duties(x)' /\ Places(x)'
    /\ touched = 0 => Apart(x)' /\ Bound(x)' /\ Safe(x)'

\* A step of the row and the processes of X leaves what is said of the other processes.
LEMMA OthersKeep ==
    ASSUME Inv, NEW X, RowMoves(X), Calm0, WorkerGoesOn, NEW y \in Actor \ X, proc'[y] = proc[y]
    PROVE  MoverFine(y)
<1> USE RecordFacts
<1>0. job \in JobType /\ job' \in JobType /\ proc[y] \in ProcType /\ Worker \in ProcType
    BY DEF Inv, Types, RowMoves, Worker
<1>1. Duties(y) /\ Places(y) /\ (touched = 0 => Apart(y) /\ Bound(y) /\ Safe(y))
    BY DEF Inv, Always, Calmly
<1>2. Duties(y)'
    BY <1>0, <1>1 DEF Duties, RowMoves, JobType, ProcType
<1>3. Places(y)'
    BY <1>0, <1>1 DEF Places, RowMoves, Calm0
<1>4. ASSUME touched = 0 PROVE Apart(y)' /\ Bound(y)' /\ Safe(y)'
  <2>1. \A a \in Attempt : Active(a)' => Active(a)
    BY DEF Active, Worker, WorkerGoesOn, RowMoves
  <2>2. Apart(y)'
    BY <2>1, <1>4, <1>1 DEF Apart, Calm0
  <2>3. proc[y].pc # "idle" => \A a : Eligible(y, a)' => Eligible(y, a)
    <3>1. CASE y = "worker"
      BY <3>1, <1>1, <1>4 DEF Eligible, RowMoves, WorkerGoesOn, Duties
    <3>2. CASE y # "worker"
      BY <3>2 DEF Eligible, RowMoves
    <3> QED BY <3>1, <3>2
  <2>4. Safe(y)'
    BY <2>3, <1>4, <1>1 DEF Safe, Calm0, Prepared
  <2>5. Worker.pc = "idle" => (Worker.pc)' = "idle"
    BY DEF WorkerGoesOn, Worker
  <2>6. proc[y].pc \in Before /\ proc[y].task = job'.task =>
          /\ job'.state \notin {"PENDING", "PAUSED", "WAITING"}
          /\ \A a \in Attempt : pub[a].task = job'.task => pub[a].status # "PREPARED"
    <3>1. SUFFICES ASSUME proc[y].pc \in Before, proc[y].task = job'.task
                   PROVE  /\ job'.state \notin {"PENDING", "PAUSED", "WAITING"}
                          /\ \A a \in Attempt : pub[a].task = job'.task => pub[a].status # "PREPARED"
      OBVIOUS
    <3>2. y = "worker" /\ proc[y].task <= job.task
      BY <3>1, <1>1 DEF Duties, Before
    <3>3. job.task = job'.task
      BY <3>1, <3>2, <1>0 DEF RowMoves, JobType, ProcType
    <3> QED BY <3>1, <3>3, <1>1, <1>4 DEF Bound, NothingPrepared, Prepared, RowMoves
  <2>7. proc[y].duty = "stop" => job'.state = "STOPPING" /\ job'.task = proc[y].task /\ (Worker.pc)' = "idle"
    BY <2>5, <1>1, <1>4 DEF Bound, RowMoves
  <2>8. proc[y].duty = "reclaim" =>
        /\ proc[y].task <= job'.task
        /\ job'.task = proc[y].task => (Worker.pc)' = "idle" /\ job'.state \in Over \union {"RUNNING"}
    <3> SUFFICES ASSUME proc[y].duty = "reclaim"
                 PROVE  /\ proc[y].task <= job'.task
                        /\ job'.task = proc[y].task => (Worker.pc)' = "idle" /\ job'.state \in Over \union {"RUNNING"}
        OBVIOUS
    <3>1. proc[y].task <= job'.task
      BY <1>0, <1>1, <1>4 DEF Bound, RowMoves, JobType, ProcType
    <3>2. ASSUME job'.task = proc[y].task PROVE job.task = proc[y].task
      BY <3>2, <1>0, <1>1, <1>4 DEF Bound, RowMoves, JobType, ProcType
    <3> QED BY <3>1, <3>2, <2>5, <1>1, <1>4 DEF Bound, RowMoves
  <2>9. Bound(y)'
    BY <2>6, <2>7, <2>8, <1>1, <1>4 DEF Bound, Calm0, Prepared, NothingPrepared, RowMoves
  <2> QED BY <2>2, <2>4, <2>9
<1> QED BY <1>2, <1>3, <1>4 DEF MoverFine

\* A step of the row keeps what is said of row, journal and library.
LEMMA RowKeeps ==
    ASSUME Inv, NEW X, RowMoves(X), Calm0
    PROVE  /\ (job.state # "NONE" => job.input # 0)' /\ (job.attempt # 0 => job.state # "NONE")'
           /\ Journal' /\ OneUnsettled' /\ CommittedIsOver'
           /\ touched = 0 => NoneAsked' /\ LibraryKnown' /\ StillIsSettled'
<1> USE RecordFacts
<1>0. job \in JobType /\ job' \in JobType /\ \A a \in Attempt : pub[a] \in PubType
    BY DEF Inv, Types, RowMoves
<1>1. (job.state # "NONE" => job.input # 0)' /\ (job.attempt # 0 => job.state # "NONE")'
    BY DEF RowMoves, Inv, Always, Row
<1>2. Journal'
    BY <1>0 DEF Inv, Always, Journal, RowMoves, Calm0, JobType, PubType
<1>3. OneUnsettled'
    BY DEF Inv, Always, OneUnsettled, Calm0
<1>4. CommittedIsOver'
  <2> SUFFICES ASSUME NEW a \in Attempt, pub[a].status = "COMMITTED"
               PROVE  /\ pub[a].task = job'.task => a = job'.attempt /\ job'.state \in Over
                      /\ a = job'.attempt => job'.state # "RUNNING"
    BY DEF CommittedIsOver, Calm0
  <2>1. pub[a].task <= job.task
    BY DEF Inv, Always, Journal
  <2>2. pub[a].task = job'.task => job'.task = job.task
    BY <2>1, <1>0 DEF RowMoves, JobType, PubType
  <2> QED BY <2>2 DEF Inv, Always, CommittedIsOver, RowMoves
<1>5. ASSUME touched = 0 PROVE NoneAsked' /\ LibraryKnown' /\ StillIsSettled'
  <2>1. NoneAsked /\ LibraryKnown
    BY <1>5 DEF Inv, Calmly
  <2>2. NoneAsked'
    BY <2>1 DEF NoneAsked, Calm0
  <2>3. LibraryKnown'
    BY <2>1 DEF LibraryKnown, Prepared, Restorable, Calm0
  <2>4. StillIsSettled'
    BY <1>5 DEF StillIsSettled, RowMoves, NothingPrepared, Prepared, Calm0
  <2> QED BY <2>2, <2>3, <2>4
<1> QED BY <1>1, <1>2, <1>3, <1>4, <1>5

\* One process moves, and with it the row.
LEMMA MoveKeeps ==
    ASSUME Inv, NEW x \in Actor, Moved(x), RowMoves({x}), Calm0, WorkerGoesOn, MoverFine(x), OneRecovery',
           intent' = intent, source' \subseteq Version, phase' \in {"up", "stopping", "down"}
    PROVE  Inv'
<1>1. Types'
    BY DEF Inv, Types, Moved, RowMoves, Calm0, WorkerGoesOn
<1>2. \A y \in Actor : MoverFine(y)
    BY OthersKeep DEF Moved
<1>3. Always'
    BY <1>2, RowKeeps DEF Inv, Always, Row, MoverFine
<1>4. Calmly'
    BY <1>2, RowKeeps DEF Calmly, MoverFine, Calm0
<1> QED BY <1>1, <1>3, <1>4 DEF Inv

\* No process moves: requests and commands.
LEMMA AskedKeeps ==
    ASSUME Inv, RowMoves({}), Calm0, proc' = proc, stop' \in BOOLEAN, Worker.pc # "idle" /\ stop => stop',
           intent' \in IntentType, intent'.status # "NONE" => intent'.version # 0,
           source' \subseteq Version, phase' \in {"up", "stopping", "down"}
    PROVE  Inv'
<1>0. WorkerGoesOn
    BY DEF WorkerGoesOn, Worker
<1>1. Types'
    BY DEF Inv, Types, RowMoves, Calm0
<1>2. \A y \in Actor : MoverFine(y)
    BY <1>0, OthersKeep
<1>3. Always'
    BY <1>2, RowKeeps DEF Inv, Always, Row, MoverFine
<1>4. Calmly'
    BY <1>2, RowKeeps DEF Calmly, MoverFine, Calm0
<1>5. OneRecovery'
    BY DEF Inv, OneRecovery
<1> QED BY <1>1, <1>3, <1>4, <1>5 DEF Inv

-----------------------------------------------------------------------------
(* Requests and commands. *)

\* A row that is queued again, or a new one, disturbs nobody: the old task was settled.
LEMMA QueuedMoves ==
    ASSUME Inv, NEW v \in 1..MaxVersion, TaskLeft, job.state \in Requeueable \union Terminal, job' = Queued(v)
    PROVE  RowMoves({})
<1> USE PackingAssumption
<1>0. job \in JobType /\ \A a \in Attempt : pub[a] \in PubType
    BY DEF Inv, Types
<1>1. NextTask \in 0..MaxTask /\ (NextTask = job.task \/ NextTask = job.task + 1)
      /\ (NextTask = job.task => job.state \notin Terminal \union {"NONE"})
    BY <1>0 DEF NextTask, TaskLeft, JobType
<1>2. /\ job' \in JobType /\ job'.state = "PENDING" /\ job'.task = NextTask /\ job'.input = v
      /\ job'.attempt = job.attempt
  <2> DEFINE n == NextTask
             q == job
             r == [q EXCEPT !.state = "PENDING", !.task = n, !.input = v]
  <2>1. n \in 0..MaxTask /\ q \in JobType /\ v \in 0..MaxVersion
    BY <1>0, <1>1
  <2>2. job' = r
    BY DEF Queued
  <2> HIDE DEF n, q
  <2>3. r \in JobType /\ r.state = "PENDING" /\ r.task = n /\ r.input = v /\ r.attempt = q.attempt
    BY <2>1 DEF JobType, JobState
  <2> HIDE DEF r
  <2> QED BY <2>2, <2>3 DEF n, q
<1>3. job'.task = job.task => job.state = "WAITING"
    BY <1>1, <1>2 DEF Requeueable, Terminal
<1>4. ASSUME touched = 0 PROVE NothingPrepared(job'.task)
  <2>1. CASE NextTask = job.task
    BY <2>1, <1>2, <1>3, <1>4 DEF Inv, Calmly, StillIsSettled, Still
  <2>2. CASE NextTask = job.task + 1
    <3> SUFFICES ASSUME NEW a \in Attempt, pub[a].task = NextTask PROVE ~Prepared(a)
      BY <1>2 DEF NothingPrepared
    <3>1. pub[a].status # "NONE" => pub[a].task <= job.task
      BY DEF Inv, Always, Journal
    <3> QED BY <3>1, <2>2, <1>0 DEF Prepared, JobType, PubType
  <2> QED BY <2>1, <2>2, <1>1
<1>5. ASSUME touched = 0, NEW y \in Actor, proc[y].duty = "stop" PROVE FALSE
    BY <1>5 DEF Inv, Calmly, Bound, Requeueable, Terminal
<1>6. ASSUME touched = 0, NEW y \in Actor, proc[y].duty = "reclaim", job'.task = proc[y].task PROVE FALSE
  <2>1. proc[y].task <= job.task /\ proc[y] \in ProcType
    BY <1>6 DEF Inv, Calmly, Bound, Types
  <2>2. job'.task = job.task
    BY <2>1, <1>0, <1>1, <1>2, <1>6 DEF JobType, ProcType
  <2> QED BY <2>2, <1>3, <1>6 DEF Inv, Calmly, Bound, Over
<1>9. ASSUME touched = 0, NEW y \in Actor, proc[y].pc \in Before, job'.task = proc[y].task PROVE FALSE
  <2>1. y = "worker" /\ proc[y].task <= job.task /\ proc[y] \in ProcType
    BY <1>9 DEF Inv, Always, Duties, Before, Types
  <2>2. job'.task = job.task
    BY <2>1, <1>0, <1>1, <1>2, <1>9 DEF JobType, ProcType
  <2> QED BY <2>2, <1>3, <1>9 DEF Inv, Calmly, Bound
<1>7. job.task <= job'.task
    BY <1>0, <1>1, <1>2 DEF JobType
<1>8. job'.task = job.task => \A a \in Attempt : ~(pub[a].status = "COMMITTED" /\ pub[a].task = job.task)
    BY <1>3 DEF Inv, Always, CommittedIsOver, Over
<1> QED BY <1>2, <1>3, <1>4, <1>5, <1>6, <1>7, <1>8, <1>9 DEF RowMoves

\* Queueing writes the row that QueuedMoves allows, or none.
LEMMA EnqueueMoves ==
    ASSUME Inv, NEW v \in 1..MaxVersion, Enqueue(v)
    PROVE  RowMoves({})
BY QueuedMoves DEF Enqueue

\* Inv says as much when the row stays.
LEMMA RowStays ==
    ASSUME Inv, job' = job
    PROVE  \A X : RowMoves(X)
BY PackingAssumption DEF Inv, Types, Always, Calmly, Row, RowMoves, JobType, StillIsSettled, Bound, CommittedIsOver

\* A pack is requested for a downloaded archive.
LEMMA RequestPackStep == ASSUME Inv, NEW v \in Version, RequestPack(v) PROVE Inv'
<1>1. RowMoves({})
    BY EnqueueMoves DEF RequestPack, Version
<1> QED BY <1>1, AskedKeeps DEF RequestPack, Calm0, files, Inv, Types, Always, Row

\* A completed download leaves its archive and an intent to pack it.
LEMMA DownloadedStep == ASSUME Inv, Downloaded PROVE Inv'
<1> USE PackingAssumption
<1>1. RowMoves({})
    BY RowStays DEF Downloaded
<1>2. PICK status \in {"READY", "UNREQUESTED"} : intent' = [version |-> intent.version + 1, status |-> status]
    BY DEF Downloaded
<1>3. intent' \in IntentType /\ intent'.version # 0 /\ intent.version + 1 \in Version
    BY <1>2 DEF Downloaded, Inv, Types, IntentType, Version
<1> QED BY <1>1, <1>3, AskedKeeps DEF Downloaded, Calm0, files, Inv, Types

\* The intent becomes a row of the queue.
LEMMA DispatchPackStep == ASSUME Inv, DispatchPack PROVE Inv'
<1> USE PackingAssumption
<1>1. intent.version \in 1..MaxVersion
    BY DEF DispatchPack, Inv, Types, Always, Row, IntentType
<1>2. RowMoves({})
    BY <1>1, EnqueueMoves, RowStays DEF DispatchPack
<1>3. intent' \in IntentType /\ intent'.version = intent.version
    BY DEF DispatchPack, Inv, Types, IntentType
<1> QED BY <1>1, <1>2, <1>3, AskedKeeps DEF DispatchPack, Calm0, files, Inv, Types

\* Pause, resume, retry and cancel of the operator.
LEMMA CommandStep == ASSUME Inv, Command PROVE Inv'
<1> USE PackingAssumption
<1>0. job \in JobType
    BY DEF Inv, Types
<1>1. RowMoves({})
  <2>1. CASE job.state \in Terminal /\ TaskLeft /\ job' = Queued(job.input)
    <3>1. job.input \in 1..MaxVersion
      BY <2>1, <1>0 DEF Inv, Always, Row, Terminal, JobType
    <3> QED BY <2>1, <3>1, QueuedMoves
  <2>2. ASSUME NEW s \in JobState, SetState(s),
               \/ job.state \in {"PENDING", "PAUSED"} /\ s \in {"PENDING", "PAUSED", "CANCELLED"}
               \/ job.state \in {"RUNNING", "WAITING", "FAILED"} /\ s = "STOPPING"
        PROVE  RowMoves({})
    <3>1. /\ job' \in JobType /\ job'.state = s /\ job'.task = job.task
          /\ job'.attempt = job.attempt /\ job'.input = job.input
      BY <2>2, StateTo DEF Inv
    <3>2. job'.input # 0
      BY <2>2, <3>1 DEF Inv, Always, Row
    <3>3. touched = 0 => (s \in Still => NothingPrepared(job.task))
      BY <2>2 DEF Inv, Calmly, StillIsSettled, Still
    <3>4. ASSUME touched = 0, NEW y \in Actor
          PROVE  /\ proc[y].duty # "stop"
                 /\ proc[y].duty = "reclaim" /\ job.task = proc[y].task => s \in Over
                 /\ proc[y].pc \in Before /\ job.task = proc[y].task => s \notin {"PENDING", "PAUSED", "WAITING"}
      BY <2>2, <3>4 DEF Inv, Calmly, Bound, Over
    <3>5. job.task <= job'.task
      BY <3>1, <1>0 DEF JobType
    <3>6. s \notin {"NONE", "RUNNING"} /\ \A a \in Attempt : pub[a].status = "COMMITTED" /\ pub[a].task = job.task =>
                                                      s \in Over
      BY <2>2 DEF Over, Inv, Always, CommittedIsOver
    <3> QED BY <3>1, <3>2, <3>3, <3>4, <3>5, <3>6 DEF RowMoves
  <2> QED BY <2>1, <2>2 DEF Command, JobState
<1> QED BY <1>1, AskedKeeps DEF Command, Calm0, files, Inv, Types, Always, Row

\* The cancel of a running pack asks its worker to stop.
LEMMA CancelWorkerStep == ASSUME Inv, CancelWorker PROVE Inv'
BY RowStays, AskedKeeps DEF CancelWorker, Calm0, files, Inv, Types, Always, Row

\* The process begins to stop; its worker is asked to.
LEMMA ShutdownStep == ASSUME Inv, Shutdown PROVE Inv'
BY RowStays, AskedKeeps DEF Shutdown, Calm0, files, Inv, Types, Always, Row

\* The process starts again.
LEMMA RestartStep == ASSUME Inv, Restart PROVE Inv'
BY RowStays, AskedKeeps DEF Restart, Calm0, files, Inv, Types, Always, Row

-----------------------------------------------------------------------------
(* Processes that move without a change of the journal or the files. *)

\* A worker in motion goes on.
LEMMA GoesOn ==
    ASSUME Inv, NEW x \in Actor, Moved(x), stop' = stop, x = "worker" => proc[x].pc # "idle"
    PROVE  WorkerGoesOn
BY RecordFacts DEF Inv, Types, Moved, WorkerGoesOn, Worker

\* A process that takes no new duty leaves the recoveries apart.
LEMMA NoNewDuty ==
    ASSUME Inv, NEW x \in Actor, Moved(x), proc'[x].duty \in {proc[x].duty, "none", "leave"}
    PROVE  OneRecovery'
<1> SUFFICES ASSUME NEW y \in Actor, NEW z \in Actor,
                    \/ proc'[y].duty \in {"files", "reclaim"} /\ proc'[z].duty \in {"files", "reclaim"}
                    \/ proc'[y].duty = "stop" /\ proc'[z].duty = "stop"
             PROVE  y = z
    BY DEF OneRecovery
<1>1. \A w \in Actor : proc'[w].duty \in {"files", "reclaim", "stop"} => proc[w].duty = proc'[w].duty
    BY DEF Moved
<1> QED BY <1>1 DEF Inv, OneRecovery

\* A process at rest has nothing to answer for.
LEMMA RestIsFine ==
    ASSUME NEW x \in Actor, proc'[x] = Resting
    PROVE  MoverFine(x)
BY RestingTyped, RecordFacts DEF MoverFine, Duties, Places, Apart, Bound, Safe, Before, Filed

\* The worker gives up its publication.
LEMMA AwayIsFine ==
    ASSUME Inv, Moved("worker"), SamePlan("worker"), Worker.duty = "publish",
           proc'["worker"].pc \in {"failed", "leaving"}, job'.attempt = job.attempt, job.task <= job'.task,
           job' \in JobType, Calm0
    PROVE  MoverFine("worker")
<1> USE RecordFacts
<1>0. job \in JobType /\ proc["worker"] \in ProcType
    BY DEF Inv, Types
<1>1. Duties("worker") /\ Places("worker") /\ (touched = 0 => Bound("worker"))
    BY DEF Inv, Always, Calmly
<1>2. proc["worker"].pc # "idle"
    BY <1>1 DEF Worker, Duties
<1>3. Duties("worker")'
    BY <1>0, <1>1, <1>2 DEF Duties, SamePlan, Worker, JobType, ProcType, Before
<1>4. Places("worker")'
    BY <1>1 DEF Places, SamePlan, Before, Filed, Calm0
<1>5. Apart("worker")' /\ Safe("worker")'
    BY DEF Apart, Safe
<1>6. touched = 0 => Bound("worker")'
    BY <1>1 DEF Bound, SamePlan, Before, Worker
<1> QED BY <1>3, <1>4, <1>5, <1>6 DEF MoverFine

\* The worker leaves its publication before the journal knows of it.
LEMMA WorkerAway ==
    ASSUME Inv, To("worker", "leaving") \/ To("worker", "failed"), Worker.duty = "publish", RowMoves({"worker"}), Calm0,
           UNCHANGED <<source, intent, stop, phase>>
    PROVE  Inv'
<1> USE RecordFacts
<1>1. Moved("worker") /\ SamePlan("worker") /\ proc'["worker"].pc \in {"failed", "leaving"}
    BY ToMoves DEF Inv, Pc
<1>2. Worker.pc # "idle"
    BY DEF Inv, Always, Duties, Worker
<1>3. MoverFine("worker")
    BY <1>1, AwayIsFine DEF RowMoves
<1>4. OneRecovery'
    BY <1>1, NoNewDuty DEF SamePlan
<1>5. WorkerGoesOn
    BY <1>1, <1>2, GoesOn DEF Worker
<1> QED BY <1>1, <1>3, <1>4, <1>5, MoveKeeps DEF Inv, Types

\* The worker notices that the row is not its own any more.
LEMMA RevokedStep == ASSUME Inv, Revoked PROVE Inv'
<1>1. Worker.duty = "publish"
    BY RecordFacts DEF Revoked, WorkerAt, Inv, Always, Duties, Worker, Before
<1>2. Calm0 /\ To("worker", "leaving")
    BY DEF Revoked, Calm0, files
<1> QED BY <1>1, <1>2, RowStays, WorkerAway DEF Revoked

\* The row of an attempt fails or waits: its worker has prepared nothing.
LEMMA FailMoves ==
    ASSUME Inv, Worker.pc \in {"packing", "failed"}, Valid, NEW s \in {"FAILED", "WAITING"}, SetState(s),
           Worker.pc = "failed" => s = "FAILED"
    PROVE  RowMoves({"worker"})
<1> USE RecordFacts
<1>0. job \in JobType
    BY DEF Inv, Types
<1>1. /\ job' \in JobType /\ job'.state = s /\ job'.task = job.task
      /\ job'.attempt = job.attempt /\ job'.input = job.input
    BY StateTo DEF Inv, JobState
<1>2. Duties("worker") /\ Places("worker")
    BY DEF Inv, Always
<1>3. job'.input # 0
    BY <1>1, <1>2 DEF Inv, Always, Row, Duties, Worker
<1>4. ASSUME NEW a \in Attempt, pub[a].status = "COMMITTED", pub[a].task = job.task
      PROVE  s \in Over
    BY <1>2, <1>4 DEF Inv, Always, CommittedIsOver, Places, Before, Worker, Over
<1>5. ASSUME touched = 0, s \in Still PROVE NothingPrepared(job.task)
    BY <1>5 DEF Inv, Calmly, Bound, Before, Worker, Valid, Still
<1>6. ASSUME touched = 0, NEW y \in Actor
      PROVE  /\ proc[y].duty # "stop"
             /\ ~(proc[y].duty = "reclaim" /\ job.task = proc[y].task)
             /\ y # "worker" => proc[y].pc \notin Before
    BY <1>6 DEF Inv, Calmly, Bound, Always, Duties
<1>7. job.task <= job'.task
    BY <1>0, <1>1 DEF JobType
<1> QED BY <1>1, <1>3, <1>4, <1>5, <1>6, <1>7 DEF RowMoves

\* The packing fails, with or without another try.
LEMMA PackFailsStep == ASSUME Inv, PackFails PROVE Inv'
<1>1. Worker.duty = "publish" /\ Worker.pc = "packing"
    BY RecordFacts DEF PackFails, WorkerAt, Inv, Always, Duties, Worker, Before
<1>2. Calm0 /\ To("worker", "leaving")
    BY DEF PackFails, Calm0, files
<1>3. RowMoves({"worker"})
    BY <1>1, FailMoves, RowStays DEF PackFails
<1> QED BY <1>1, <1>2, <1>3, WorkerAway DEF PackFails

\* The failure of the publication is written to the row.
LEMMA MarkFailedStep == ASSUME Inv, MarkFailed PROVE Inv'
<1>1. Worker.duty = "publish" /\ Worker.pc = "failed"
    BY RecordFacts DEF MarkFailed, WorkerAt, Inv, Always, Duties, Worker, Before
<1>2. Calm0 /\ To("worker", "leaving")
    BY DEF MarkFailed, Calm0, files
<1>3. RowMoves({"worker"})
    BY <1>1, FailMoves, RowStays DEF MarkFailed
<1> QED BY <1>1, <1>2, <1>3, WorkerAway DEF MarkFailed

\* The worker leaves, and with it the stop it was asked for.
LEMMA LeaveStep == ASSUME Inv, Leave PROVE Inv'
<1> USE RecordFacts
<1> DEFINE t == Worker.task
           q == Resting
           r == [q EXCEPT !.pc = "select", !.duty = "leave", !.task = t]
<1>0. proc["worker"] \in ProcType /\ t \in 0..MaxTask
    BY DEF Inv, Types, Worker, ProcType
<1>1. proc' = [proc EXCEPT !["worker"] = r]
    BY DEF Leave
<1>a. Worker.pc = "leaving"
    BY DEF Leave, WorkerAt
<1>b. job.attempt # 0 /\ t <= job.task
    BY <1>a DEF Inv, Always, Duties, Worker
<1>c. q \in ProcType /\ q.at = 0 /\ q.todo = {}
    BY RestingTyped
<1> HIDE DEF t, q
<1>2. r \in ProcType /\ r.pc = "select" /\ r.duty = "leave" /\ r.task = t /\ r.at = 0 /\ r.todo = {}
    BY <1>0, <1>c DEF ProcType, Pc, Duty
<1> HIDE DEF r
<1>3. Moved("worker") /\ proc'["worker"] = r
    BY <1>1, <1>2, PutProc DEF Inv
<1>4. Calm0 /\ job' = job /\ stop' = stop
    BY DEF Leave, Calm0, files
<1>5. MoverFine("worker")
    BY <1>2, <1>3, <1>4, <1>b DEF MoverFine, Duties, Places, Apart, Bound, Safe, Before, Filed
<1>6. OneRecovery' /\ WorkerGoesOn
    BY <1>2, <1>3, <1>4, <1>a, NoNewDuty, GoesOn DEF Worker
<1>7. RowMoves({"worker"})
    BY <1>4, RowStays
<1> QED BY <1>3, <1>4, <1>5, <1>6, <1>7, MoveKeeps DEF Leave, Inv, Types

-----------------------------------------------------------------------------
(* Recoveries. *)

\* Nothing of the row and the journal changes, and the process goes on with the same duty.
LEMMA GoOnKeeps ==
    ASSUME Inv, NEW x \in Actor, proc[x].pc # "idle", Moved(x), Calm0, MoverFine(x),
           proc'[x].duty = proc[x].duty, UNCHANGED <<job, source, intent, stop, phase>>
    PROVE  Inv'
<1>1. WorkerGoesOn /\ OneRecovery' /\ RowMoves({x})
    BY GoesOn, NoNewDuty, RowStays
<1> QED BY <1>1, MoveKeeps DEF Inv, Types

\* A process in motion comes to rest.
LEMMA RestKeeps ==
    ASSUME Inv, NEW x \in Actor, proc[x].pc # "idle", Rest(x), Calm0, RowMoves({x}),
           UNCHANGED <<source, intent, stop, phase>>
    PROVE  Inv'
<1>1. Moved(x) /\ proc'[x] = Resting
    BY RestMoves DEF Inv
<1>2. MoverFine(x)
    BY <1>1, RestIsFine
<1>3. WorkerGoesOn /\ OneRecovery'
    BY <1>1, GoesOn, NoNewDuty, RestingTyped
<1> QED BY <1>1, <1>2, <1>3, MoveKeeps DEF Inv, Types

\* After its last step a recovery takes up the next record, and the publisher leaves.
LEMMA AfterKeeps ==
    ASSUME Inv, NEW x \in Actor, proc[x].pc \in {"finish", "cleanup"}, To(x, After(x)), Calm0,
           ~Prepared(proc[x].at), UNCHANGED <<job, source, intent, stop, phase>>
    PROVE  Inv'
<1> USE RecordFacts
<1>1. Duties(x) /\ Places(x) /\ (touched = 0 => Apart(x) /\ Bound(x))
    BY DEF Inv, Always, Calmly
<1>2. CASE proc[x].duty = "publish"
  <2>1. x = "worker" /\ To("worker", "leaving")
    BY <1>1, <1>2 DEF Duties, After
  <2> QED BY <2>1, <1>2, RowStays, WorkerAway DEF Worker
<1>3. CASE proc[x].duty # "publish"
  <2>1. Moved(x) /\ SamePlan(x) /\ proc'[x].pc = "next"
    BY <1>3, ToMoves DEF Inv, After, Pc
  <2>2. Duties(x)' /\ Places(x)'
    BY <1>1, <1>3, <2>1 DEF Duties, Places, SamePlan, Before, Filed, Calm0
  <2>3. ASSUME touched = 0 PROVE Apart(x)' /\ Bound(x)' /\ Safe(x)'
    <3>1. proc'["worker"].pc = "idle" <=> Worker.pc = "idle"
      BY <2>1 DEF Worker, Moved
    <3>2. Apart(x)'
      BY <3>1, <2>1, <2>3, <1>1 DEF Apart, Active, Worker, SamePlan, Calm0
    <3>3. Bound(x)'
      BY <3>1, <2>1, <2>3, <1>1 DEF Bound, Worker, SamePlan, Calm0, Prepared, Before
    <3>4. Safe(x)'
      BY <2>1 DEF Safe
    <3> QED BY <3>2, <3>3, <3>4
  <2> QED BY <2>1, <2>2, <2>3, GoOnKeeps DEF MoverFine, SamePlan
<1> QED BY <1>2, <1>3

\* A record that is settled goes on to its cleanup.
LEMMA ToCleanup ==
    ASSUME Inv, NEW x \in Actor, proc[x].pc = "finish", To(x, "cleanup"), Calm0,
           pub[proc[x].at].status \in Settled, UNCHANGED <<job, source, intent, stop, phase>>
    PROVE  Inv'
<1> USE RecordFacts
<1>1. Duties(x) /\ Places(x) /\ (touched = 0 => Apart(x) /\ Bound(x))
    BY DEF Inv, Always, Calmly
<1>2. Moved(x) /\ SamePlan(x) /\ proc'[x].pc = "cleanup"
    BY ToMoves DEF Inv, Pc
<1>3. Duties(x)' /\ Places(x)'
    BY <1>1, <1>2 DEF Duties, Places, SamePlan, Before, Filed, Calm0
<1>4. ASSUME touched = 0 PROVE Apart(x)' /\ Bound(x)' /\ Safe(x)'
  <2>1. proc'["worker"].pc = "idle" <=> Worker.pc = "idle"
    BY <1>2 DEF Worker, Moved
  <2>2. Apart(x)'
    BY <2>1, <1>1, <1>2, <1>4 DEF Apart, Active, Worker, SamePlan, Calm0
  <2>3. Bound(x)'
    BY <2>1, <1>1, <1>2, <1>4 DEF Bound, Worker, SamePlan, Calm0, Prepared, Before, Settled
  <2>4. Safe(x)'
    BY <1>2 DEF Safe
  <2> QED BY <2>2, <2>3, <2>4
<1> QED BY <1>2, <1>3, <1>4, GoOnKeeps DEF MoverFine, SamePlan

\* A finish that finds its record settled by another process.
LEMMA FinishSettledStep == ASSUME Inv, NEW x \in Actor, FinishSettled(x) PROVE Inv'
<1>1. Calm0 /\ proc[x].pc = "finish" /\ UNCHANGED <<job, source, intent, stop, phase>> /\ ~Prepared(proc[x].at)
    BY DEF FinishSettled, Calm0, files, At, Prepared
<1>2. CASE To(x, After(x))
    BY <1>1, <1>2, AfterKeeps
<1>3. CASE CleansUp(pub[proc[x].at].status) /\ To(x, "cleanup")
    BY <1>1, <1>3, ToCleanup DEF CleansUp, Settled
<1> QED BY <1>2, <1>3 DEF FinishSettled

\* A step on a file fails, and its process gives up.
LEMMA IoErrorStep == ASSUME Inv, NEW x \in Actor, IoError(x) PROVE Inv'
<1> USE RecordFacts
<1>1. Calm0 /\ proc[x].pc \in {"staged", "replace", "finish"} /\ UNCHANGED <<job, source, intent, stop, phase>>
        /\ Break(x)
    BY DEF IoError, Calm0, files
<1>2. CASE proc[x].duty = "publish"
  <2>1. x = "worker"
    BY <1>2 DEF Inv, Always, Duties
  <2> QED BY <2>1, <1>1, <1>2, RowStays, WorkerAway DEF Break, Worker
<1>3. CASE proc[x].duty # "publish"
    BY <1>1, <1>3, RowStays, RestKeeps DEF Break
<1> QED BY <1>2, <1>3

\* A recovery of a task lists the records to settle, or gives the row its new state.
LEMMA SelectStep == ASSUME Inv, NEW x \in Actor, Select(x) PROVE Inv'
<1> USE RecordFacts
<1> DEFINE q == proc[x]
           s == Unresolved \cap OfTask(proc[x].task)
           r == [q EXCEPT !.pc = "next", !.todo = s]
<1>0. q \in ProcType /\ s \subseteq Attempt /\ q.pc = "select"
    BY DEF Inv, Types, Unresolved, Select, At
<1>1. proc' = [proc EXCEPT ![x] = r]
    BY DEF Select
<1>a. \A a \in s : pub[a].status # "NONE" /\ pub[a].task = proc[x].task /\ a \in Attempt
    BY DEF Unresolved, OfTask, Unsettled
<1>b. \A a \in Attempt : Prepared(a) /\ pub[a].task = proc[x].task => a \in s
    BY DEF Unresolved, OfTask, Unsettled, Prepared
<1> HIDE DEF q, s
<1>2. /\ r \in ProcType /\ r.pc = "next" /\ r.duty = q.duty /\ r.task = q.task /\ r.at = q.at
      /\ r.todo = s /\ r.old = q.old
    BY <1>0 DEF ProcType, Pc
<1> HIDE DEF r
<1>3. Moved(x) /\ proc'[x] = r
    BY <1>1, <1>2, PutProc DEF Inv
<1>4. Calm0 /\ UNCHANGED <<job, source, intent, stop, phase>>
    BY DEF Select, Calm0, files
<1>5. Duties(x) /\ Places(x) /\ (touched = 0 => Apart(x) /\ Bound(x))
    BY DEF Inv, Always, Calmly
<1>6. Duties(x)' /\ Places(x)'
    BY <1>0, <1>2, <1>3, <1>4, <1>5, <1>a DEF Duties, Places, Before, Filed, Calm0, q
<1>7. ASSUME touched = 0 PROVE Apart(x)' /\ Bound(x)' /\ Safe(x)'
  <2>1. proc'["worker"].pc = "idle" <=> Worker.pc = "idle"
    BY <1>0, <1>2, <1>3 DEF Worker, Moved, q
  <2>2. Apart(x)'
    <3> SUFFICES ASSUME x # "worker", NEW a \in Attempt, pub[a].status # "NONE",
                        a \in s \/ a = q.at \/ (q.duty \in {"reclaim", "stop"} /\ pub[a].task = q.task)
                 PROVE  ~Active(a)
      BY <2>1, <1>2, <1>3, <1>4 DEF Apart, Active, Worker, Calm0
    <3>1. CASE q.duty \in {"reclaim", "stop"}
      BY <3>1, <1>5, <1>7, <1>a DEF Apart, q
    <3> QED BY <3>1, <1>0, <1>5, <1>7, <1>a DEF Apart, Bound, Duties, ProcType, Duty, q
  <2>3. Bound(x)'
    BY <2>1, <1>0, <1>2, <1>3, <1>4, <1>5, <1>7, <1>b DEF Bound, Worker, Calm0, Prepared, Before, q
  <2>4. Safe(x)'
    BY <1>2, <1>3 DEF Safe
  <2> QED BY <2>2, <2>3, <2>4
<1> QED BY <1>0, <1>2, <1>3, <1>4, <1>6, <1>7, GoOnKeeps DEF MoverFine, q

\* A recovery that has gone through its list settles the row.
LEMMA SettleStep == ASSUME Inv, NEW x \in Actor, Settle(x) PROVE Inv'
<1> USE RecordFacts
<1>0. job \in JobType /\ proc[x] \in ProcType /\ proc[x].pc = "next" /\ proc[x].todo = {} /\ Rest(x)
    BY DEF Inv, Types, Settle, At
<1>1. Calm0 /\ UNCHANGED <<source, intent, stop, phase>>
    BY DEF Settle, Calm0, files
<1>2. Duties(x) /\ (touched = 0 => Bound(x))
    BY DEF Inv, Always, Calmly
<1>3. touched = 0 /\ proc[x].duty \in {"stop", "reclaim"} => NothingPrepared(proc[x].task)
    BY <1>0, <1>2 DEF Bound, NothingPrepared
<1>4. RowMoves({x})
  <2>1. ASSUME NEW s \in {"PENDING", "FAILED"}, SetState(s), proc[x].duty = "reclaim", job.state = "RUNNING",
               job.task = proc[x].task
        PROVE  RowMoves({x})
    <3>1. /\ job' \in JobType /\ job'.state = s /\ job'.task = job.task
          /\ job'.attempt = job.attempt /\ job'.input = job.input
      BY <2>1, StateTo DEF Inv, JobState
    <3>2. job'.input # 0 /\ job.task <= job'.task
      BY <2>1, <3>1, <1>0 DEF Inv, Always, Row, JobType
    <3>3. \A a \in Attempt : ~(pub[a].status = "COMMITTED" /\ pub[a].task = job.task)
      BY <2>1 DEF Inv, Always, CommittedIsOver, Over
    <3>4. ASSUME touched = 0, NEW y \in Actor, y # x
          PROVE  proc[y].duty # "stop" /\ proc[y].duty # "reclaim" /\ proc[y].pc \notin Before
      BY <3>4, <2>1 DEF Inv, Calmly, Bound, OneRecovery, Always, Duties, Worker, Before
    <3> QED BY <3>1, <3>2, <3>3, <3>4, <1>3, <2>1 DEF RowMoves
  <2>2. ASSUME SetState("CANCELLED"), proc[x].duty = "stop", job.state = "STOPPING", job.task = proc[x].task
        PROVE  RowMoves({x})
    <3>1. /\ job' \in JobType /\ job'.state = "CANCELLED" /\ job'.task = job.task
          /\ job'.attempt = job.attempt /\ job'.input = job.input
      BY <2>2, StateTo DEF Inv, JobState
    <3>2. job'.input # 0 /\ job.task <= job'.task
      BY <2>2, <3>1, <1>0 DEF Inv, Always, Row, JobType
    <3>4. ASSUME touched = 0, NEW y \in Actor, y # x
          PROVE  proc[y].duty # "stop" /\ proc[y].pc \notin Before
      BY <3>4, <2>2 DEF Inv, OneRecovery, Calmly, Bound, Always, Duties, Worker, Before
    <3> QED BY <3>1, <3>2, <3>4, <1>3, <2>2 DEF RowMoves, Over
  <2> QED BY <2>1, <2>2, RowStays DEF Settle
<1> QED BY <1>0, <1>1, <1>4, RestKeeps

\* A recovery begins with records nobody executes.
LEMMA StartKeeps ==
    ASSUME Inv, NEW x \in Keeper, NEW duty \in {"files", "reclaim", "stop", "retry"}, NEW t \in 0..MaxTask,
           NEW todo \in SUBSET Attempt, Start(x, duty, t, todo),
           duty \in {"files", "reclaim"} => Alone({"files", "reclaim"}),
           duty = "stop" => Alone({"stop"}) /\ job.state = "STOPPING",
           duty = "reclaim" => job.state = "RUNNING",
           duty = "files" => todo # {},
           duty \in {"reclaim", "stop"} => todo = {} /\ t = job.task /\ ~Active(job.attempt),
           duty = "retry" => touched # 0,
           \A a \in todo : pub[a].status # "NONE" /\ ~Active(a)
    PROVE  Inv'
<1> USE RecordFacts
<1> DEFINE q == Resting
           p == IF todo = {} THEN "select" ELSE "next"
           r == [q EXCEPT !.pc = p, !.duty = duty, !.task = t, !.todo = todo]
<1>0. q \in ProcType /\ q.at = 0 /\ p \in {"select", "next"} /\ (todo # {} => p = "next")
    BY RestingTyped
<1>1. proc' = [proc EXCEPT ![x] = r]
    BY DEF Start
<1>a. (todo = {} => p = "select") /\ x \in Actor /\ x # "worker" /\ proc[x].pc = "idle"
    BY DEF Start
<1> HIDE DEF q, p
<1>2. /\ r \in ProcType /\ r.pc = p /\ r.duty = duty /\ r.task = t /\ r.at = 0 /\ r.todo = todo
    BY <1>0 DEF ProcType, Pc, Duty
<1> HIDE DEF r
<1>3. Moved(x) /\ proc'[x] = r
    BY <1>1, <1>2, <1>a, PutProc DEF Inv
<1>4. Calm0 /\ UNCHANGED <<job, source, intent, stop, phase>>
    BY DEF Start, Calm0, files
<1>5. Duties(x)' /\ Places(x)'
    BY <1>0, <1>2, <1>3, <1>4, <1>a DEF Duties, Places, Before, Filed, Calm0
<1>6. proc'["worker"] = Worker
    BY <1>3, <1>a DEF Moved, Worker
<1>7. duty \in {"reclaim", "stop"} => Worker.pc = "idle"
    BY DEF Active
<1>8. job \in JobType
    BY DEF Inv, Types
<1>9. ASSUME touched = 0 PROVE Apart(x)' /\ Bound(x)' /\ Safe(x)'
  <2>1. Apart(x)'
    BY <1>0, <1>2, <1>3, <1>4, <1>6, <1>7, <1>a DEF Apart, Active, Worker, Calm0
  <2>2. Bound(x)'
    BY <1>9, <1>0, <1>2, <1>3, <1>4, <1>6, <1>7, <1>8, <1>a DEF Bound, Worker, Calm0, Prepared, Before, JobType
  <2>3. Safe(x)'
    BY <1>0, <1>2, <1>3 DEF Safe
  <2> QED BY <2>1, <2>2, <2>3
<1>10. OneRecovery'
  <2>1. \A y \in Keeper : duty \in {"files", "reclaim"} => proc[y].duty \notin {"files", "reclaim"}
    BY DEF Alone
  <2>2. \A y \in Keeper : duty = "stop" => proc[y].duty # "stop"
    BY DEF Alone
  <2>3. proc["worker"].duty \in {"none", "publish", "leave"}
    BY DEF Inv, Always, Duties
  <2>4. \A y \in Actor : y # x => proc'[y].duty = proc[y].duty
    BY <1>3 DEF Moved
  <2>5. proc'[x].duty = duty
    BY <1>2, <1>3
  <2> QED BY <2>1, <2>2, <2>3, <2>4, <2>5 DEF OneRecovery, Inv
<1>11. WorkerGoesOn
    BY <1>3, <1>4, <1>a, GoesOn
<1> QED BY <1>3, <1>4, <1>5, <1>9, <1>10, <1>11, <1>a, RowStays, MoveKeeps DEF MoverFine, Inv, Types

\* The scan of the journal takes up a record.
LEMMA RecoverFileStep == ASSUME Inv, NEW x \in Keeper, NEW a \in Attempt, RecoverFile(x, a) PROVE Inv'
<1> USE PackingAssumption
<1>1. {a} \in SUBSET Attempt /\ {a} # {} /\ pub[a].status # "NONE" /\ ~Active(a) /\ Alone({"files", "reclaim"})
    BY DEF RecoverFile, Unresolved, Unsettled
<1>2. Start(x, "files", 0, {a})
    BY DEF RecoverFile
<1> QED BY <1>1, <1>2, StartKeeps

\* A running row without a worker is reclaimed.
LEMMA RecoverOrphanStep == ASSUME Inv, NEW x \in Keeper, RecoverOrphan(x) PROVE Inv'
BY StartKeeps DEF RecoverOrphan, Inv, Types, JobType

\* The pending cancel of a row is carried out.
LEMMA RecoverStoppedStep == ASSUME Inv, NEW x \in Keeper, RecoverStopped(x) PROVE Inv'
BY StartKeeps DEF RecoverStopped, Inv, Types, JobType

\* The operator asks for a recovery that was left to him.
LEMMA RecoverRequiredStep == ASSUME Inv, NEW x \in Keeper, RecoverRequired(x) PROVE Inv'
<1>1. PICK a \in Attempt : pub[a].status = "RECOVERY_REQUIRED" /\ Start(x, "retry", pub[a].task, {})
    BY DEF RecoverRequired
<1>2. pub[a].task \in 0..MaxTask
    BY RecordFacts DEF Inv, PubType
<1>3. touched # 0
    BY <1>1 DEF Inv, Calmly, NoneAsked
<1> QED BY <1>1, <1>2, <1>3, StartKeeps

\* What a changed status leaves of a record.
LEMMA StatusTo ==
    ASSUME Types, NEW a \in Attempt, NEW s \in {"PREPARED", "COMMITTED", "ROLLED_BACK", "RECOVERY_REQUIRED"},
           pub' = [pub EXCEPT ![a].status = s]
    PROVE  /\ pub' \in [Attempt -> PubType]
           /\ \A b \in Attempt : b # a => pub'[b] = pub[b]
           /\ pub'[a].status = s /\ pub'[a].task = pub[a].task /\ pub'[a].input = pub[a].input
           /\ pub'[a].old = pub[a].old /\ pub'[a].new = pub[a].new /\ pub'[a].keep = pub[a].keep
           /\ pub'[a].cleaned = pub[a].cleaned
<1> DEFINE q == pub[a]
           r == [q EXCEPT !.status = s]
<1>1. pub' = [pub EXCEPT ![a] = r]
    OBVIOUS
<1>2. q \in PubType
    BY DEF Types
<1> HIDE DEF q
<1>3. r \in PubType /\ r.status = s /\ r.task = q.task /\ r.input = q.input /\ r.old = q.old /\ r.new = q.new
      /\ r.keep = q.keep /\ r.cleaned = q.cleaned
    BY <1>2 DEF PubType
<1> HIDE DEF r
<1> QED BY <1>1, <1>3 DEF Types, q

\* A recovery takes up one record of its list, and asks the operator for files it does not know.
LEMMA TakeUpStep == ASSUME Inv, NEW x \in Actor, NEW a \in Attempt, TakeUp(x, a) PROVE Inv'
<1> USE RecordFacts
<1> DEFINE q == proc[x]
<1>0. q \in ProcType /\ q.pc = "next" /\ a \in q.todo /\ Calm0 = (pub' = pub)
        /\ UNCHANGED <<job, dest, staged, backup, linked, artifact, source, intent, stop, phase, touched>>
    BY DEF Inv, Types, TakeUp, At, Calm0, files
<1>1. Duties(x) /\ Places(x) /\ (touched = 0 => Apart(x) /\ Bound(x))
    BY DEF Inv, Always, Calmly
<1>2. pub[a].status # "NONE"
    BY <1>0, <1>1 DEF Places
<1>3. PICK p \in {"next", "replace", "finish"}, b \in 0..MaxAttempt :
        /\ proc' = [proc EXCEPT ![x].pc = p, ![x].at = b, ![x].todo = @ \ {a}]
        /\ p = "next" => b = q.at /\ pub[a].status = "RECOVERY_REQUIRED"
        /\ p # "next" => b = a
        /\ p = "replace" /\ pub' = pub => Prepared(a)
        /\ p = "finish" => ~Prepared(a)
        /\ pub' = pub \/ (p = "replace" /\ pub[a].status = "RECOVERY_REQUIRED"
             /\ pub' = [pub EXCEPT ![a].status = "PREPARED"])
  <2>0. a \in 0..MaxAttempt /\ q.at \in 0..MaxAttempt
    BY <1>0, PackingAssumption DEF Attempt, ProcType
  <2>1. CASE pub[a].status = "RECOVERY_REQUIRED" /\ ~Known(a)
    <3>1. proc' = [proc EXCEPT ![x].todo = @ \ {a}] /\ pub' = pub
      BY <2>1 DEF TakeUp
    <3>2. proc \in [Actor -> ProcType]
      BY DEF Inv, Types
    <3> DEFINE todo == q.todo \ {a}
    <3>3. [q EXCEPT !.todo = todo] = [q EXCEPT !.pc = "next", !.at = q.at, !.todo = todo]
      BY <1>0 DEF ProcType
    <3>4. /\ proc' = [proc EXCEPT ![x] = [q EXCEPT !.todo = todo]]
          /\ [proc EXCEPT ![x].pc = "next", ![x].at = q.at, ![x].todo = @ \ {a}]
                = [proc EXCEPT ![x] = [q EXCEPT !.pc = "next", !.at = q.at, !.todo = todo]]
      BY <3>1, <3>2
    <3>5. proc' = [proc EXCEPT ![x].pc = "next", ![x].at = q.at, ![x].todo = @ \ {a}]
      BY <3>3, <3>4, Zenon
    <3> QED BY <3>1, <3>5, <2>0, <2>1
  <2>2. CASE pub[a].status = "RECOVERY_REQUIRED" /\ Known(a)
    <3>1. /\ proc' = [proc EXCEPT ![x].pc = "replace", ![x].at = a, ![x].todo = @ \ {a}]
          /\ pub' = [pub EXCEPT ![a].status = "PREPARED"]
      BY <2>2 DEF TakeUp
    <3>2. pub' # pub
      BY <3>1, <2>2, StatusTo DEF Inv
    <3> QED BY <3>1, <3>2, <2>0, <2>2
  <2>3. CASE pub[a].status = "PREPARED"
    BY <2>3, <2>0 DEF TakeUp, Prepared
  <2>4. CASE pub[a].status \notin {"PREPARED", "RECOVERY_REQUIRED"}
    BY <2>4, <2>0 DEF TakeUp, Prepared
  <2> QED BY <2>1, <2>2, <2>3, <2>4
<1> DEFINE s == q.todo \ {a}
           r == [q EXCEPT !.pc = p, !.at = b, !.todo = s]
<1>4. proc' = [proc EXCEPT ![x] = r] /\ s \subseteq Attempt /\ s \subseteq q.todo
    BY <1>0, <1>3 DEF ProcType
<1>c. \A c \in q.todo : c # a => c \in s
    OBVIOUS
<1> HIDE DEF q, s
<1>5. r \in ProcType /\ r.pc = p /\ r.duty = q.duty /\ r.task = q.task /\ r.at = b /\ r.todo = s /\ r.old = q.old
    BY <1>0, <1>3, <1>4 DEF ProcType, Pc
<1> HIDE DEF r
<1>6. Moved(x) /\ proc'[x] = r
    BY <1>4, <1>5, PutProc DEF Inv
<1>7. CASE pub' = pub
  <2>0. Calm0
    BY <1>0, <1>7
  <2>1. Duties(x)' /\ Places(x)'
    BY <1>0, <1>1, <1>2, <1>3, <1>4, <1>5, <1>6, <2>0 DEF Duties, Places, Before, Filed, Calm0, q
  <2>2. ASSUME touched = 0 PROVE Apart(x)' /\ Bound(x)' /\ Safe(x)'
    <3>1. proc'["worker"].pc = "idle" <=> Worker.pc = "idle"
      BY <1>0, <1>3, <1>5, <1>6 DEF Worker, Moved, q
    <3>2. p # "next" /\ b = a
      BY <1>3, <2>2 DEF Inv, Calmly, NoneAsked
    <3>3. Apart(x)'
      <4>1. \A c : Active(c)' => Active(c)
        BY <3>1, <1>0 DEF Active, Worker
      <4>2. r.at \in q.todo /\ r.todo \subseteq q.todo /\ r.duty = q.duty /\ r.task = q.task
        BY <3>2, <1>0, <1>4, <1>5
      <4>3. x # "worker" => \A c \in Attempt :
                pub[c].status # "NONE" /\ (c \in r.todo \/ c = r.at
                                           \/ (r.duty \in {"reclaim", "stop"} /\ pub[c].task = r.task)) => ~Active(c)
        BY <4>2, <1>1, <2>2 DEF Apart, q
      <4> QED BY <4>1, <4>3, <1>6, <1>7 DEF Apart
    <3>4. Bound(x)'
      <4>0. Bound(x) /\ q.pc = "next" /\ r.pc \in {"replace", "finish"} /\ r.at = a /\ job' = job /\ touched' = touched
        BY <3>2, <1>0, <1>1, <1>3, <1>5, <2>2
      <4>1. proc'[x].duty \in {"stop", "reclaim"} /\ proc'[x].pc # "select" =>
                \A c \in Attempt : Prepared(c) /\ pub[c].task = proc'[x].task =>
                    c \in proc'[x].todo \/ (proc'[x].at = c /\ proc'[x].pc \in {"replace", "finish"})
        BY <4>0, <1>5, <1>6, <1>c DEF Bound, q
      <4> QED BY <3>1, <4>0, <4>1, <1>5, <1>6, <1>7 DEF Bound, Worker, Prepared, Before, q
    <3>5. Safe(x)'
      BY <3>2, <1>3, <1>5, <1>6, <1>7 DEF Safe, Prepared
    <3> QED BY <3>3, <3>4, <3>5
  <2> QED BY <1>0, <1>5, <1>6, <2>0, <2>1, <2>2, GoOnKeeps DEF MoverFine, q
<1>8. CASE p = "replace" /\ pub[a].status = "RECOVERY_REQUIRED" /\ pub' = [pub EXCEPT ![a].status = "PREPARED"]
  <2>0. touched # 0 /\ touched' # 0
    BY <1>0, <1>8 DEF Inv, Calmly, NoneAsked
  <2>1. /\ pub' \in [Attempt -> PubType]
        /\ \A c \in Attempt : c # a => pub'[c] = pub[c]
        /\ pub'[a].status = "PREPARED" /\ pub'[a].task = pub[a].task /\ pub'[a].new = pub[a].new
    BY <1>8, StatusTo DEF Inv
  <2>2. Types' /\ Row'
    BY <1>0, <1>6, <2>1 DEF Inv, Types, Moved, Always, Row
  <2>3. Journal' /\ OneUnsettled' /\ CommittedIsOver'
    BY <1>0, <1>8, <2>1 DEF Inv, Always, Journal, OneUnsettled, CommittedIsOver, Unsettled
  <2>4. ASSUME NEW y \in Actor PROVE Duties(y)' /\ Places(y)'
    <3>0. Duties(y) /\ Places(y) /\ job \in JobType
      BY DEF Inv, Always, Types
    <3>1. CASE y = x
      <4>0. b = a /\ q.todo \subseteq Attempt
        <5>1. b = a
          BY <1>3, <1>8
        <5>2. q.todo \subseteq Attempt
          BY <1>0 DEF ProcType
        <5> QED BY <5>1, <5>2
      <4>1. /\ proc'[x] = r /\ r.pc = "replace" /\ r.at = a /\ r.duty = q.duty /\ r.task = q.task
            /\ r.todo \subseteq q.todo /\ q.todo \subseteq Attempt /\ q.pc = "next"
        <5>1. proc'[x] = r
          BY <1>6
        <5>2. r.pc = "replace" /\ r.at = a /\ r.duty = q.duty /\ r.task = q.task /\ r.todo = s
          BY <1>5, <1>8, <4>0
        <5>3. s \subseteq q.todo /\ q.pc = "next"
          BY <1>0, <1>4
        <5> QED BY ONLY <4>0, <5>1, <5>2, <5>3
      <4>2. job' = job /\ a \in Attempt
        BY <1>0
      <4>3. \A c \in Attempt : pub[c].status # "NONE" => pub'[c].status # "NONE"
        BY <2>1
      <4>4. Duties(x)'
        BY <1>1, <4>1, <4>2 DEF Duties, Before, q
      <4>5. Places(x)'
        <5>1. \A c \in q.todo : pub[c].status # "NONE"
          BY <1>1 DEF Places, q
        <5>2. pub'[a].status = "PREPARED"
          BY <2>1
        <5> QED BY <4>1, <4>2, <4>3, <5>1, <5>2 DEF Places, Before, Filed
      <4> QED BY <3>1, <4>4, <4>5
    <3>2. CASE y # x
      <4>1. proc'[y] = proc[y]
        BY <3>2, <1>6 DEF Moved
      <4>2. \A c \in Attempt : (pub'[c].status = "NONE" <=> pub[c].status = "NONE")
                               /\ (pub[c].status \in Settled => pub'[c].status \in Settled)
        BY <1>8, <2>1 DEF Settled
      <4>3. proc[y].todo \subseteq Attempt /\ (proc[y].pc \in Before => job.attempt \in Attempt)
            /\ (proc[y].at # 0 => proc[y].at \in Attempt)
        <5>1. proc[y] \in ProcType /\ job \in JobType
          BY DEF Inv, Types
        <5>2. proc[y].todo \subseteq Attempt /\ proc[y].at \in 0..MaxAttempt
          BY ONLY <5>1 DEF ProcType
        <5>3. job.attempt \in 0..MaxAttempt
          BY ONLY <5>1 DEF JobType
        <5>4. proc[y].pc \in Before => job.attempt # 0
          BY ONLY <3>0 DEF Duties, Before
        <5> QED BY ONLY <5>2, <5>3, <5>4, PackingAssumption DEF Attempt, PackingAssumption
      <4>4. Duties(y)'
        BY <3>0, <4>1, <1>0 DEF Duties
      <4>5. Places(y)'
        <5>1. job' = job /\ staged' = staged
          BY <1>0
        <5>2. "cleanup" \in Filed
          BY DEF Filed
        <5>3. Places(y)
          BY <3>0
        <5>4. /\ proc[y].pc \in Filed => proc[y].at \in Attempt /\ pub'[proc[y].at].status # "NONE"
              /\ proc[y].pc = "cleanup" => pub'[proc[y].at].status \in Settled
              /\ y # "worker" /\ proc[y].at # 0 => pub'[proc[y].at].status # "NONE"
          BY ONLY <4>2, <4>3, <5>2, <5>3 DEF Places
        <5>5. /\ \A c \in proc[y].todo : pub'[c].status # "NONE"
              /\ proc[y].pc \in Before => pub'[job.attempt].status = "NONE"
          BY ONLY <4>2, <4>3, <5>3 DEF Places
        <5> QED BY ONLY <4>1, <5>1, <5>3, <5>4, <5>5 DEF Places
      <4> QED BY <4>4, <4>5
    <3> QED BY <3>1, <3>2
  <2>5. OneRecovery'
    BY <1>5, <1>6, NoNewDuty DEF q
  <2> QED BY <2>0, <2>2, <2>3, <2>4, <2>5 DEF Inv, Always, Calmly
<1> QED BY <1>3, <1>7, <1>8

-----------------------------------------------------------------------------
(* Steps that change files, and leave the row and the status of every record. *)

SameRecords ==
    /\ pub' \in [Attempt -> PubType]
    /\ \A b \in Attempt : /\ pub'[b].status = pub[b].status /\ pub'[b].task = pub[b].task
                          /\ pub'[b].old = pub[b].old /\ pub'[b].new = pub[b].new

\* Copies of attempt a only.
CopiesOf(a) ==
    /\ staged' \in [Attempt -> Content \union {None}] /\ backup' \in [Attempt -> Bytes]
    /\ \A b \in Attempt : b # a => staged'[b] = staged[b] /\ backup'[b] = backup[b]

\* A step on the files of one attempt leaves what is said of the other processes.
LEMMA OthersAtFiles ==
    ASSUME Inv, NEW a \in Attempt, SameRecords, CopiesOf(a), UNCHANGED <<job, stop, touched>>, WorkerGoesOn,
           pub[a].status # "NONE" \/ a = job.attempt,
           NEW y \in Actor, proc'[y] = proc[y], y = "worker" => pub[a].status # "NONE"
    PROVE  Duties(y)' /\ Places(y)' /\ (touched = 0 => Apart(y)' /\ Bound(y)')
<1> USE RecordFacts
<1>0. job \in JobType /\ proc[y] \in ProcType
    BY DEF Inv, Types
<1>1. Duties(y) /\ Places(y) /\ (touched = 0 => Apart(y) /\ Bound(y))
    BY DEF Inv, Always, Calmly
<1>2. proc[y].todo \subseteq Attempt /\ (proc[y].pc \in Before => job.attempt \in Attempt)
      /\ (proc[y].at # 0 => proc[y].at \in Attempt)
    BY <1>0, <1>1, PackingAssumption DEF Duties, Before, ProcType, JobType, Attempt
<1>3. Duties(y)'
    BY <1>1 DEF Duties
<1>4. proc[y].pc \in Before => y = "worker" /\ a # job.attempt
    BY <1>1 DEF Duties, Places, Before
<1>5. Places(y)'
    BY <1>1, <1>2, <1>4 DEF Places, SameRecords, CopiesOf, Before, Filed
<1>6. ASSUME touched = 0 PROVE Apart(y)' /\ Bound(y)'
  <2>1. \A b : Active(b)' => Active(b)
    BY DEF Active, Worker, WorkerGoesOn
  <2>2. Apart(y)'
    BY <1>1, <1>6, <2>1 DEF Apart, SameRecords
  <2>3. proc[y].pc = "backed" => backup'[job.attempt] = proc[y].old
    BY <1>1, <1>2, <1>4, <1>6 DEF Bound, CopiesOf, Before
  <2>4. Worker.pc = "idle" => (Worker.pc)' = "idle"
    BY DEF WorkerGoesOn, Worker
  <2>5. Bound(y)'
    BY <1>1, <1>6, <2>3, <2>4 DEF Bound, SameRecords, NothingPrepared, Prepared
  <2> QED BY <2>2, <2>5
<1> QED BY <1>3, <1>5, <1>6

\* A step on files leaves what is said of the row and the journal.
LEMMA RowAtFiles ==
    ASSUME Inv, SameRecords, UNCHANGED <<job, intent, touched>>
    PROVE  Row' /\ Journal' /\ OneUnsettled' /\ CommittedIsOver' /\ (touched = 0 => NoneAsked' /\ StillIsSettled')
<1>1. Row' /\ Journal' /\ OneUnsettled' /\ CommittedIsOver'
    BY DEF Inv, Always, Row, Journal, OneUnsettled, CommittedIsOver, SameRecords
<1>2. touched = 0 => NoneAsked' /\ StillIsSettled'
    BY DEF Inv, Calmly, NoneAsked, StillIsSettled, NothingPrepared, Prepared, SameRecords
<1> QED BY <1>1, <1>2

\* One process changes files: what its action has to show of the library and of itself.
LEMMA FilesKeep ==
    ASSUME Inv, NEW x \in Actor, NEW a \in Attempt, Moved(x), SameRecords, CopiesOf(a),
           UNCHANGED <<job, intent, stop, touched>>, WorkerGoesOn, OneRecovery',
           dest' \in Bytes, artifact' = artifact, linked' \subseteq Attempt, source' \subseteq Version,
           phase' \in {"up", "stopping", "down"},
           pub[a].status # "NONE" \/ (a = job.attempt /\ x = "worker"),
           Duties(x)' /\ Places(x)' /\ (touched = 0 => Apart(x)' /\ Bound(x)'),
           touched = 0 => LibraryKnown' /\ \A y \in Actor : Safe(y)'
    PROVE  Inv'
<1>1. Types'
    BY DEF Inv, Types, Moved, SameRecords, CopiesOf
<1>2. \A y \in Actor : Duties(y)' /\ Places(y)' /\ (touched = 0 => Apart(y)' /\ Bound(y)')
    BY OthersAtFiles DEF Moved
<1>3. Always'
    BY <1>2, RowAtFiles DEF Always
<1>4. Calmly'
    BY <1>2, RowAtFiles DEF Calmly
<1> QED BY <1>1, <1>3, <1>4 DEF Inv

\* A copy of an attempt without a record decides nothing.
LEMMA UnrecordedCopies ==
    ASSUME Inv, NEW a \in Attempt, pub[a].status = "NONE", SameRecords, CopiesOf(a), touched = 0,
           UNCHANGED <<dest, artifact>>
    PROVE  LibraryKnown'
BY DEF Inv, Calmly, LibraryKnown, SameRecords, CopiesOf, Prepared, Restorable

\* Nor does it make another process do harm.
LEMMA UnrecordedSafe ==
    ASSUME Inv, NEW a \in Attempt, pub[a].status = "NONE", SameRecords, CopiesOf(a), touched = 0,
           UNCHANGED <<dest, job, stop>>, NEW y \in Actor, proc'[y] = proc[y]
             \/ proc'[y].pc \notin {"replace", "finish"}
    PROVE  Safe(y)'
<1>1. CASE proc'[y].pc \notin {"replace", "finish"}
    BY <1>1 DEF Safe
<1>2. CASE proc'[y] = proc[y] /\ proc[y].pc \in {"replace", "finish"}
  <2>1. proc[y].at \in Attempt /\ proc[y].at # a
    BY <1>2 DEF Inv, Always, Places, Filed
  <2>2. Safe(y)
    BY DEF Inv, Calmly
  <2> QED BY <1>2, <2>1, <2>2 DEF Safe, Eligible, SameRecords, CopiesOf, Prepared
<1> QED BY <1>1, <1>2

\* The attempt a worker packs has no record yet.
LEMMA AtWork ==
    ASSUME Inv, Worker.pc \in Before
    PROVE  /\ job.attempt \in Attempt /\ pub[job.attempt].status = "NONE"
           /\ Worker.duty = "publish" /\ Duties("worker") /\ Places("worker") /\ (touched = 0 => Bound("worker"))
BY RecordFacts, PackingAssumption DEF Inv, Types, Always, Calmly, Duties, Places, Before, Worker, JobType, Attempt

\* A journal that is left alone.
LEMMA PubStays == ASSUME Types, pub' = pub PROVE SameRecords
BY DEF Types, SameRecords

\* The new archive is packed next to the library.
LEMMA PackStep == ASSUME Inv, NEW c \in Content, Pack(c) PROVE Inv'
<1> USE RecordFacts
<1> DEFINE a == job.attempt
<1>0. Worker.pc = "packing" /\ a \in Attempt /\ pub[a].status = "NONE"
      /\ Duties("worker") /\ Places("worker") /\ (touched = 0 => Bound("worker"))
    BY AtWork DEF Pack, WorkerAt, Before
<1>1. Moved("worker") /\ SamePlan("worker") /\ proc'["worker"].pc = "staged"
    BY ToMoves DEF Pack, Inv, Pc
<1>2. SameRecords /\ UNCHANGED <<job, dest, linked, artifact, source, intent, stop, phase, touched, pub>>
    BY PubStays DEF Pack, Inv
<1>3. CopiesOf(a) /\ staged'[a] = c
    BY <1>0 DEF Pack, CopiesOf, Inv, Types
<1>4. WorkerGoesOn /\ OneRecovery'
    BY <1>0, <1>1, <1>2, GoesOn, NoNewDuty DEF Worker, SamePlan
<1>5. Duties("worker")' /\ Places("worker")'
    BY <1>0, <1>1, <1>2, <1>3 DEF Duties, Places, SamePlan, Before, Filed, Worker
<1>6. ASSUME touched = 0 PROVE LibraryKnown' /\ \A y \in Actor : Safe(y)'
    BY <1>6, <1>0, <1>1, <1>2, <1>3, UnrecordedCopies, UnrecordedSafe DEF Moved
<1>7. Apart("worker")' /\ (touched = 0 => Bound("worker")')
    BY <1>0, <1>1, <1>2 DEF Apart, Bound, SamePlan, Worker, Before, NothingPrepared, Prepared
<1> HIDE DEF a
<1> QED BY <1>0, <1>1, <1>2, <1>3, <1>4, <1>5, <1>6, <1>7, FilesKeep DEF Inv, Types, a

\* The previous archive is copied or linked.
LEMMA TakeBackupStep == ASSUME Inv, TakeBackup PROVE Inv'
<1> USE RecordFacts
<1> DEFINE a == job.attempt
           q == proc["worker"]
           r == [q EXCEPT !.pc = "backed", !.old = dest]
<1>0. Worker.pc = "staged" /\ a \in Attempt /\ pub[a].status = "NONE" /\ q \in ProcType /\ dest \in Bytes
      /\ Duties("worker") /\ Places("worker") /\ (touched = 0 => Bound("worker"))
    BY AtWork DEF TakeBackup, WorkerAt, Before, Inv, Types
<1>a. proc' = [proc EXCEPT !["worker"] = r]
    BY DEF TakeBackup
<1> HIDE DEF q
<1>b. r \in ProcType /\ r.pc = "backed" /\ r.duty = q.duty /\ r.task = q.task /\ r.at = q.at /\ r.todo = q.todo
        /\ r.old = dest
    BY <1>0 DEF ProcType, Pc
<1> HIDE DEF r
<1>1. Moved("worker") /\ proc'["worker"] = r
    BY <1>a, <1>b, PutProc DEF Inv
<1>2. SameRecords /\ UNCHANGED <<job, dest, staged, artifact, source, intent, stop, phase, touched, pub>>
        /\ linked' \subseteq Attempt
    BY <1>0, PubStays DEF TakeBackup, Inv, Types
<1>3. CopiesOf(a) /\ backup'[a] = dest
    BY <1>0 DEF TakeBackup, CopiesOf, Inv, Types
<1>4. WorkerGoesOn /\ OneRecovery'
    BY <1>0, <1>1, <1>2, <1>b, GoesOn, NoNewDuty DEF Worker, q
<1>5. Duties("worker")' /\ Places("worker")'
    BY <1>0, <1>1, <1>2, <1>3, <1>b DEF Duties, Places, Before, Filed, Worker, q
<1>6. ASSUME touched = 0 PROVE LibraryKnown' /\ \A y \in Actor : Safe(y)'
    BY <1>6, <1>0, <1>1, <1>2, <1>3, <1>b, UnrecordedCopies, UnrecordedSafe DEF Moved
<1>7. Apart("worker")' /\ (touched = 0 => Bound("worker")')
    BY <1>0, <1>1, <1>2, <1>3, <1>b DEF Apart, Bound, Worker, Before, NothingPrepared, Prepared, q
<1> HIDE DEF a
<1> QED BY <1>0, <1>1, <1>2, <1>3, <1>4, <1>5, <1>6, <1>7, FilesKeep DEF Inv, Types, a

\* A record that is settled decides nothing either.
LEMMA CleanupStep == ASSUME Inv, NEW x \in Actor, Cleanup(x) PROVE Inv'
<1> USE RecordFacts
<1> DEFINE a == proc[x].at
<1>0. proc[x].pc = "cleanup" /\ a \in Attempt /\ pub[a].status \in Settled /\ pub[a].new \in Content
      /\ Duties(x) /\ Places(x) /\ (touched = 0 => Apart(x) /\ Bound(x))
    BY DEF Cleanup, At, Inv, Always, Calmly, Places, Filed, Journal, Settled
<1>1. To(x, After(x)) /\ UNCHANGED <<job, dest, artifact, intent, stop, phase, touched>>
    BY DEF Cleanup
<1>2. Moved(x) /\ SamePlan(x) /\ proc'[x].pc = After(x) /\ After(x) \in {"leaving", "next"}
    BY <1>1, ToMoves DEF Inv, After, Pc
<1>3. SameRecords /\ source' \subseteq Version
  <2>1. CASE pub' = pub /\ source' = source
    BY <2>1, PubStays DEF Inv, Types
  <2>2. CASE pub' = [pub EXCEPT ![a].cleaned = TRUE] /\ source' \subseteq source
    <3> DEFINE q == pub[a]
               r == [q EXCEPT !.cleaned = TRUE]
    <3>1. q \in PubType /\ pub' = [pub EXCEPT ![a] = r]
      BY <1>0, <2>2 DEF Inv, Types
    <3> HIDE DEF q
    <3>2. r \in PubType /\ r.status = q.status /\ r.task = q.task /\ r.old = q.old /\ r.new = q.new
      BY <3>1 DEF PubType
    <3> HIDE DEF r
    <3> HIDE DEF a
    <3> QED BY <1>0, <2>2, <3>1, <3>2 DEF SameRecords, Inv, Types, q
  <2> QED BY <2>1, <2>2 DEF Cleanup
<1>4. CopiesOf(a) /\ staged'[a] = None /\ linked' \subseteq Attempt
    BY <1>0 DEF Cleanup, CopiesOf, Inv, Types, Bytes
<1>5. WorkerGoesOn /\ OneRecovery'
    BY <1>0, <1>1, <1>2, GoesOn, NoNewDuty DEF SamePlan
<1>6. Duties(x)'
    BY <1>0, <1>1, <1>2 DEF Duties, SamePlan, Before, After
<1>7. Places(x)'
  <2>1. proc[x].todo \subseteq Attempt
    BY DEF Inv, Types, ProcType
  <2> QED BY <1>0, <1>2, <1>3, <2>1 DEF Places, SamePlan, Before, Filed, SameRecords, Settled
<1>8. ASSUME touched = 0 PROVE Apart(x)' /\ Bound(x)'
  <2>1. \A b : Active(b)' => Active(b)
    BY <1>1, <1>5 DEF Active, Worker, WorkerGoesOn
  <2>2. Apart(x)'
    BY <1>0, <1>2, <1>3, <1>8, <2>1 DEF Apart, SameRecords, SamePlan
  <2>3. Worker.pc = "idle" => (Worker.pc)' = "idle"
    BY <1>5 DEF WorkerGoesOn, Worker
  <2>4. Bound(x)'
    BY <1>0, <1>1, <1>2, <1>3, <1>8, <2>3 DEF Bound, SameRecords, SamePlan, NothingPrepared, Prepared, Before
  <2> QED BY <2>2, <2>4
<1>9. ASSUME touched = 0 PROVE LibraryKnown' /\ \A y \in Actor : Safe(y)'
  <2>1. LibraryKnown'
    BY <1>9, <1>0, <1>1, <1>3, <1>4 DEF Inv, Calmly, LibraryKnown, SameRecords, CopiesOf, Prepared, Restorable, Settled
  <2>2. None \notin Content
    BY PackingAssumption
  <2>3. ASSUME NEW y \in Actor PROVE Safe(y)'
    <3>1. CASE proc'[y].pc \notin {"replace", "finish"}
      BY <3>1 DEF Safe
    <3>2. CASE proc'[y] = proc[y] /\ proc[y].pc \in {"replace", "finish"}
      <4>1. proc[y].at \in Attempt /\ Safe(y)
        BY <3>2, <1>9 DEF Inv, Always, Calmly, Places, Filed
      <4>2. CASE proc[y].at = a
        BY <4>1, <4>2, <3>2, <1>0, <1>3, <1>4, <2>2 DEF Safe, SameRecords, Prepared, Settled
      <4>3. CASE proc[y].at # a
        BY <4>1, <4>3, <3>2, <1>1, <1>3, <1>4 DEF Safe, Eligible, SameRecords, CopiesOf, Prepared
      <4> QED BY <4>2, <4>3
    <3> QED BY <3>1, <3>2, <1>2 DEF Moved
  <2> QED BY <2>1, <2>3
<1> HIDE DEF a
<1>10. pub[a].status # "NONE"
    BY <1>0 DEF Settled
<1> QED BY <1>0, <1>1, <1>2, <1>3, <1>4, <1>5, <1>6, <1>7, <1>8, <1>9, <1>10, FilesKeep DEF Inv, Types

\* The new archive takes the place of the old: only for a record that is still prepared.
LEMMA ReplaceStep == ASSUME Inv, NEW x \in Actor, Replace(x) PROVE Inv'
<1> USE RecordFacts
<1> DEFINE a == proc[x].at
<1>0. proc[x].pc = "replace" /\ a \in Attempt /\ pub[a].status # "NONE" /\ pub[a].new \in Content
      /\ Duties(x) /\ Places(x) /\ (touched = 0 => Apart(x) /\ Bound(x) /\ Safe(x))
    BY DEF Replace, At, Inv, Always, Calmly, Places, Filed, Journal
<1>1. To(x, "finish") /\ UNCHANGED <<job, pub, backup, artifact, source, intent, stop, phase, touched>>
    BY DEF Replace
<1>2. Moved(x) /\ SamePlan(x) /\ proc'[x].pc = "finish"
    BY <1>1, ToMoves DEF Inv, Pc
<1>3. SameRecords
    BY <1>1, PubStays DEF Inv
<1>4. CASE ~(Eligible(x, a) /\ Replaces(a))
  <2>1. Calm0 /\ UNCHANGED <<job, source, intent, stop, phase>>
    BY <1>1, <1>4 DEF Replace, Calm0
  <2>2. Duties(x)' /\ Places(x)'
    BY <1>0, <1>2, <2>1 DEF Duties, Places, SamePlan, Before, Filed, Calm0
  <2>3. ASSUME touched = 0 PROVE Apart(x)' /\ Bound(x)' /\ Safe(x)'
    <3>1. proc'["worker"].pc = "idle" <=> Worker.pc = "idle"
      BY <1>0, <1>2 DEF Worker, Moved
    <3>2. Apart(x)'
      BY <3>1, <1>0, <1>2, <2>1, <2>3 DEF Apart, Active, Worker, SamePlan, Calm0
    <3>3. Bound(x)'
      BY <3>1, <1>0, <1>2, <2>1, <2>3 DEF Bound, Worker, SamePlan, Calm0, Prepared, Before
    <3>4. Prepared(a) => dest = pub[a].old \/ dest = pub[a].new
      BY <1>0, <2>3 DEF Inv, Calmly, LibraryKnown
    <3>5. Safe(x)'
      BY <3>4, <1>0, <1>2, <1>4, <2>1 DEF Safe, Eligible, Replaces, SamePlan, Calm0, Prepared
    <3> QED BY <3>2, <3>3, <3>5
  <2> QED BY <1>0, <1>2, <2>1, <2>2, <2>3, GoOnKeeps DEF MoverFine, SamePlan
<1>5. CASE Eligible(x, a) /\ Replaces(a)
  <2>1. dest' = staged[a] /\ staged' = [staged EXCEPT ![a] = None] /\ linked' = {}
    BY <1>5 DEF Replace
  <2>2. CopiesOf(a) /\ staged'[a] = None /\ dest' = pub[a].new /\ dest' \in Bytes
    BY <1>0, <1>1, <1>5, <2>1 DEF CopiesOf, Inv, Types, Bytes, Replaces
  <2>3. WorkerGoesOn /\ OneRecovery'
    BY <1>0, <1>1, <1>2, GoesOn, NoNewDuty DEF SamePlan
  <2>4. Duties(x)' /\ Places(x)'
    BY <1>0, <1>1, <1>2 DEF Duties, Places, SamePlan, Before, Filed
  <2>5. ASSUME touched = 0
        PROVE  Apart(x)' /\ Bound(x)' /\ LibraryKnown' /\ \A y \in Actor : Safe(y)'
    <3>1. proc'["worker"].pc = "idle" <=> Worker.pc = "idle"
      BY <1>0, <1>2 DEF Worker, Moved
    <3>2. Apart(x)'
      BY <3>1, <1>0, <1>1, <1>2, <2>5 DEF Apart, Active, Worker, SamePlan
    <3>3. Bound(x)'
      BY <3>1, <1>0, <1>1, <1>2, <2>5 DEF Bound, Worker, SamePlan, Prepared, Before
    <3>4. Prepared(a)
      BY <1>0, <1>5, <2>5 DEF Safe, Replaces
    <3>5. \A b \in Attempt : Prepared(b) => b = a
      BY <3>4, <1>0 DEF Inv, Always, OneUnsettled, Prepared, Unsettled
    <3>6. None \notin Content
      BY PackingAssumption
    <3>7. pub[a].old = artifact /\ Restorable(a)
      BY <3>4, <1>0, <1>5, <2>5 DEF Inv, Calmly, LibraryKnown, Replaces
    <3>8. LibraryKnown'
      BY <3>4, <3>5, <3>7, <1>0, <1>1, <2>2 DEF LibraryKnown, Prepared, Restorable
    <3>9. ASSUME NEW y \in Actor PROVE Safe(y)'
      <4>1. proc'[y].at = a /\ proc'[y].pc \in {"replace", "finish"} => Safe(y)'
        BY <3>6, <1>0, <1>1, <2>2 DEF Safe
      <4>2. CASE y # x /\ proc[y].at # a /\ proc[y].pc \in {"replace", "finish"}
        <5>1. proc'[y] = proc[y] /\ proc[y].at \in Attempt /\ Safe(y)
          BY <4>2, <1>2, <2>5 DEF Moved, Inv, Always, Calmly, Places, Filed
        <5> QED BY <4>2, <5>1, <3>5, <1>1, <2>2 DEF Safe, Eligible, CopiesOf, Prepared
      <4>3. proc'[y].pc \notin {"replace", "finish"} => Safe(y)'
        BY DEF Safe
      <4> QED BY <4>1, <4>2, <4>3, <1>2 DEF Moved, SamePlan
    <3> QED BY <3>2, <3>3, <3>8, <3>9
  <2> HIDE DEF a
  <2> QED BY <1>0, <1>1, <1>2, <1>3, <2>1, <2>2, <2>3, <2>4, <2>5, FilesKeep DEF Inv, Types
<1> QED BY <1>4, <1>5

\* Putting the previous archive back, from its copy.
LEMMA RestoreFacts ==
    ASSUME Inv, NEW a \in Attempt, Restore(a), pub' = pub, staged' = staged
    PROVE  /\ CopiesOf(a) /\ linked' \subseteq Attempt /\ dest' = pub[a].old /\ dest' \in Bytes
           /\ dest = pub[a].old => backup' = backup
BY RecordFacts DEF Restore, CopiesOf, Inv, Types, PubType, Bytes

\* A process that is lost leaves every actor at rest.
LEMMA GoneFacts ==
    ASSUME Gone
    PROVE  /\ proc' \in [Actor -> ProcType] /\ (\A x \in Actor : proc'[x] = Resting) /\ stop' = FALSE /\ phase' = "down"
           /\ (\A x \in Actor : Duties(x)' /\ Places(x)' /\ Apart(x)' /\ Bound(x)' /\ Safe(x)') /\ OneRecovery'
<1>1. proc' \in [Actor -> ProcType] /\ (\A x \in Actor : proc'[x] = Resting) /\ stop' = FALSE /\ phase' = "down"
    BY RestingTyped DEF Gone
<1>2. \A x \in Actor : Duties(x)' /\ Places(x)' /\ Apart(x)' /\ Bound(x)' /\ Safe(x)'
    BY <1>1, RestingTyped, RecordFacts DEF Duties, Places, Apart, Bound, Safe, Before, Filed
<1>3. OneRecovery'
    BY <1>1, RestingTyped DEF OneRecovery
<1> QED BY <1>1, <1>2, <1>3

\* The process is lost.
LEMMA CrashStep == ASSUME Inv, Crash PROVE Inv'
<1>1. SameRecords /\ Gone /\ UNCHANGED <<job, pub, files, artifact, source, intent, touched>>
    BY PubStays DEF Crash, Inv
<1>2. Types'
    BY <1>1, GoneFacts DEF Inv, Types, files
<1>3. touched = 0 => LibraryKnown'
    BY <1>1 DEF Inv, Calmly, LibraryKnown, files, Prepared, Restorable
<1> QED BY <1>1, <1>2, <1>3, GoneFacts, RowAtFiles DEF Inv, Always, Calmly

\* A restored archive is the artifact, whatever becomes of the record.
LEMMA RestoredHalf ==
    ASSUME Inv, NEW a \in Attempt, Prepared(a), Restore(a), UNCHANGED <<pub, staged, artifact, touched>>, touched = 0
    PROVE  /\ LibraryKnown'
           /\ \A y \in Actor : proc'[y] = proc[y] /\ UNCHANGED <<job, stop>> => Safe(y)'
<1>1. CopiesOf(a) /\ dest' = pub[a].old /\ (dest = pub[a].old => backup' = backup)
    BY RestoreFacts
<1>2. LibraryKnown /\ pub[a].new \in Content /\ None \notin Content
    BY PackingAssumption DEF Inv, Calmly, Always, Journal, Prepared
<1>3. \A b \in Attempt : Prepared(b) => b = a
    BY DEF Inv, Always, OneUnsettled, Prepared, Unsettled
<1>4. staged[a] = pub[a].new => dest = pub[a].old /\ Restorable(a)
    BY <1>2 DEF LibraryKnown
<1>5. LibraryKnown'
    BY <1>1, <1>2, <1>3, <1>4 DEF LibraryKnown, Prepared, Restorable
<1>6. ASSUME NEW y \in Actor, proc'[y] = proc[y], UNCHANGED <<job, stop>> PROVE Safe(y)'
  <2>1. CASE proc[y].pc \notin {"replace", "finish"}
    BY <2>1, <1>6 DEF Safe
  <2>2. CASE proc[y].pc = "replace"
    BY <2>2, <1>6 DEF Safe, Eligible, Inv, Calmly, Prepared
  <2>3. CASE proc[y].pc = "finish"
    <3>1. proc[y].at \in Attempt /\ Safe(y)
      BY <2>3 DEF Inv, Always, Calmly, Places, Filed
    <3> QED BY <2>3, <3>1, <1>3, <1>4, <1>1, <1>6 DEF Safe, Eligible, Prepared
  <2> QED BY <2>1, <2>2, <2>3
<1> QED BY <1>5, <1>6

\* The process is lost between the restored file and its record.
LEMMA HalfFinishStep == ASSUME Inv, NEW x \in Actor, HalfFinish(x) PROVE Inv'
<1> USE RecordFacts
<1> DEFINE a == proc[x].at
<1>0. proc[x].pc = "finish" /\ a \in Attempt /\ Prepared(a)
      /\ Duties(x) /\ Places(x) /\ (touched = 0 => Apart(x) /\ Bound(x))
    BY DEF HalfFinish, At, Inv, Always, Calmly, Places, Filed, Prepared
<1>1. Restore(a) /\ UNCHANGED <<job, pub, staged, artifact, source, intent, touched>>
    BY DEF HalfFinish
<1>2. SameRecords /\ CopiesOf(a) /\ linked' \subseteq Attempt /\ dest' \in Bytes
    BY <1>0, <1>1, PubStays, RestoreFacts DEF Inv
<1>3. CASE Gone
  <2>1. Types'
    BY <1>1, <1>2, <1>3, GoneFacts DEF Inv, Types, CopiesOf
  <2>2. touched = 0 => LibraryKnown'
    BY <1>0, <1>1, RestoredHalf
  <2> QED BY <2>1, <2>2, <1>1, <1>2, <1>3, GoneFacts, RowAtFiles DEF Inv, Always, Calmly
<1>4. CASE Break(x) /\ UNCHANGED <<stop, phase>>
  <2>1. Moved(x) /\ (proc'[x] = Resting \/ (x = "worker" /\ proc[x].duty = "publish" /\ SamePlan(x)
          /\ proc'[x].pc = "failed"))
    <3>1. CASE proc[x].duty = "publish"
      BY <3>1, <1>4, <1>0, ToMoves DEF Break, Inv, Duties, Pc
    <3>2. CASE proc[x].duty # "publish"
      BY <3>2, <1>4, RestMoves DEF Break, Inv
    <3> QED BY <3>1, <3>2
  <2>2. Duties(x)' /\ Places(x)' /\ (touched = 0 => Apart(x)' /\ Bound(x)' /\ Safe(x)')
    <3>1. CASE proc'[x] = Resting
      BY <3>1, RestIsFine DEF MoverFine
    <3>2. CASE x = "worker" /\ proc[x].duty = "publish" /\ SamePlan(x) /\ proc'[x].pc = "failed"
      <4>1. Duties(x)' /\ Places(x)'
        BY <3>2, <1>0, <1>1 DEF Duties, Places, SamePlan, Before, Filed
      <4>2. Apart(x)' /\ Safe(x)' /\ (touched = 0 => Bound(x)')
        BY <3>2, <1>0, <1>1 DEF Apart, Bound, Safe, SamePlan, Before
      <4> QED BY <4>1, <4>2
    <3> QED BY <2>1, <3>1, <3>2
  <2>3. WorkerGoesOn
    BY <1>0, <1>4, <2>1, GoesOn
  <2>4. OneRecovery'
    BY <2>1, NoNewDuty, RestingTyped DEF SamePlan
  <2>5. touched = 0 => LibraryKnown' /\ \A y \in Actor : Safe(y)'
    BY <1>0, <1>1, <1>4, <2>1, <2>2, RestoredHalf DEF Moved
  <2>6. pub[a].status # "NONE"
    BY <1>0 DEF Prepared
  <2> HIDE DEF a
  <2> QED BY <1>0, <1>1, <1>2, <1>4, <2>1, <2>2, <2>3, <2>4, <2>5, <2>6, FilesKeep DEF Inv, Types
<1> QED BY <1>3, <1>4 DEF HalfFinish

\* A worker claims a queued row under a new attempt: its task has nothing prepared.
LEMMA ClaimStep == ASSUME Inv, Claim PROVE Inv'
<1> USE RecordFacts, PackingAssumption
<1> DEFINE n == job.attempt + 1
           q == job
           j == [q EXCEPT !.state = "RUNNING", !.attempt = n]
           o == Resting
           t == job.task
           r == [o EXCEPT !.pc = "packing", !.duty = "publish", !.task = t, !.at = n]
<1>0. q \in JobType /\ n \in Attempt /\ n \in 0..MaxAttempt /\ t \in 0..MaxTask /\ o \in ProcType
      /\ n # job.attempt /\ n > job.attempt
    BY RestingTyped DEF Claim, Inv, Types, JobType, Attempt
<1>1. job' = j /\ proc' = [proc EXCEPT !["worker"] = r] /\ stop' = FALSE
      /\ UNCHANGED <<pub, files, artifact, source, intent, phase, touched>>
    BY DEF Claim
<1>a. q.state = "PENDING" /\ Worker.pc = "idle" /\ q.task = t /\ o.todo = {} /\ o.pc = "idle"
    BY RestingTyped DEF Claim
<1>b. \A a \in Attempt : pub[a].status # "NONE" => a # n /\ pub[a].task <= t /\ pub[a].new \in Content
  <2> SUFFICES ASSUME NEW a \in Attempt, pub[a].status # "NONE" PROVE a # n /\ pub[a].task <= t
                        /\ pub[a].new \in Content
    OBVIOUS
  <2>1. a <= job.attempt /\ pub[a].task <= job.task /\ pub[a].new \in Content
    BY DEF Inv, Always, Journal
  <2> QED BY <2>1 DEF Inv, Types, JobType, Attempt
<1>c. q.input # 0
    BY <1>a DEF Inv, Always, Row
<1>d. \A a \in Attempt : pub[a].status = "COMMITTED" => pub[a].task # t
    BY <1>a DEF Inv, Always, CommittedIsOver, Over
<1>e. touched = 0 => NothingPrepared(t)
    BY <1>a DEF Inv, Calmly, StillIsSettled, Still
<1>k. \A a \in Attempt : pub[a].status # "NONE" => a <= n
  <2> SUFFICES ASSUME NEW a \in Attempt, pub[a].status # "NONE" PROVE a <= n
    OBVIOUS
  <2>1. a <= job.attempt
    BY DEF Inv, Always, Journal
  <2> QED BY <2>1 DEF Inv, Types, JobType, Attempt
<1>f. \A y \in Actor : y # "worker" => Duties(y) /\ Places(y) /\ (touched = 0 => Apart(y) /\ Bound(y) /\ Safe(y))
    BY DEF Inv, Always, Calmly
<1>g. \A y \in Actor : proc[y] \in ProcType
    BY DEF Inv
<1>h. touched = 0 => \A y \in Actor : proc[y].duty # "stop" /\ (proc[y].duty = "reclaim" => proc[y].task <= t
        /\ proc[y].task # t)
    BY <1>a DEF Inv, Calmly, Bound, Over
<1> HIDE DEF o, q, n, t
<1>2. j \in JobType /\ j.state = "RUNNING" /\ j.attempt = n /\ j.task = t /\ j.input = q.input
    BY <1>0, <1>a DEF JobType, JobState
<1>3. r \in ProcType /\ r.pc = "packing" /\ r.duty = "publish" /\ r.task = t /\ r.at = n /\ r.todo = {}
    BY <1>0, <1>a DEF ProcType, Pc, Duty
<1> HIDE DEF j, r
<1>4. Moved("worker") /\ proc'["worker"] = r
    BY <1>1, <1>3, PutProc DEF Inv
<1>5. Types'
    BY <1>1, <1>2, <1>4 DEF Inv, Types, Moved, files
<1>6. Row' /\ Journal' /\ OneUnsettled' /\ CommittedIsOver'
    BY <1>1, <1>2, <1>b, <1>c, <1>d, <1>k DEF Inv, Always, Row, Journal, OneUnsettled, CommittedIsOver
<1>7. OneRecovery'
    BY <1>3, <1>4 DEF Inv, OneRecovery, Moved
<1>8. Duties("worker")' /\ Places("worker")'
    BY <1>0, <1>1, <1>2, <1>3, <1>4, <1>b DEF Duties, Places, Before, Filed, Attempt
<1>9. ASSUME touched = 0 PROVE Apart("worker")' /\ Bound("worker")' /\ Safe("worker")'
    BY <1>9, <1>1, <1>2, <1>3, <1>4, <1>e DEF Apart, Bound, Safe, NothingPrepared, Prepared
<1>10. ASSUME NEW y \in Actor, y # "worker" PROVE Duties(y)' /\ Places(y)' /\ (touched = 0 => Apart(y)' /\ Bound(y)'
                /\ Safe(y)')
  <2>1. proc'[y] = proc[y]
    BY <1>4, <1>10 DEF Moved
  <2>2. Duties(y)' /\ Places(y)'
    BY <2>1, <1>1, <1>f, <1>10 DEF Duties, Places, Before, Filed
  <2>3. ASSUME touched = 0 PROVE Apart(y)' /\ Bound(y)' /\ Safe(y)'
    <3>1. Apart(y)'
      BY <2>1, <1>1, <1>2, <1>b DEF Apart, Active
    <3>2. proc[y].pc \notin Before
      BY <1>f, <1>10 DEF Duties, Before
    <3>3. Bound(y)'
      BY <3>2, <2>1, <2>3, <1>1, <1>2, <1>f, <1>h, <1>10 DEF Bound, Prepared, Before
    <3>4. Safe(y)'
      BY <2>1, <1>1, <1>2, <1>b, <1>f, <1>10 DEF Safe, Eligible, Places, Filed
    <3> QED BY <3>1, <3>3, <3>4
  <2> QED BY <2>2, <2>3
<1>11. touched = 0 => NoneAsked' /\ LibraryKnown' /\ StillIsSettled'
    BY <1>1, <1>2 DEF Inv, Calmly, NoneAsked, LibraryKnown, StillIsSettled, Still, Prepared, Restorable, files
<1> QED BY <1>1, <1>5, <1>6, <1>7, <1>8, <1>9, <1>10, <1>11 DEF Inv, Always, Calmly

\* The worker does not write the journal after all, and throws its copy away.
LEMMA NotPrepared ==
    ASSUME Inv, Worker.pc \in {"backed", "changed"}, To("worker", "failed") \/ To("worker", "leaving"),
           backup' = [backup EXCEPT ![job.attempt] = None], linked' = linked \ {job.attempt},
           UNCHANGED <<job, pub, dest, staged, artifact, source, intent, stop, phase, touched>>
    PROVE  Inv'
<1> USE RecordFacts
<1> DEFINE a == job.attempt
<1>0. a \in Attempt /\ pub[a].status = "NONE" /\ Worker.duty = "publish"
      /\ Duties("worker") /\ Places("worker") /\ (touched = 0 => Bound("worker"))
    BY AtWork DEF Before
<1>1. Moved("worker") /\ SamePlan("worker") /\ proc'["worker"].pc \in {"failed", "leaving"}
    BY ToMoves DEF Inv, Pc
<1>2. SameRecords /\ linked' \subseteq Attempt
    BY PubStays DEF Inv, Types
<1>3. CopiesOf(a)
    BY <1>0 DEF CopiesOf, Inv, Types, Bytes
<1>4. WorkerGoesOn /\ OneRecovery'
    BY <1>0, <1>1, <1>2, GoesOn, NoNewDuty DEF Worker, SamePlan
<1>5. Duties("worker")' /\ Places("worker")'
    BY <1>0, <1>1 DEF Duties, Places, SamePlan, Before, Filed, Worker
<1>6. ASSUME touched = 0 PROVE LibraryKnown' /\ \A y \in Actor : Safe(y)'
    BY <1>6, <1>0, <1>1, <1>2, <1>3, UnrecordedCopies, UnrecordedSafe DEF Moved
<1>7. Apart("worker")' /\ (touched = 0 => Bound("worker")')
    BY <1>0, <1>1, <1>2 DEF Apart, Bound, SamePlan, Worker, Before
<1> HIDE DEF a
<1> QED BY <1>0, <1>1, <1>2, <1>3, <1>4, <1>5, <1>6, <1>7, FilesKeep DEF Inv, Types, a

\* The worker writes the journal: the old archive is the artifact, and its copy is kept.
LEMMA Journalled ==
    ASSUME Inv, Worker.pc \in {"backed", "changed"}, Valid, Unchanged, IndexFree, NEW keep \in BOOLEAN,
           pub' = [pub EXCEPT ![job.attempt] =
               [status |-> "PREPARED", task |-> job.task, input |-> job.input, old |-> Worker.old,
                new |-> staged[job.attempt], keep |-> keep, cleaned |-> FALSE]],
           To("worker", "replace"),
           UNCHANGED <<job, dest, staged, backup, linked, artifact, source, intent, stop, phase, touched>>
    PROVE  Inv'
<1> USE RecordFacts
<1> DEFINE a == job.attempt
           t == job.task
           i == job.input
           o == Worker.old
           n == staged[a]
           r == [status |-> "PREPARED", task |-> t, input |-> i, old |-> o, new |-> n, keep |-> keep, cleaned |-> FALSE]
<1>0. a \in Attempt /\ pub[a].status = "NONE" /\ Worker.duty = "publish" /\ Worker.pc = "backed" /\ dest = o
      /\ Duties("worker") /\ Places("worker") /\ (touched = 0 => Bound("worker")) /\ Worker.task = t
    BY AtWork DEF Before, Unchanged, Valid
<1>a. t \in 0..MaxTask /\ i \in 0..MaxVersion /\ o \in Bytes /\ n \in Content /\ n \in Bytes /\ job \in JobType
    BY <1>0 DEF Inv, Types, JobType, ProcType, Worker, Places, Bytes
<1>b. pub' = [pub EXCEPT ![a] = r]
    OBVIOUS
<1>c. \A b \in Attempt : pub[b].status \notin Unsettled
    BY DEF IndexFree
<1>d. job.state \notin {"STOPPING", "CANCELLED"}
    BY DEF Valid
<1>e. touched = 0 => backup[a] = o /\ job.state \notin Still
    BY <1>0, <1>d DEF Bound, Worker, Still, Before
<1>f. \A y \in Actor : y # "worker" =>
          Duties(y) /\ Places(y) /\ proc[y] \in ProcType /\ (touched = 0 => Apart(y) /\ Bound(y) /\ Safe(y))
    BY DEF Inv, Always, Calmly
<1>g. touched = 0 => \A y \in Actor : y # "worker" /\ proc[y].duty \in {"stop", "reclaim"} => proc[y].task # t
    BY <1>0, <1>f DEF Bound
<1>h. touched = 0 => dest = artifact
    BY <1>c DEF Inv, Calmly, LibraryKnown, Prepared, Unsettled
<1> HIDE DEF t, i, o, n
<1>1. /\ r \in PubType /\ r.status = "PREPARED" /\ r.task = t /\ r.old = o /\ r.new = n
    BY <1>a DEF PubType
<1> HIDE DEF r
<1>2. /\ pub' \in [Attempt -> PubType] /\ pub'[a] = r /\ \A b \in Attempt : b # a => pub'[b] = pub[b]
    BY <1>b, <1>1, <1>0 DEF Inv, Types
<1>3. Moved("worker") /\ SamePlan("worker") /\ proc'["worker"].pc = "replace"
    BY ToMoves DEF Inv, Pc
<1>4. WorkerGoesOn /\ OneRecovery'
    BY <1>0, <1>3, GoesOn, NoNewDuty DEF Worker, SamePlan
<1>5. Types'
    BY <1>2, <1>3 DEF Inv, Types, Moved
<1>6. Row' /\ Journal'
  <2>1. a <= job.attempt /\ t <= job.task
    BY <1>a DEF JobType, t
  <2> QED BY <2>1, <1>1, <1>2, <1>a DEF Inv, Always, Row, Journal
<1>7. OneUnsettled' /\ CommittedIsOver'
  <2>1. OneUnsettled'
    BY <1>2, <1>c DEF OneUnsettled
  <2>2. CommittedIsOver'
    BY <1>1, <1>2 DEF Inv, Always, CommittedIsOver
  <2> QED BY <2>1, <2>2
<1>8. Duties("worker")' /\ Places("worker")'
    BY <1>0, <1>1, <1>2, <1>3 DEF Duties, Places, SamePlan, Before, Filed, Worker, Inv, Types, ProcType
<1>9. ASSUME touched = 0 PROVE Apart("worker")' /\ Bound("worker")' /\ Safe("worker")'
  <2>1. proc'["worker"].at = a
    BY <1>0, <1>3 DEF SamePlan, Duties, Worker
  <2> QED BY <1>9, <2>1, <1>0, <1>1, <1>2, <1>3 DEF Apart, Bound, Safe, SamePlan, Before, Worker, Prepared
<1>10. ASSUME NEW y \in Actor, y # "worker" PROVE Duties(y)' /\ Places(y)' /\ (touched = 0 => Apart(y)' /\ Bound(y)'
                /\ Safe(y)')
  <2>1. proc'[y] = proc[y]
    BY <1>3, <1>10 DEF Moved
  <2>2. proc[y].todo \subseteq Attempt /\ (proc[y].at # 0 => proc[y].at \in Attempt)
    BY <1>f, <1>10, PackingAssumption DEF ProcType, Attempt
  <2>3. a \notin proc[y].todo /\ proc[y].at # a
    BY <1>0, <1>f, <1>10, <2>2 DEF Places
  <2>4. proc[y].pc \notin Before
    BY <1>f, <1>10 DEF Duties, Before
  <2>5. Duties(y)' /\ Places(y)'
    BY <2>1, <2>2, <2>3, <2>4, <1>2, <1>f, <1>10 DEF Duties, Places, Filed
  <2>6. ASSUME touched = 0 PROVE Apart(y)' /\ Bound(y)' /\ Safe(y)'
    <3>0. \A b : Active(b)' => Active(b)
      BY <1>0, <1>3 DEF Active, Worker
    <3>1. Apart(y)'
      BY <3>0, <2>1, <2>3, <2>6, <1>1, <1>2, <1>f, <1>g, <1>10 DEF Apart
    <3>3. Bound(y)'
      BY <2>1, <2>4, <2>6, <1>0, <1>1, <1>2, <1>f, <1>g, <1>10 DEF Bound, Prepared, Before
    <3>4. Safe(y)'
      BY <2>1, <2>2, <2>3, <2>6, <1>2, <1>f, <1>10 DEF Safe, Eligible, Prepared, Places, Filed
    <3> QED BY <3>1, <3>3, <3>4
  <2> QED BY <2>5, <2>6
<1>11. touched = 0 => NoneAsked' /\ StillIsSettled'
  <2>1. touched = 0 => NoneAsked'
    BY <1>1, <1>2 DEF Inv, Calmly, NoneAsked
  <2>2. touched = 0 => StillIsSettled'
    BY <1>e DEF StillIsSettled
  <2> QED BY <2>1, <2>2
<1>12. touched = 0 => LibraryKnown'
  <2>1. \A b \in Attempt : Prepared(b)' <=> b = a
    BY <1>0, <1>1, <1>2, <1>c DEF Prepared, Unsettled
  <2> QED BY <2>1, <1>0, <1>1, <1>2, <1>e, <1>h DEF LibraryKnown, Restorable
<1> QED BY <1>4, <1>5, <1>6, <1>7, <1>8, <1>9, <1>10, <1>11, <1>12 DEF Inv, Always, Calmly

\* The worker writes the journal, or finds that the archive changed or the row was taken from it.
LEMMA PrepareStep == ASSUME Inv, Prepare PROVE Inv'
<1>1. Worker.pc \in {"backed", "changed"}
        /\ UNCHANGED <<job, dest, staged, artifact, source, intent, stop, phase, touched>>
    BY DEF Prepare, WorkerAt
<1>2. CASE Valid /\ Unchanged /\ IndexFree
    BY <1>1, <1>2, Journalled DEF Prepare
<1>3. CASE ~(Valid /\ Unchanged /\ IndexFree)
    BY <1>1, <1>3, NotPrepared DEF Prepare
<1> QED BY <1>2, <1>3

\* The record that was prepared gets its outcome.
LEMMA FinishStep == ASSUME Inv, NEW x \in Actor, Finish(x) PROVE Inv'
<1> USE RecordFacts
<1> DEFINE a == proc[x].at
           outcome == Outcome(x, a)
<1>0. proc[x].pc = "finish" /\ a \in Attempt /\ Prepared(a) /\ pub[a].new \in Content
      /\ Duties(x) /\ Places(x) /\ (touched = 0 => Apart(x) /\ Bound(x) /\ Safe(x))
    BY DEF Finish, At, Inv, Always, Calmly, Places, Filed, Journal, Prepared
<1>1. /\ pub' = [pub EXCEPT ![a].status = outcome]
      /\ To(x, IF CleansUp(outcome) THEN "cleanup" ELSE After(x))
      /\ UNCHANGED <<staged, source, intent, stop, phase, touched>>
    BY DEF Finish
<1>2. outcome \in {"COMMITTED", "ROLLED_BACK", "RECOVERY_REQUIRED"}
    BY DEF Outcome
<1>a. outcome = "COMMITTED" =>
        /\ Eligible(x, a) /\ dest = pub[a].new /\ artifact' = pub[a].new /\ SetState("COMPLETED")
        /\ UNCHANGED <<dest, backup, linked>>
    BY DEF Finish, Outcome
<1>b. outcome = "ROLLED_BACK" =>
        /\ ~(Eligible(x, a) /\ dest = pub[a].new) /\ Restore(a) /\ UNCHANGED <<job, artifact>>
    BY DEF Finish, Outcome
<1>c. outcome = "RECOVERY_REQUIRED" =>
        /\ ~Known(a) /\ (job' = job \/ (Eligible(x, a) /\ SetState("WAITING")))
        /\ UNCHANGED <<dest, backup, linked, artifact>>
    BY DEF Finish, Outcome
<1>3. /\ pub' \in [Attempt -> PubType]
      /\ \A b \in Attempt : b # a => pub'[b] = pub[b]
      /\ pub'[a].status = outcome /\ pub'[a].task = pub[a].task /\ pub'[a].old = pub[a].old
      /\ pub'[a].new = pub[a].new
    BY <1>0, <1>1, <1>2, StatusTo DEF Inv
<1>4. Moved(x) /\ SamePlan(x) /\ proc'[x].pc \in {"cleanup", "leaving", "next"}
      /\ (proc'[x].pc = "cleanup" <=> outcome \in Settled)
      /\ (proc'[x].pc = "leaving" => proc[x].duty = "publish")
      /\ (proc'[x].pc = "next" => proc[x].duty # "publish")
  <2> DEFINE p == IF CleansUp(outcome) THEN "cleanup" ELSE After(x)
  <2>1. p \in {"cleanup", "leaving", "next"} /\ p \in Pc /\ (p = "cleanup" <=> outcome \in Settled)
        /\ (p = "leaving" => proc[x].duty = "publish") /\ (p = "next" => proc[x].duty # "publish")
    BY DEF After, CleansUp, Settled, Pc
  <2>2. To(x, p)
    BY <1>1
  <2> HIDE DEF p, outcome, a
  <2>3. Moved(x) /\ SamePlan(x) /\ proc'[x].pc = p
    BY <2>1, <2>2, ToMoves DEF Inv
  <2> QED BY <2>1, <2>3
<1> HIDE DEF outcome
<1>5. \A b \in Attempt : pub[b].status \in Unsettled => b = a
    BY <1>0 DEF Inv, Always, OneUnsettled, Prepared, Unsettled
<1>6. /\ CopiesOf(a) /\ linked' \subseteq Attempt /\ dest' \in Bytes /\ artifact' \in Content \union {None}
  <2>1. CASE outcome = "ROLLED_BACK"
    <3>1. Restore(a) /\ staged' = staged /\ artifact' = artifact
      BY <2>1, <1>1, <1>b
    <3> QED BY <3>1, <1>0 DEF Restore, CopiesOf, Inv, Types, PubType, Bytes
  <2>2. CASE outcome # "ROLLED_BACK"
    BY <2>2, <1>0, <1>1, <1>2, <1>a, <1>c DEF CopiesOf, Inv, Types
  <2> QED BY <2>1, <2>2
\* The row
<1>7. /\ job' \in JobType /\ job'.task = job.task /\ job'.attempt = job.attempt /\ job'.input = job.input
      /\ \/ job'.state = job.state /\ outcome # "COMMITTED"
         \/ job.state = "RUNNING" /\ job.attempt = a /\ job'.state = "COMPLETED" /\ outcome = "COMMITTED"
         \/ job.state = "RUNNING" /\ job.attempt = a /\ job'.state = "WAITING" /\ outcome = "RECOVERY_REQUIRED"
  <2>1. CASE outcome = "COMMITTED"
    BY <2>1, <1>a, StateTo DEF Inv, JobState, Eligible
  <2>2. CASE outcome = "ROLLED_BACK"
    BY <2>2, <1>b DEF Inv, Types, JobType
  <2>3. CASE outcome = "RECOVERY_REQUIRED"
    BY <2>3, <1>c, StateTo DEF Inv, JobState, Eligible, Types, JobType
  <2> QED BY <2>1, <2>2, <2>3, <1>2
<1>8. Types'
    BY <1>1, <1>3, <1>4, <1>6, <1>7 DEF Inv, Types, Moved, CopiesOf
<1>9. OneRecovery' /\ WorkerGoesOn
    BY <1>0, <1>1, <1>4, NoNewDuty, GoesOn DEF SamePlan
<1>10. Row' /\ Journal' /\ OneUnsettled'
  <2>1. Row'
    BY <1>1, <1>7 DEF Inv, Always, Row
  <2>2. Journal'
    BY <1>0, <1>3, <1>7 DEF Inv, Always, Journal, Prepared
  <2>3. OneUnsettled'
    BY <1>3, <1>5 DEF OneUnsettled
  <2> QED BY <2>1, <2>2, <2>3
<1>11. CommittedIsOver'
  <2> SUFFICES ASSUME NEW b \in Attempt, pub'[b].status = "COMMITTED"
               PROVE  /\ pub'[b].task = job'.task => b = job'.attempt /\ job'.state \in Over
                      /\ b = job'.attempt => job'.state # "RUNNING"
    BY DEF CommittedIsOver
  <2>1. CASE b = a
    BY <2>1, <1>3, <1>7 DEF Over
  <2>2. CASE b # a
    BY <2>2, <1>3, <1>7 DEF Inv, Always, CommittedIsOver, Over
  <2> QED BY <2>1, <2>2
<1>12. \A y \in Actor : proc[y].todo \subseteq Attempt /\ (proc[y].at # 0 => proc[y].at \in Attempt)
                        /\ (proc[y].pc \in Before => job.attempt \in Attempt /\ job.attempt # a /\ y = "worker")
  <2> SUFFICES ASSUME NEW y \in Actor
               PROVE  proc[y].todo \subseteq Attempt /\ (proc[y].at # 0 => proc[y].at \in Attempt)
                        /\ (proc[y].pc \in Before => job.attempt \in Attempt /\ job.attempt # a /\ y = "worker")
    OBVIOUS
  <2>1. proc[y] \in ProcType /\ Duties(y) /\ Places(y) /\ job \in JobType
    BY DEF Inv, Always, Types
  <2> QED BY <2>1, <1>0, PackingAssumption DEF ProcType, JobType, Attempt, Duties, Places, Before, Prepared
<1>13. \A b \in Attempt : (pub'[b].status = "NONE" <=> pub[b].status = "NONE")
                          /\ (pub[b].status \in Settled => pub'[b].status \in Settled)
                          /\ pub'[b].task = pub[b].task /\ pub'[b].old = pub[b].old /\ pub'[b].new = pub[b].new
                          /\ (Prepared(b)' => Prepared(b) /\ b # a)
    BY <1>0, <1>2, <1>3 DEF Settled, Prepared
<1>14. Duties(x)' /\ Places(x)'
  <2>1. Duties(x)'
    BY <1>0, <1>4, <1>7 DEF Duties, SamePlan, Before
  <2>2. Places(x)'
    BY <1>0, <1>3, <1>4, <1>12, <1>13 DEF Places, SamePlan, Before, Filed
  <2> QED BY <2>1, <2>2
<1>15. ASSUME NEW y \in Actor, y # x PROVE Duties(y)' /\ Places(y)'
  <2>1. proc'[y] = proc[y] /\ Duties(y) /\ Places(y)
    BY <1>4, <1>15 DEF Moved, Inv, Always
  <2>2. Duties(y)'
    BY <2>1, <1>7 DEF Duties
  <2>3. Places(y)'
    BY <2>1, <1>1, <1>7, <1>12, <1>13 DEF Places, Filed
  <2> QED BY <2>2, <2>3
<1>16. ASSUME touched = 0
       PROVE  /\ NoneAsked' /\ LibraryKnown' /\ StillIsSettled'
              /\ \A y \in Actor : Apart(y)' /\ Bound(y)' /\ Safe(y)'
  <2>0. outcome # "RECOVERY_REQUIRED"
    BY <1>c, <1>0, <1>16 DEF Known, Inv, Calmly, LibraryKnown
  <2>1. NoneAsked'
    BY <2>0, <1>2, <1>3, <1>16 DEF Inv, Calmly, NoneAsked
  <2>2. StillIsSettled'
    BY <2>0, <1>7, <1>13, <1>16 DEF Inv, Calmly, StillIsSettled, NothingPrepared, Still
  <2>3. \A b \in Attempt : ~Prepared(b)'
    BY <1>5, <1>13 DEF Prepared, Unsettled
  <2>4. dest' = artifact'
    <3>1. CASE outcome = "COMMITTED"
      BY <3>1, <1>a
    <3>2. CASE outcome = "ROLLED_BACK"
      BY <3>2, <1>b, <1>0, <1>16 DEF Restore, Inv, Calmly, LibraryKnown
    <3> QED BY <3>1, <3>2, <2>0, <1>2
  <2>5. LibraryKnown'
    BY <2>3, <2>4 DEF LibraryKnown
  <2>6. \A b : Active(b)' => Active(b)
    BY <1>7, <1>9 DEF Active, Worker, WorkerGoesOn
  <2>7. Worker.pc = "idle" => (Worker.pc)' = "idle"
    BY <1>9 DEF Worker, WorkerGoesOn
  <2>8. ASSUME NEW y \in Actor PROVE Apart(y)' /\ Bound(y)'
    <3>0. Apart(y) /\ Bound(y)
      BY <1>16 DEF Inv, Calmly
    <3>1. /\ proc'[y].duty = proc[y].duty /\ proc'[y].task = proc[y].task /\ proc'[y].at = proc[y].at
          /\ proc'[y].todo = proc[y].todo /\ proc'[y].old = proc[y].old
          /\ (proc'[y].pc = proc[y].pc \/ (y = x /\ proc'[y].pc \in {"cleanup", "leaving", "next"}))
      BY <1>4 DEF Moved, SamePlan
    <3>2. Apart(y)'
      BY <3>0, <3>1, <2>6, <1>13 DEF Apart
    <3>3. proc'[y].pc \in Before \union {"changed"} => proc'[y].pc = proc[y].pc
      BY <3>1 DEF Before
    <3>4. proc'[y].pc = "backed" => backup'[job'.attempt] = proc'[y].old
      BY <3>0, <3>1, <1>6, <1>7, <1>12 DEF Bound, CopiesOf, Before
    <3>5. proc'[y].pc \in Before /\ proc'[y].task = job'.task =>
            NothingPrepared(job.task)' /\ job'.state \notin {"PENDING", "PAUSED", "WAITING"}
      BY <3>0, <3>3, <3>1, <2>0, <2>3, <1>7 DEF Bound, NothingPrepared
    <3>6. proc'[y].duty = "stop" => job'.state = "STOPPING" /\ job'.task = proc'[y].task /\ (Worker.pc)' = "idle"
      BY <3>0, <3>1, <2>7, <1>7 DEF Bound
    <3>7. proc'[y].duty = "reclaim" =>
            /\ proc'[y].task <= job'.task
            /\ job'.task = proc'[y].task => (Worker.pc)' = "idle" /\ job'.state \in Over \union {"RUNNING"}
      BY <3>0, <3>1, <2>0, <2>7, <1>7 DEF Bound, Over
    <3>8. proc'[y].duty # "retry" /\ proc'[y].pc # "changed"
      BY <3>0, <3>1 DEF Bound
    <3>9. Bound(y)'
      BY <3>4, <3>5, <3>6, <3>7, <3>8, <2>3 DEF Bound
    <3> QED BY <3>2, <3>9
  <2>9. ASSUME NEW y \in Actor PROVE Safe(y)'
    <3>1. CASE proc'[y].pc # "replace"
      BY <3>1, <2>3, <1>12, <1>14, <1>15 DEF Safe, Places, Filed
    <3>2. CASE proc'[y].pc = "replace"
      <4>1. y # x /\ proc'[y] = proc[y] /\ proc[y].at \in Attempt
        BY <3>2, <1>4, <1>15 DEF Moved, Places, Filed
      <4>2. Safe(y) /\ Apart(y)
        BY <1>16 DEF Inv, Calmly
      <4>3. SUFFICES ASSUME Eligible(y, proc[y].at)', staged[proc[y].at] = pub[proc[y].at].new PROVE FALSE
        BY <4>1, <1>1, <1>13 DEF Safe
      <4>4. outcome = "ROLLED_BACK" /\ job' = job /\ stop' = stop
        <5>1. job'.state = "RUNNING"
          BY <4>3 DEF Eligible
        <5>2. outcome = "ROLLED_BACK"
          BY <5>1, <2>0, <1>2, <1>7
        <5> QED BY <5>2, <1>1, <1>b
      <4>5. Eligible(y, proc[y].at)
        BY <4>1, <4>3, <4>4 DEF Eligible
      <4>6. Prepared(proc[y].at) /\ proc[y].at = a
        BY <4>1, <4>2, <4>3, <4>5, <3>2, <1>5 DEF Safe, Prepared, Unsettled
      <4>7. CASE x = "worker"
        <5>1. Active(a)
          BY <4>5, <4>6, <4>7, <1>0 DEF Active, Worker, Eligible
        <5> QED BY <5>1, <4>1, <4>2, <4>6, <4>7 DEF Apart, Prepared
      <4>8. CASE x # "worker"
        <5>1. Eligible(x, a)
          BY <4>5, <4>6, <4>8 DEF Eligible
        <5> QED BY <5>1, <4>3, <4>4, <4>6, <1>0, <1>b, <1>16 DEF Safe
      <4> QED BY <4>7, <4>8
    <3> QED BY <3>1, <3>2
  <2> QED BY <2>1, <2>2, <2>5, <2>8, <2>9
<1> QED BY <1>1, <1>8, <1>9, <1>10, <1>11, <1>14, <1>15, <1>16 DEF Inv, Always, Calmly

\* Another program changes the file: what holds without it is not promised any more.
LEMMA TouchStep == ASSUME Inv, Touch PROVE Inv'
<1> USE RecordFacts, PackingAssumption
<1>1. touched' # 0 /\ touched' \in 0..MaxTouch
    BY DEF Touch, Inv, Types
<1>2. UNCHANGED <<job, pub, staged, artifact, source, intent, stop, phase>>
    BY DEF Touch
<1>3. dest' \in Bytes /\ linked' \subseteq Attempt /\ backup' \in [Attempt -> Bytes]
  <2>1. \A a \in Attempt : pub[a].old \in Bytes /\ pub[a].new \in Bytes
    BY DEF Inv, PubType
  <2>2. Foreign \in Bytes /\ None \in Bytes
    BY DEF Bytes
  <2>3. dest' \in Bytes /\ linked' \subseteq Attempt
    BY <2>1, <2>2 DEF Touch, Inv, Types
  <2>4. backup' \in [Attempt -> Bytes]
    BY <2>2 DEF Touch, Inv, Types
  <2> QED BY <2>3, <2>4
<1>4. /\ Moved("worker") /\ SamePlan("worker")
      /\ \/ proc'["worker"].pc = proc["worker"].pc
         \/ proc["worker"].pc = "backed" /\ proc'["worker"].pc = "changed"
  <2>1. CASE proc' = proc
    BY <2>1 DEF Inv, Types, Moved, SamePlan
  <2>2. CASE Worker.pc = "backed" /\ To("worker", "changed")
    BY <2>2, ToMoves DEF Inv, Pc, Worker
  <2> QED BY <2>1, <2>2 DEF Touch
<1>5. Types'
    BY <1>1, <1>2, <1>3, <1>4 DEF Inv, Types, Moved
<1>6. Row' /\ Journal' /\ OneUnsettled' /\ CommittedIsOver'
    BY <1>2 DEF Inv, Always, Row, Journal, OneUnsettled, CommittedIsOver
<1>7. ASSUME NEW y \in Actor PROVE Duties(y)' /\ Places(y)'
  <2>1. Duties(y) /\ Places(y)
    BY DEF Inv, Always
  <2>2. CASE proc'[y] = proc[y]
    BY <2>1, <2>2, <1>2 DEF Duties, Places
  <2>3. CASE y = "worker"
    <3>1. Duties(y)'
      BY <2>1, <2>3, <1>2, <1>4 DEF Duties, SamePlan, Before
    <3>2. Places(y)'
      BY <2>1, <2>3, <1>2, <1>4 DEF Places, SamePlan, Before, Filed
    <3> QED BY <3>1, <3>2
  <2> QED BY <2>2, <2>3, <1>4 DEF Moved
<1>8. OneRecovery'
    BY <1>4, NoNewDuty DEF SamePlan
<1> QED BY <1>1, <1>5, <1>6, <1>7, <1>8 DEF Inv, Always, Calmly

-----------------------------------------------------------------------------
(* The theorems. *)

\* The invariant holds at the start.
LEMMA InitHolds == Init => Inv
<1> SUFFICES ASSUME Init PROVE Inv
    OBVIOUS
<1> USE PackingAssumption
<1>1. \A x \in Actor : proc[x] = Resting
    BY DEF Init
<1>2. \A a \in Attempt : pub[a] = NoPub
    BY DEF Init
<1>3. NoPub \in PubType /\ NoPub.status = "NONE"
    BY DEF NoPub, PubType, Bytes
<1>4. Types
  <2>1. job \in JobType
    BY DEF Init, JobType, JobState
  <2>2. intent \in IntentType
    BY DEF Init, IntentType
  <2>3. pub \in [Attempt -> PubType] /\ proc \in [Actor -> ProcType]
    BY <1>3, RestingTyped DEF Init
  <2>4. /\ dest \in Bytes /\ artifact \in Content \union {None} /\ staged \in [Attempt -> Content \union {None}]
        /\ backup \in [Attempt -> Bytes]
    BY DEF Init, Bytes
  <2>5. linked \subseteq Attempt /\ source \subseteq Version /\ stop \in BOOLEAN
        /\ phase \in {"up", "stopping", "down"}
    BY DEF Init
  <2>6. touched \in 0..MaxTouch
    <3>1. MaxTouch \in Nat /\ touched = 0
      BY DEF Init
    <3> HIDE PackingAssumption
    <3> QED BY <3>1
  <2> QED BY <2>1, <2>2, <2>3, <2>4, <2>5, <2>6 DEF Types
<1>5. OneRecovery
    BY <1>1, RestingTyped DEF OneRecovery
<1>6. Row /\ Journal /\ OneUnsettled /\ CommittedIsOver
    BY <1>2, <1>3 DEF Init, Row, Journal, OneUnsettled, CommittedIsOver, Unsettled
<1>7. ASSUME NEW x \in Actor PROVE Duties(x) /\ Places(x) /\ Apart(x) /\ Bound(x) /\ Safe(x)
    BY <1>1, RestingTyped, RecordFacts DEF Duties, Places, Apart, Bound, Safe, Before, Filed
<1>8. NoneAsked /\ LibraryKnown /\ StillIsSettled
    BY <1>2, <1>3 DEF Init, NoneAsked, LibraryKnown, StillIsSettled, Prepared, NothingPrepared, Still
<1> QED BY <1>4, <1>5, <1>6, <1>7, <1>8 DEF Inv, Always, Calmly

\* Nothing happens.
LEMMA StutterHolds == ASSUME Inv, UNCHANGED vars PROVE Inv'
<1>1. UNCHANGED <<job, pub, dest, staged, backup, linked, artifact, source, intent, proc, stop, phase, touched>>
    BY DEF vars
<1>2. RowMoves({})
    BY <1>1, RowStays
<1> QED BY <1>1, <1>2, AskedKeeps DEF Calm0, Inv, Types, Always, Row

\* Every step keeps the invariant.
LEMMA StepHolds == Inv /\ [Next]_vars => Inv'
<1> SUFFICES ASSUME Inv, [Next]_vars PROVE Inv'
    OBVIOUS
<1>1. CASE \E v \in Version : RequestPack(v)
    BY <1>1, RequestPackStep
<1>2. CASE Downloaded \/ DispatchPack \/ Command \/ Claim \/ CancelWorker
    BY <1>2, DownloadedStep, DispatchPackStep, CommandStep, ClaimStep, CancelWorkerStep
<1>3. CASE Execute
    BY <1>3, PackStep, PackFailsStep, TakeBackupStep, RevokedStep, PrepareStep, MarkFailedStep, LeaveStep DEF Execute
<1>4. CASE \E x \in Actor : Publish(x) \/ Cleanup(x) \/ IoError(x) \/ Recovery(x) \/ HalfFinish(x)
  <2> SUFFICES ASSUME NEW x \in Actor, Publish(x) \/ Cleanup(x) \/ IoError(x) \/ Recovery(x) \/ HalfFinish(x)
               PROVE  Inv'
    BY <1>4
  <2>1. CASE Publish(x)
    BY <2>1, ReplaceStep, FinishStep, FinishSettledStep DEF Publish
  <2>2. CASE Recovery(x)
    BY <2>2, SelectStep, TakeUpStep, SettleStep DEF Recovery
  <2>3. CASE Cleanup(x) \/ IoError(x) \/ HalfFinish(x)
    BY <2>3, CleanupStep, IoErrorStep, HalfFinishStep
  <2> QED BY <2>1, <2>2, <2>3
<1>5. CASE \E x \in Keeper : (\E a \in Attempt : RecoverFile(x, a)) \/ RecoverOrphan(x) \/ RecoverStopped(x)
                             \/ RecoverRequired(x)
    BY <1>5, RecoverFileStep, RecoverOrphanStep, RecoverStoppedStep, RecoverRequiredStep
<1>6. CASE Shutdown \/ Crash \/ Restart \/ Touch
    BY <1>6, ShutdownStep, CrashStep, RestartStep, TouchStep
<1>7. CASE UNCHANGED vars
    BY <1>7, StutterHolds
<1> QED BY <1>1, <1>2, <1>3, <1>4, <1>5, <1>6, <1>7 DEF Next

\* The inductive invariant holds in every state.
THEOREM InvHolds == Spec => []Inv
<1>1. Init => Inv
    BY InitHolds
<1>2. Inv /\ [Next]_vars => Inv'
    BY StepHolds
<1> QED BY <1>1, <1>2, PTL DEF Spec

\* Every value has its type, and a row that exists is bound to an archive (service.py:951).
THEOREM TypesHold == Spec => []TypeOK
<1>1. Inv => TypeOK
    BY DEF Inv, Types, Always, Row, TypeOK, JobType, IntentType, Bytes
<1> QED BY <1>1, InvHolds, PTL

\* As long as no other program changes it, the file in the library is the artifact of the
\* book, or one record of the journal can bring the artifact back: whatever crash, cancel or
\* recovery came in between, for any number of attempts, contents and recoveries
\* (src/app/conversion/publication.py).
THEOREM LibraryStaysIntact == Spec => []LibraryIntact
<1>1. Inv => LibraryIntact
  <2> SUFFICES ASSUME Inv, touched = 0, dest # artifact PROVE \E a \in Attempt : CanReturn(a)
    BY DEF LibraryIntact
  <2>1. LibraryKnown
    BY DEF Inv, Calmly
  <2>2. PICK a \in Attempt : Prepared(a)
    BY <2>1 DEF LibraryKnown
  <2>3. CanReturn(a)
    BY <2>1, <2>2 DEF LibraryKnown, CanReturn, Prepared
  <2> QED BY <2>3
<1> QED BY <1>1, InvHolds, PTL

\* Crashes, cancels and concurrent recoveries of the program alone never leave a file to the
\* operator (publication.py, RECOVERY_REQUIRED).
THEOREM OnlyStrangersAreAsked == Spec => []OnlyStrangersAsked
<1>1. Inv => OnlyStrangersAsked
    BY DEF Inv, Calmly, NoneAsked, OnlyStrangersAsked
<1> QED BY <1>1, InvHolds, PTL

\* A pack shown as cancelled has no unsettled record: its publication was undone or
\* completed before the row said so (service.py, settlement of a stop).
THEOREM CancelsSettle == Spec => []CancelSettlesFiles
<1>1. Inv => CancelSettlesFiles
    BY DEF Inv, Calmly, NoneAsked, StillIsSettled, Still, NothingPrepared, Prepared, CancelSettlesFiles, OfTask, Unsettled
<1> QED BY <1>1, InvHolds, PTL

-----------------------------------------------------------------------------
(* Action properties. *)

\* What a step does to the copies of the previous archives.
LEMMA BackupStep ==
    ASSUME Inv, Next, NEW a \in Attempt, pub[a].status \in Unsettled, pub[a].old # None, touched' = touched
    PROVE  backup'[a] = backup[a] \/ dest' = pub[a].old
<1> USE RecordFacts
<1>1. CASE UNCHANGED backup
    BY <1>1
<1>2. CASE TakeBackup
  <2>1. pub[job.attempt].status = "NONE" /\ job.attempt \in Attempt
    BY <1>2, AtWork DEF TakeBackup, WorkerAt, Before
  <2> QED BY <2>1, <1>2 DEF TakeBackup, Unsettled, Inv, Types
<1>3. CASE Prepare
  <2>1. pub[job.attempt].status = "NONE" /\ job.attempt \in Attempt
    BY <1>3, AtWork DEF Prepare, WorkerAt, Before
  <2> QED BY <2>1, <1>3 DEF Prepare, Unsettled, Inv, Types
<1>4. ASSUME NEW x \in Actor, Cleanup(x) PROVE backup'[a] = backup[a]
  <2>1. proc[x].at \in Attempt /\ pub[proc[x].at].status \in Settled
    BY <1>4 DEF Cleanup, At, Inv, Always, Places, Filed
  <2> QED BY <2>1, <1>4 DEF Cleanup, Unsettled, Settled, Inv, Types
<1>5. ASSUME NEW x \in Actor, Restore(proc[x].at), proc[x].at \in Attempt,
             pub[proc[x].at].status = "PREPARED"
      PROVE  backup'[a] = backup[a] \/ dest' = pub[a].old
  <2>1. proc[x].at = a
    BY <1>5 DEF Inv, Always, OneUnsettled, Unsettled
  <2> QED BY <2>1, <1>5 DEF Restore
<1>6. ASSUME NEW x \in Actor, Finish(x) PROVE backup'[a] = backup[a] \/ dest' = pub[a].old
  <2>1. proc[x].at \in Attempt /\ pub[proc[x].at].status = "PREPARED"
    BY <1>6 DEF Finish, At, Inv, Always, Places, Filed
  <2>2. UNCHANGED backup \/ Restore(proc[x].at)
    BY <1>6 DEF Finish, Outcome
  <2> QED BY <2>1, <2>2, <1>5
<1>7. ASSUME NEW x \in Actor, HalfFinish(x) PROVE backup'[a] = backup[a] \/ dest' = pub[a].old
  <2>1. proc[x].at \in Attempt /\ pub[proc[x].at].status = "PREPARED" /\ Restore(proc[x].at)
    BY <1>7 DEF HalfFinish, At, Inv, Always, Places, Filed
  <2> QED BY <2>1, <1>5
<1>8. CASE Touch
    BY <1>8 DEF Touch, Inv, Types
<1>9. CASE (\E v \in Version : RequestPack(v)) \/ Downloaded \/ DispatchPack \/ Command \/ Claim \/ CancelWorker
    BY <1>1, <1>9 DEF RequestPack, Downloaded, DispatchPack, Command, Claim, CancelWorker, files
<1>10. CASE (\E c \in Content : Pack(c)) \/ PackFails \/ Revoked \/ MarkFailed \/ Leave
    BY <1>1, <1>10 DEF Pack, PackFails, Revoked, MarkFailed, Leave, files
<1>11. CASE Execute
    BY <1>2, <1>3, <1>10, <1>11 DEF Execute
<1>12. ASSUME NEW x \in Actor, Replace(x) \/ FinishSettled(x) \/ IoError(x) \/ Recovery(x) PROVE UNCHANGED backup
    BY <1>12 DEF Replace, FinishSettled, IoError, Recovery, Select, TakeUp, Settle, files
<1>13. CASE \E x \in Actor : Publish(x) \/ Cleanup(x) \/ IoError(x) \/ Recovery(x) \/ HalfFinish(x)
    BY <1>1, <1>4, <1>6, <1>7, <1>12, <1>13 DEF Publish
<1>14. CASE \E x \in Keeper : (\E b \in Attempt : RecoverFile(x, b)) \/ RecoverOrphan(x) \/ RecoverStopped(x)
                              \/ RecoverRequired(x)
    BY <1>1, <1>14 DEF RecoverFile, RecoverOrphan, RecoverStopped, RecoverRequired, Start, files
<1>15. CASE Shutdown \/ Crash \/ Restart
    BY <1>1, <1>15 DEF Shutdown, Crash, Restart, files
<1> QED BY <1>8, <1>9, <1>11, <1>13, <1>14, <1>15 DEF Next

\* No step of the program discards the copy of a previous archive before its record is
\* settled, also when other programs touch the library (publication.py, cleanup and restore).
THEOREM BackupsStay == Spec => BackupKept
<1>1. Inv /\ [Next]_vars =>
        [\A a \in Attempt :
            (pub[a].status \in Unsettled /\ pub[a].old # None /\ Restorable(a) /\ touched' = touched) =>
                backup'[a] = backup[a] \/ dest' = pub[a].old \/ pub'[a].status = "COMMITTED"]_vars
    BY BackupStep
<1> QED BY <1>1, InvHolds, PTL DEF Spec, BackupKept

\* What a step does to the downloaded archives.
LEMMA SourceStep ==
    ASSUME Inv, Next, job.state \in Live, job.input \in source
    PROVE  job.input \in source'
<1> USE RecordFacts
<1>1. CASE UNCHANGED source
    BY <1>1
<1>2. CASE Downloaded
    BY <1>2 DEF Downloaded
<1>3. ASSUME NEW x \in Actor, Cleanup(x) PROVE job.input \in source'
  <2> DEFINE a == proc[x].at
  <2>1. a \in Attempt
    BY <1>3 DEF Cleanup, At, Inv, Always, Places, Filed
  <2>2. CASE pub[a].status = "COMMITTED" /\ ~InUse(a)
    <3>1. pub[a].task = job.task => job.state \in Over
      BY <2>1, <2>2 DEF Inv, Always, CommittedIsOver
    <3>2. job.input # pub[a].input
      BY <3>1, <2>2 DEF InUse, Live, Over, Terminal
    <3> QED BY <3>2, <1>3 DEF Cleanup
  <2>3. CASE ~(pub[a].status = "COMMITTED" /\ ~InUse(a))
    BY <2>3, <1>3 DEF Cleanup
  <2> QED BY <2>2, <2>3
<1>4. CASE (\E v \in Version : RequestPack(v)) \/ DispatchPack \/ Command \/ Claim \/ CancelWorker
    BY <1>1, <1>4 DEF RequestPack, DispatchPack, Command, Claim, CancelWorker
<1>5. CASE Execute
    BY <1>1, <1>5 DEF Execute, Pack, PackFails, TakeBackup, Revoked, Prepare, MarkFailed, Leave
<1>6. ASSUME NEW x \in Actor, Publish(x) \/ IoError(x) \/ Recovery(x) \/ HalfFinish(x) PROVE UNCHANGED source
    BY <1>6 DEF Publish, Replace, Finish, FinishSettled, IoError, Recovery, Select, TakeUp, Settle, HalfFinish
<1>7. CASE \E x \in Actor : Publish(x) \/ Cleanup(x) \/ IoError(x) \/ Recovery(x) \/ HalfFinish(x)
    BY <1>1, <1>3, <1>6, <1>7
<1>8. CASE \E x \in Keeper : (\E b \in Attempt : RecoverFile(x, b)) \/ RecoverOrphan(x) \/ RecoverStopped(x)
                             \/ RecoverRequired(x)
    BY <1>1, <1>8 DEF RecoverFile, RecoverOrphan, RecoverStopped, RecoverRequired, Start
<1>9. CASE Shutdown \/ Crash \/ Restart \/ Touch
    BY <1>1, <1>9 DEF Shutdown, Crash, Restart, Touch
<1> QED BY <1>2, <1>4, <1>5, <1>7, <1>8, <1>9 DEF Next

\* No step deletes the archive a queued or running pack is bound to: a cleanup of an earlier
\* pack finds the row of another one (service.py, cleanup of the input).
THEOREM InputsStay == Spec => PackKeepsInput
<1>1. Inv /\ [Next]_vars =>
        [(job.state \in Live /\ job.input \in source /\ job'.state \in Live) => job.input \in source']_vars
    BY SourceStep
<1> QED BY <1>1, InvHolds, PTL DEF Spec, PackKeepsInput

\* What a step of the program does to bytes it did not write.
LEMMA DestStep ==
    ASSUME Inv, Next, dest = Foreign, dest' # Foreign, touched' = touched
    PROVE  job.state = "RUNNING" /\ pub[job.attempt].old = Foreign
<1> USE RecordFacts
<1>1. ~UNCHANGED dest
    OBVIOUS
<1>2. ASSUME NEW x \in Actor, Replace(x) PROVE job.state = "RUNNING" /\ pub[job.attempt].old = Foreign
    BY <1>1, <1>2 DEF Replace, Eligible, Replaces
<1>3. ASSUME NEW x \in Actor, proc[x].pc = "finish", Known(proc[x].at), Restore(proc[x].at),
             pub[proc[x].at].status = "PREPARED"
      PROVE  FALSE
  <2>1. proc[x].at \in Attempt /\ pub[proc[x].at].new \in Content
    BY <1>3 DEF Inv, Always, Places, Filed, Journal
  <2>2. Foreign \notin Content
    BY PackingAssumption
  <2> QED BY <1>1, <1>3, <2>1, <2>2 DEF Known, Restore
<1>4. ASSUME NEW x \in Actor, Finish(x) \/ HalfFinish(x) PROVE FALSE
  <2>1. proc[x].pc = "finish" /\ pub[proc[x].at].status = "PREPARED" /\ Restore(proc[x].at)
    BY <1>1, <1>4 DEF Finish, HalfFinish, At, Outcome
  <2>2. Known(proc[x].at)
    BY <1>1, <1>4 DEF Finish, HalfFinish, Outcome
  <2> QED BY <2>1, <2>2, <1>3
<1>5. CASE Touch
    BY <1>5 DEF Touch, Inv, Types
<1>6. CASE (\E v \in Version : RequestPack(v)) \/ Downloaded \/ DispatchPack \/ Command \/ Claim \/ CancelWorker
    BY <1>1, <1>6 DEF RequestPack, Downloaded, DispatchPack, Command, Claim, CancelWorker, files
<1>7. CASE Execute
    BY <1>1, <1>7 DEF Execute, Pack, PackFails, TakeBackup, Revoked, Prepare, MarkFailed, Leave, files
<1>8. ASSUME NEW x \in Actor, FinishSettled(x) \/ Cleanup(x) \/ IoError(x) \/ Recovery(x) PROVE FALSE
    BY <1>1, <1>8 DEF FinishSettled, Cleanup, IoError, Recovery, Select, TakeUp, Settle, files
<1>9. CASE \E x \in Actor : Publish(x) \/ Cleanup(x) \/ IoError(x) \/ Recovery(x) \/ HalfFinish(x)
    BY <1>2, <1>4, <1>8, <1>9 DEF Publish
<1>10. CASE \E x \in Keeper : (\E b \in Attempt : RecoverFile(x, b)) \/ RecoverOrphan(x) \/ RecoverStopped(x)
                              \/ RecoverRequired(x)
    BY <1>1, <1>10 DEF RecoverFile, RecoverOrphan, RecoverStopped, RecoverRequired, Start, files
<1>11. CASE Shutdown \/ Crash \/ Restart
    BY <1>1, <1>11 DEF Shutdown, Crash, Restart, files
<1> QED BY <1>5, <1>6, <1>7, <1>9, <1>10, <1>11 DEF Next

\* Bytes of another program go only to the running pack that recorded them, never to a
\* recovery (publication.py:171).
THEOREM ForeignStays == Spec => ForeignKept
<1>1. Inv /\ [Next]_vars =>
        [(dest = Foreign /\ dest' # Foreign /\ touched' = touched) =>
            job.state = "RUNNING" /\ pub[job.attempt].old = Foreign]_vars
    BY DestStep
<1> QED BY <1>1, InvHolds, PTL DEF Spec, ForeignKept
=============================================================================
