--------------------------- MODULE Accounts_proofs ---------------------------
(***************************************************************************)
(* Requests and attempts never outlive the credentials they use, for every *)
(* number of accounts, downloads, borrowers, stops and crashes.  The       *)
(* argument: while an account stops, its version stands still; every       *)
(* request on it is in the list of the loop that carries the stop out, or  *)
(* the stop has not been taken up; and every attempt bound to it has an    *)
(* operation in the dependencies of the stop.                              *)
(***************************************************************************)
EXTENDS Accounts, TLAPS

USE AccountAssumption

Phase == {"none", "read", "held", "valid", "using", "leaving", "closing", "save"}
Status == {"PENDING", "RUNNING", "STOPPING", "DONE", "FAILED", "CANCELLED"}
Action == {"cancel", "replace", "replace-now"}
Accounts0 == Account \union {None}
Deps == SUBSET (Task \X Nat)
Bindings == SUBSET (Account \X Nat)
Pools == SUBSET Accounts0
Todo == SUBSET (Task \X Action)
Borrowers == SUBSET Borrower

AccountRow == [rev : Nat, verified : Nat, enabled : BOOLEAN, deleted : BOOLEAN]
StopRow == [action : {None, "disable", "edit", "delete"}, rev : Nat, deps : Deps]
LeaseRow == [ph : Phase, a : Accounts0, rev : Nat, kind : {"use", "test", "login"}, fresh : BOOLEAN]
TaskRow == [st : Status, op : Action \union {None}, ops : Nat, acct : Account, tried : Pools, pool : Pools,
            bound : Bindings, live : BOOLEAN, cut : BOOLEAN, fin : BOOLEAN]
ExecRow == [by : {None, Loop, Proc}, todo : Todo, ph : {"idle", "take", "exit", "choose", "preflight", "finish", "cut"},
            k : (Task \X Action) \union {None}, seen : Pools, sel : Accounts0]
ProcRow == [ph : {"idle", "wait", "queue", "finish"}, a : Accounts0, waits : Borrowers]

Types ==
    /\ acct \in [Account -> AccountRow]
    /\ stop \in [Account -> StopRow]
    /\ lease \in [Borrower -> LeaseRow]
    /\ queue \in [Task -> TaskRow]
    /\ exec \in ExecRow
    /\ proc \in ProcRow

\* The version of an account stands still from the request of a stop to its end.
Versions(a) ==
    /\ acct[a].verified <= acct[a].rev /\ acct[a].rev <= MaxRev
    /\ acct[a].enabled => ~acct[a].deleted /\ ~Stopping(a) /\ acct[a].verified = acct[a].rev
    /\ Stopping(a) => /\ ~acct[a].deleted /\ stop[a].rev = acct[a].rev
                      /\ stop[a].action = "edit" => acct[a].rev < MaxRev

\* Who holds a lease, and that a loop borrows only for its own execution.
Lent(b) ==
    /\ lease[b].ph = "none" <=> lease[b] = NoLease
    /\ lease[b].ph # "none" => lease[b].a \in Account
TaskLent(k) == lease[k].ph # "none" => queue[k].live /\ lease[k].a = queue[k].acct
LoopLent(b) == lease[b].ph # "none" => exec.by = b /\ exec.ph \in {"preflight", "cut"} /\ lease[b].kind = "use"

\* An operation waits for a download exactly while it is STOPPING; a producer works on
\* its claim and is bound to its own account only.
Row(k) ==
    /\ queue[k].st = "STOPPING" <=> queue[k].op # None
    /\ queue[k].live => queue[k].st # "PENDING"
    /\ queue[k].live => \A v \in queue[k].bound : v[1] = queue[k].acct

\* The execution of the queue operations: it has every download once, and those it has
\* not finished are STOPPING; from the choice of an account on the producer is gone.
Executing ==
    /\ exec.by = None => exec.ph = "idle"
    /\ exec.by = Proc <=> proc.ph = "queue"
    /\ exec.ph = "cut" => exec.by = Loop
    /\ \A t \in exec.todo : queue[t[1]].st = "STOPPING"
    /\ \A t, u \in exec.todo : t[1] = u[1] => t = u
    /\ exec.ph \in {"exit", "choose", "preflight", "finish"} =>
         /\ exec.k \in Task \X Action /\ queue[exec.k[1]].st = "STOPPING"
         /\ \A t \in exec.todo : t[1] # exec.k[1]
    /\ exec.ph \in {"choose", "preflight", "finish"} => ~queue[exec.k[1]].live

\* The stop under way, and the requests it still has to wait for.
Production(b) == Physical(b) /\ lease[b].kind = "use"
Carried == proc.ph # "idle" => proc.a \in Account /\ Stopping(proc.a)
Waited ==
    \A b \in Borrower : proc.ph # "idle" /\ Production(b) /\ lease[b].a = proc.a =>
        proc.ph = "wait" /\ b \in proc.waits

\* An attempt bound to a stopping account has its operation in the dependencies.
Depends ==
    \A a \in Account, k \in Task : Stopping(a) /\ Running(k) /\ (\E v \in queue[k].bound : v[1] = a) =>
        queue[k].op # None /\ <<k, queue[k].ops>> \in stop[a].deps

Inv ==
    /\ Types
    /\ \A a \in Account : Versions(a)
    /\ \A b \in Borrower : Lent(b)
    /\ \A k \in Task : TaskLent(k)
    /\ LoopLent(Loop) /\ LoopLent(Proc)
    /\ \A k \in Task : Row(k)
    /\ Executing
    /\ Carried /\ Waited
    /\ Depends
    /\ RequestsUseCurrentVersion
    /\ AttemptsStopWithAccount

-----------------------------------------------------------------------------
(* What a step does to an account, to a lease and to a download. *)

\* What was in service stays in service.
Served == \A a \in Account, rev \in Nat : InService(a, rev) => InService(a, rev)'

\* A lease is let through on the account as it is.
Admitted(b) == Usable(lease[b].a) /\ acct[lease[b].a].rev = lease[b].rev /\ UNCHANGED <<acct, stop>>

\* A lease ends, begins, or goes on with its version.
LeaseKeeps(b) == lease'[b].a = lease[b].a /\ lease'[b].rev = lease[b].rev /\ lease'[b].kind = lease[b].kind
LeaseGoes(b) ==
    \/ lease'[b] = NoLease
    \/ lease'[b].ph = "read" /\ lease'[b].a \in Account
    \/ /\ lease'[b].ph # "none" /\ lease[b].ph # "none" /\ LeaseKeeps(b)
       /\ Production(b)' => Production(b) \/ Admitted(b)

\* The bindings of an attempt, and the operation that an account may wait for.
AttemptGoes(k) ==
    /\ queue[k].live /\ queue'[k].acct = queue[k].acct
    /\ Running(k)' => Running(k)
    /\ queue[k].op # None => queue'[k].op # None /\ queue'[k].ops = queue[k].ops
    /\ \/ queue'[k].bound = queue[k].bound
       \/ /\ queue'[k].bound = queue[k].bound \union {<<lease[k].a, lease[k].rev>>}
          /\ lease[k].ph # "none" /\ Admitted(k)

RowGoes(k) ==
    /\ queue'[k].st = "STOPPING" <=> queue'[k].op # None
    /\ queue'[k].live => queue'[k].st # "PENDING"
    /\ queue'[k].live => queue'[k].bound = {} \/ AttemptGoes(k)

\* The account loop keeps its list until the requests in it have ended.
ProcGoes ==
    proc'.ph # "idle" =>
        /\ proc.ph # "idle" /\ proc'.a = proc.a
        /\ \A b \in Borrower : proc.ph = "wait" /\ b \in proc.waits /\ Production(b)' => proc'.ph = "wait"
             /\ b \in proc'.waits

\* The rows that the execution of the queue operations relies on.
StoppingStays(k) == queue[k].st = "STOPPING" => queue'[k].st = "STOPPING" /\ (queue'[k].live => queue[k].live)

\* A step that requests no stop and ends none.
Step ==
    /\ Types' /\ stop' = stop
    /\ \A a \in Account : Versions(a)'
    /\ Served
    /\ \A b \in Borrower : LeaseGoes(b)
    /\ \A k \in Task : RowGoes(k) /\ TaskLent(k)'
    /\ LoopLent(Loop)' /\ LoopLent(Proc)'
    /\ Executing'
    /\ Carried' /\ Waited'

\* What the types say of single rows.
LEMMA TypeFacts ==
    ASSUME Types
    PROVE  /\ \A a \in Account : acct[a] \in AccountRow /\ acct[a].rev \in Nat /\ acct[a].verified \in Nat
           /\ \A a \in Account : stop[a] \in StopRow /\ stop[a].rev \in Nat
           /\ \A b \in Borrower : lease[b] \in LeaseRow /\ lease[b].ph \in Phase /\ lease[b].rev \in Nat
                /\ lease[b].a \in Accounts0
           /\ \A k \in Task : /\ queue[k] \in TaskRow /\ queue[k].st \in Status /\ queue[k].acct \in Account
                              /\ queue[k].op \in Action \union {None} /\ queue[k].ops \in Nat
                              /\ queue[k].bound \subseteq Account \X Nat
  BY DEF Types, AccountRow, StopRow, LeaseRow, TaskRow, Bindings

\* Leases that begin, go on or end are well formed.
LEMMA LentKept ==
    ASSUME Inv, \A b \in Borrower : LeaseGoes(b)
    PROVE  \A b \in Borrower : Lent(b)'
  <1>1. \A b \in Borrower : Lent(b)
    BY DEF Inv
  <1>2. NoLease.ph = "none"
    BY DEF NoLease
  <1> QED BY <1>1, <1>2 DEF LeaseGoes, LeaseKeeps, Lent

\* A request that was let through is on a version in service, which stays in service.
LEMMA RequestsKept ==
    ASSUME Inv, Served, \A b \in Borrower : LeaseGoes(b)
    PROVE  RequestsUseCurrentVersion'
  <1> SUFFICES ASSUME NEW b \in Borrower, Production(b)' PROVE InService(lease[b].a, lease[b].rev)'
    BY DEF RequestsUseCurrentVersion, Production
  <1>1. lease[b].rev \in Nat
    BY TypeFacts DEF Inv
  <1>2. lease'[b].ph # "none" /\ lease'[b].ph # "read" /\ lease'[b] # NoLease
    BY DEF Production, Physical, NoLease
  <1>3. lease[b].ph # "none" /\ LeaseKeeps(b) /\ (Production(b) \/ Admitted(b))
    BY <1>2 DEF LeaseGoes
  <1>4. lease[b].a \in Account
    BY <1>3 DEF Inv, Lent
  <1>5. CASE Production(b)
    <2>1. InService(lease[b].a, lease[b].rev)
      BY <1>5 DEF Inv, RequestsUseCurrentVersion, Production
    <2>2. InService(lease[b].a, lease[b].rev)' <=> (acct'[lease[b].a].rev = lease[b].rev
              /\ ~acct'[lease[b].a].deleted /\ (acct'[lease[b].a].enabled \/ Stopping(lease[b].a)'))
      BY <1>3 DEF InService, LeaseKeeps, Stopping
    <2> QED BY <1>1, <1>3, <1>4, <2>1, <2>2 DEF Served, InService, LeaseKeeps, Stopping
  <1>6. CASE Admitted(b)
    BY <1>3, <1>6 DEF Admitted, InService, Usable, LeaseKeeps
  <1> QED BY <1>3, <1>5, <1>6

\* What an attempt that goes on is bound to after the step.
LEMMA BoundTo ==
    ASSUME Inv, NEW k \in Task, RowGoes(k), Running(k)', NEW v \in queue'[k].bound
    PROVE  /\ AttemptGoes(k) /\ Running(k)
           /\ v \in queue[k].bound \/ (v = <<lease[k].a, lease[k].rev>> /\ lease[k].a \in Account /\ Admitted(k))
  <1>1. queue'[k].live /\ queue'[k].bound # {}
    BY DEF Running
  <1>2. AttemptGoes(k)
    BY <1>1 DEF RowGoes
  <1>3. Lent(k)
    BY DEF Inv, Borrower
  <1> QED BY <1>2, <1>3 DEF AttemptGoes, Lent

\* A producer goes on with bindings of its own account.
LEMMA RowsKept ==
    ASSUME Inv, \A k \in Task : RowGoes(k)
    PROVE  \A k \in Task : Row(k)'
  <1> SUFFICES ASSUME NEW k \in Task PROVE Row(k)'
    OBVIOUS
  <1>1. ASSUME queue'[k].live, NEW v \in queue'[k].bound PROVE v[1] = queue'[k].acct
    <2>1. AttemptGoes(k)
      BY <1>1 DEF RowGoes
    <2>2. lease[k].ph # "none" => lease[k].a = queue[k].acct
      BY DEF Inv, TaskLent
    <2>3. queue[k].live => \A w \in queue[k].bound : w[1] = queue[k].acct
      BY DEF Inv, Row
    <2> QED BY <1>1, <2>1, <2>2, <2>3 DEF AttemptGoes
  <1> QED BY <1>1 DEF RowGoes, Row

\* What an attempt that goes on is bound to stays in service.
LEMMA AttemptsKept ==
    ASSUME Inv, Served, \A k \in Task : RowGoes(k)
    PROVE  AttemptsStopWithAccount'
  <1> SUFFICES ASSUME NEW k \in Task, Running(k)', NEW v \in queue'[k].bound PROVE InService(v[1], v[2])'
    BY DEF AttemptsStopWithAccount
  <1>1. Running(k) /\ (v \in queue[k].bound \/ (v = <<lease[k].a, lease[k].rev>> /\ lease[k].a \in Account
          /\ Admitted(k)))
    BY BoundTo
  <1>2. CASE v \in queue[k].bound
    <2>1. InService(v[1], v[2])
      BY <1>1, <1>2 DEF Inv, AttemptsStopWithAccount
    <2>2. v[1] \in Account /\ v[2] \in Nat
      BY <1>2, TypeFacts DEF Inv
    <2> QED BY <2>1, <2>2 DEF Served
  <1>3. CASE v = <<lease[k].a, lease[k].rev>> /\ lease[k].a \in Account /\ Admitted(k)
    BY <1>3 DEF Admitted, InService, Usable
  <1> QED BY <1>1, <1>2, <1>3

\* An attempt that goes on under a stopping account keeps its operation, and gets no new binding there.
LEMMA DependsOn ==
    ASSUME Inv, NEW a \in Account, Stopping(a), stop'[a] = stop[a], NEW k \in Task, RowGoes(k), Running(k)',
           NEW v \in queue'[k].bound, v[1] = a
    PROVE  queue'[k].op # None /\ <<k, queue'[k].ops>> \in stop'[a].deps
  <1>1. /\ AttemptGoes(k) /\ Running(k)
        /\ v \in queue[k].bound \/ (v = <<lease[k].a, lease[k].rev>> /\ Admitted(k))
    BY BoundTo
  <1>2. v \in queue[k].bound
    BY <1>1 DEF Admitted, Usable
  <1>3. queue[k].op # None /\ <<k, queue[k].ops>> \in stop[a].deps
    BY <1>1, <1>2 DEF Inv, Depends
  <1> QED BY <1>1, <1>3 DEF AttemptGoes

\* No step but the request of a stop or its end changes the dependencies.
LEMMA DependsKept ==
    ASSUME Inv, stop' = stop, \A k \in Task : RowGoes(k)
    PROVE  Depends'
  BY DependsOn DEF Depends, Stopping

\* No new production request joins an account that is stopping.
LEMMA WaitedKept ==
    ASSUME Inv, \A b \in Borrower : LeaseGoes(b), ProcGoes
    PROVE  Waited'
  <1> SUFFICES ASSUME NEW b \in Borrower, proc'.ph # "idle", Production(b)', lease'[b].a = proc'.a
               PROVE  proc'.ph = "wait" /\ b \in proc'.waits
    BY DEF Waited
  <1>1. /\ proc.ph # "idle" /\ proc'.a = proc.a
        /\ proc.ph = "wait" /\ b \in proc.waits => proc'.ph = "wait" /\ b \in proc'.waits
    BY DEF ProcGoes
  <1>2. lease'[b].ph # "none" /\ lease'[b].ph # "read" /\ lease'[b] # NoLease
    BY DEF Production, Physical, NoLease
  <1>3. LeaseKeeps(b) /\ (Production(b) \/ Admitted(b))
    BY <1>2 DEF LeaseGoes
  <1>4. lease[b].a = proc.a /\ Stopping(proc.a)
    BY <1>1, <1>3 DEF LeaseKeeps, Inv, Carried
  <1>5. Production(b)
    BY <1>3, <1>4 DEF Admitted, Usable
  <1> QED BY <1>1, <1>4, <1>5 DEF Inv, Waited

\* The account loop carries out a stop that is still pending.
LEMMA CarriedKept ==
    ASSUME Inv, ProcGoes, \A a \in Account : Stopping(a) => Stopping(a)'
    PROVE  Carried'
  <1>1. ASSUME proc'.ph # "idle" PROVE proc'.a \in Account /\ stop'[proc'.a] # NoStop
    <2>1. proc'.a = proc.a /\ proc.a \in Account /\ Stopping(proc.a)
      BY <1>1 DEF ProcGoes, Inv, Carried
    <2>2. Stopping(proc.a)'
      BY <2>1
    <2> QED BY <2>1, <2>2 DEF Stopping
  <1> QED BY <1>1 DEF Carried, Stopping

\* The rows of the execution stay as they are while it does nothing.
LEMMA ExecutingKept ==
    ASSUME Inv, UNCHANGED exec, proc'.ph = "queue" <=> proc.ph = "queue", \A k \in Task : StoppingStays(k)
    PROVE  Executing'
  <1>1. \A t \in exec.todo : t[1] \in Task
    BY DEF Inv, Types, ExecRow, Todo
  <1>2. exec.k \in Task \X Action => exec.k[1] \in Task
    OBVIOUS
  <1> QED BY <1>1, <1>2 DEF Inv, Executing, StoppingStays

\* A step that requests no stop and ends none keeps the invariant.
LEMMA StepKeeps == ASSUME Inv, Step PROVE Inv'
  BY LentKept, RequestsKept, RowsKept, AttemptsKept, DependsKept DEF Step, Inv

-----------------------------------------------------------------------------
(* Writing one row, and the rows that a step leaves alone. *)

\* Writing one account.
LEMMA AcctPut ==
    ASSUME acct \in [Account -> AccountRow], NEW a \in Account, NEW r \in AccountRow, acct' = [acct EXCEPT ![a] = r]
    PROVE  acct' \in [Account -> AccountRow] /\ acct'[a] = r /\ \A c \in Account \ {a} : acct'[c] = acct[c]
  OBVIOUS

\* Writing one lease.
LEMMA LeasePut ==
    ASSUME lease \in [Borrower -> LeaseRow], NEW b \in Borrower, NEW r \in LeaseRow, lease' = [lease EXCEPT ![b] = r]
    PROVE  lease' \in [Borrower -> LeaseRow] /\ lease'[b] = r /\ \A c \in Borrower \ {b} : lease'[c] = lease[c]
  OBVIOUS

\* Writing one download.
LEMMA QueuePut ==
    ASSUME queue \in [Task -> TaskRow], NEW k \in Task, NEW r \in TaskRow, queue' = [queue EXCEPT ![k] = r]
    PROVE  queue' \in [Task -> TaskRow] /\ queue'[k] = r /\ \A j \in Task \ {k} : queue'[j] = queue[j]
  OBVIOUS

\* A lease that is left alone goes on.
LEMMA LeaseUnmoved ==
    ASSUME Inv, NEW b \in Borrower, lease'[b] = lease[b]
    PROVE  LeaseGoes(b)
  <1>1. Lent(b)
    BY DEF Inv
  <1> QED BY <1>1 DEF LeaseGoes, LeaseKeeps, Lent, Production, Physical

\* A download that is left alone goes on.
LEMMA RowUnmoved ==
    ASSUME Inv, NEW k \in Task, queue'[k] = queue[k]
    PROVE  RowGoes(k) /\ StoppingStays(k)
  <1>1. Row(k)
    BY DEF Inv
  <1> QED BY <1>1 DEF RowGoes, AttemptGoes, StoppingStays, Row, Running

\* The lease of a producer stays with its account.
LEMMA TaskLentKept ==
    ASSUME Inv, NEW k \in Task, LeaseGoes(k), lease'[k].ph # "read" \/ lease'[k] = lease[k],
           lease[k].ph # "none" => queue'[k].live /\ queue'[k].acct = queue[k].acct
    PROVE  TaskLent(k)'
  <1>1. NoLease.ph = "none"
    BY DEF NoLease
  <1>2. TaskLent(k)
    BY DEF Inv
  <1> QED BY <1>1, <1>2 DEF TaskLent, LeaseGoes, LeaseKeeps

\* The lease of a loop stays with its execution.
LEMMA LoopLentKept ==
    ASSUME Inv, NEW b \in {Loop, Proc}, LeaseGoes(b), lease'[b].ph # "read" \/ lease'[b] = lease[b],
           UNCHANGED exec
    PROVE  LoopLent(b)'
  <1>1. NoLease.ph = "none"
    BY DEF NoLease
  <1>2. LoopLent(b)
    BY DEF Inv
  <1> QED BY <1>1, <1>2 DEF LoopLent, LeaseGoes, LeaseKeeps

\* The accounts stay as they are.
LEMMA AccountsStay ==
    ASSUME Inv, UNCHANGED <<acct, stop>>
    PROVE  /\ \A a \in Account : Versions(a)'
           /\ Served
           /\ \A a \in Account : Stopping(a) => Stopping(a)'
  BY DEF Inv, Versions, Stopping, Served, InService

\* The account loop is left alone.
LEMMA ProcStays ==
    ASSUME Inv, UNCHANGED proc
    PROVE  ProcGoes
  BY DEF ProcGoes

\* Only the row of one download changes, and its lease does not.
OnlyRow(k) ==
    /\ queue' \in [Task -> TaskRow] /\ (\A j \in Task \ {k} : queue'[j] = queue[j])
    /\ UNCHANGED <<acct, stop, lease, exec, proc>>

\* One download changes, and no lease.
LEMMA RowStep ==
    ASSUME Inv, NEW k \in Task, OnlyRow(k), RowGoes(k), StoppingStays(k),
           lease[k].ph # "none" => queue'[k].live /\ queue'[k].acct = queue[k].acct
    PROVE  Inv'
  <1>1. \A b \in Borrower : LeaseGoes(b) /\ lease'[b] = lease[b]
    BY LeaseUnmoved DEF OnlyRow
  <1>2. ASSUME NEW j \in Task PROVE RowGoes(j) /\ StoppingStays(j) /\ TaskLent(j)'
    <2>1. CASE j = k
      <3>1. TaskLent(j)'
        BY <1>1, <2>1, TaskLentKept DEF Borrower
      <3> QED BY <2>1, <3>1
    <2>2. CASE j # k
      <3>1. queue'[j] = queue[j]
        BY <2>2 DEF OnlyRow
      <3>2. TaskLent(j)'
        BY <1>1, <3>1 DEF Inv, TaskLent, Borrower
      <3> QED BY <3>1, <3>2, RowUnmoved
    <2> QED BY <2>1, <2>2
  <1>3. LoopLent(Loop)' /\ LoopLent(Proc)'
    BY DEF OnlyRow, Inv, LoopLent
  <1>4. Executing'
    BY <1>2, ExecutingKept DEF OnlyRow
  <1>5. Carried' /\ Waited'
    BY <1>1, ProcStays, AccountsStay, WaitedKept, CarriedKept DEF OnlyRow
  <1>6. Types'
    BY DEF OnlyRow, Inv, Types
  <1> QED BY <1>1, <1>2, <1>3, <1>4, <1>5, <1>6, AccountsStay, StepKeeps DEF Step, OnlyRow

\* Only one lease changes.
OnlyLease(b) ==
    /\ lease' \in [Borrower -> LeaseRow] /\ (\A c \in Borrower \ {b} : lease'[c] = lease[c])
    /\ UNCHANGED <<acct, stop, queue, exec, proc>>

\* One lease changes, and no download.
LEMMA LeaseStep ==
    ASSUME Inv, NEW b \in Borrower, OnlyLease(b), LeaseGoes(b),
           lease'[b].ph = "read" => b \notin {Loop, Proc} /\ (b \in Task => queue[b].live
             /\ lease'[b].a = queue[b].acct)
    PROVE  Inv'
  <1>1. \A c \in Borrower : LeaseGoes(c)
    BY LeaseUnmoved DEF OnlyLease
  <1>2. ASSUME NEW j \in Task PROVE RowGoes(j) /\ StoppingStays(j) /\ TaskLent(j)'
    <2>1. TaskLent(j)
      BY DEF Inv
    <2>2. LeaseGoes(j) /\ (lease'[j] = lease[j] \/ j = b) /\ queue'[j] = queue[j]
      BY <1>1 DEF OnlyLease, Borrower
    <2>3. TaskLent(j)'
      <3>1. CASE lease'[j].ph = "read" /\ j = b
        BY <2>2, <3>1 DEF TaskLent, OnlyLease
      <3>2. CASE lease'[j].ph # "read" \/ j # b
        BY <2>1, <2>2, <3>2, TaskLentKept DEF TaskLent, Borrower
      <3> QED BY <3>1, <3>2
    <2> QED BY <2>2, <2>3, RowUnmoved
  <1>3. LoopLent(Loop)' /\ LoopLent(Proc)'
    <2>1. Loop \in Borrower /\ Proc \in Borrower
      BY DEF Borrower
    <2> QED BY <1>1, <2>1, LoopLentKept DEF OnlyLease
  <1>4. Executing'
    BY <1>2, ExecutingKept DEF OnlyLease
  <1>5. Carried' /\ Waited'
    BY <1>1, ProcStays, AccountsStay, WaitedKept, CarriedKept DEF OnlyLease
  <1>6. Types'
    BY DEF OnlyLease, Inv, Types
  <1> QED BY <1>1, <1>2, <1>3, <1>4, <1>5, <1>6, AccountsStay, StepKeeps DEF Step, OnlyLease

-----------------------------------------------------------------------------
(* The steps of a download. *)

\* The producer of a claim starts without bindings and without a lease.
LEMMA ClaimStep == ASSUME Inv, NEW k \in Task, Claim(k) PROVE Inv'
  <1> DEFINE q == queue[k]
             r == [q EXCEPT !.st = "RUNNING", !.live = TRUE, !.bound = {}, !.fin = FALSE]
  <1>1. q \in TaskRow /\ queue \in [Task -> TaskRow] /\ q.st = "PENDING" /\ ~q.live /\ Row(k) /\ TaskLent(k)
    BY DEF Claim, Inv, Types
  <1>2. queue' = [queue EXCEPT ![k] = r]
    BY DEF Claim
  <1> HIDE DEF q
  <1>3. r \in TaskRow /\ r.st = "RUNNING" /\ r.live /\ r.bound = {} /\ r.op = q.op /\ r.acct = q.acct
    BY <1>1 DEF TaskRow, Status, Bindings
  <1> HIDE DEF r
  <1>4. queue'[k] = r /\ OnlyRow(k)
    BY <1>1, <1>2, <1>3, QueuePut DEF OnlyRow, Claim
  <1>5. lease[k].ph = "none" /\ q.op = None
    BY <1>1 DEF TaskLent, Row, q
  <1> QED BY <1>1, <1>3, <1>4, <1>5, RowStep DEF RowGoes, StoppingStays, q

\* A delivered result ends the attempt; its producer is still there.
LEMMA DeliverStep == ASSUME Inv, NEW k \in Task, Deliver(k) PROVE Inv'
  <1> DEFINE q == queue[k]
             r == [q EXCEPT !.st = "DONE", !.fin = TRUE]
  <1>1. q \in TaskRow /\ queue \in [Task -> TaskRow] /\ q.st = "RUNNING" /\ Row(k) /\ lease[k].ph = "using"
          /\ TaskLent(k)
    BY DEF Deliver, Inv, Types
  <1>2. queue' = [queue EXCEPT ![k] = r]
    BY DEF Deliver
  <1> HIDE DEF q
  <1>3. r \in TaskRow /\ r.st = "DONE" /\ r.live = q.live /\ r.bound = q.bound /\ r.op = q.op /\ r.acct = q.acct
    BY <1>1 DEF TaskRow, Status
  <1> HIDE DEF r
  <1>4. queue'[k] = r /\ OnlyRow(k)
    BY <1>1, <1>2, <1>3, QueuePut DEF OnlyRow, Deliver
  <1>5. q.live /\ q.op = None
    BY <1>1 DEF TaskLent, Row, q
  <1> QED BY <1>1, <1>3, <1>4, <1>5, RowStep DEF RowGoes, AttemptGoes, StoppingStays, Running, q

\* A producer leaves when its lease has ended.
LEMMA AttemptExitStep == ASSUME Inv, NEW k \in Task, AttemptExit(k) PROVE Inv'
  <1> DEFINE q == queue[k]
             r == [q EXCEPT !.live = FALSE, !.cut = FALSE]
  <1>1. q \in TaskRow /\ queue \in [Task -> TaskRow] /\ Row(k) /\ lease[k].ph = "none"
    BY DEF AttemptExit, Inv, Types, NoLease
  <1>2. queue' = [queue EXCEPT ![k] = r]
    BY DEF AttemptExit
  <1> HIDE DEF q
  <1>3. r \in TaskRow /\ r.st = q.st /\ ~r.live /\ r.op = q.op
    BY <1>1 DEF TaskRow
  <1> HIDE DEF r
  <1>4. queue'[k] = r /\ OnlyRow(k)
    BY <1>1, <1>2, <1>3, QueuePut DEF OnlyRow, AttemptExit
  <1> QED BY <1>1, <1>3, <1>4, RowStep DEF RowGoes, StoppingStays, Row, q

\* A claim without a producer is given back.
LEMMA ReclaimStep == ASSUME Inv, NEW k \in Task, Reclaim(k) PROVE Inv'
  <1> DEFINE q == queue[k]
             r == [q EXCEPT !.st = "PENDING", !.fin = TRUE]
  <1>1. q \in TaskRow /\ queue \in [Task -> TaskRow] /\ q.st = "RUNNING" /\ ~q.live /\ Row(k) /\ TaskLent(k)
    BY DEF Reclaim, Inv, Types
  <1>2. queue' = [queue EXCEPT ![k] = r]
    BY DEF Reclaim
  <1> HIDE DEF q
  <1>3. r \in TaskRow /\ r.st = "PENDING" /\ r.live = q.live /\ r.op = q.op
    BY <1>1 DEF TaskRow, Status
  <1> HIDE DEF r
  <1>4. queue'[k] = r /\ OnlyRow(k)
    BY <1>1, <1>2, <1>3, QueuePut DEF OnlyRow, Reclaim
  <1>5. lease[k].ph = "none"
    BY <1>1 DEF TaskLent, q
  <1> QED BY <1>1, <1>3, <1>4, <1>5, RowStep DEF RowGoes, StoppingStays, Row, q

\* The lists of free accounts are lists of accounts.
LEMMA ReplacedRow ==
    ASSUME NEW q \in TaskRow, NEW action \in Action, NEW free \in Pools, NEW r, r = Replaced(q, action, free)
    PROVE  /\ r \in TaskRow /\ r.st = "STOPPING" /\ r.op = action /\ r.ops = q.ops + 1 /\ r.live = q.live
           /\ r.bound = q.bound /\ r.acct = q.acct /\ r.fin = q.fin
  <1> DEFINE t == q.tried \union {q.acct}
             p == IF q.pool = {None} THEN free ELSE q.pool
             n == q.ops + 1
  <1>1. t \in Pools /\ p \in Pools /\ n \in Nat
    BY DEF TaskRow, Pools, Accounts0
  <1>2. Replaced(q, action, free) = [q EXCEPT !.st = "STOPPING", !.op = action, !.ops = n, !.tried = t, !.pool = p]
    BY DEF Replaced
  <1>3. "STOPPING" \in Status /\ action \in Action \union {None}
    BY DEF Status
  <1> HIDE DEF t, p, n
  <1>4. r \in TaskRow
    BY <1>1, <1>2, <1>3 DEF TaskRow
  <1>5. r.st = "STOPPING" /\ r.op = action /\ r.ops = n
    BY <1>2 DEF TaskRow
  <1>6. r.live = q.live /\ r.bound = q.bound /\ r.acct = q.acct /\ r.fin = q.fin
    BY <1>2 DEF TaskRow
  <1> QED BY <1>4, <1>5, <1>6 DEF n

\* A download without an operation becomes STOPPING with a new one.
LEMMA StoppedRow ==
    ASSUME Inv, NEW k \in Task, queue[k].op = None, queue[k].st \notin Ended,
           queue'[k].st = "STOPPING", queue'[k].op \in Action, queue'[k].live = queue[k].live, queue'[k].bound = queue[k].bound, queue'[k].acct = queue[k].acct
    PROVE  RowGoes(k) /\ StoppingStays(k)
  <1>1. Row(k)
    BY DEF Inv
  <1>2. queue[k].live => Running(k)
    BY <1>1, TypeFacts DEF Inv, Row, Running, Status, Ended
  <1> QED BY <1>1, <1>2 DEF RowGoes, AttemptGoes, StoppingStays, Row, Action

\* A failed attempt ends, or waits for another account.
LEMMA FailStep == ASSUME Inv, NEW k \in Task, Fail(k) PROVE Inv'
  <1> DEFINE q == queue[k]
             free == {b \in Account : Usable(b)}
             r == [(IF k \in Pooled THEN Replaced(q, "replace", free) ELSE [q EXCEPT !.st = "FAILED"]) EXCEPT !.fin = TRUE]
  <1>1. q \in TaskRow /\ queue \in [Task -> TaskRow] /\ q.st = "RUNNING" /\ q.live /\ Row(k) /\ lease[k].ph = "none"
    BY DEF Fail, Inv, Types, NoLease
  <1>2. queue' = [queue EXCEPT ![k] = r]
    BY DEF Fail
  <1>3. free \in Pools /\ "replace" \in Action
    BY DEF Pools, Accounts0, Action
  <1>4. q.op = None
    BY <1>1 DEF Row, q
  <1>5. UNCHANGED <<acct, stop, lease, exec, proc>>
    BY DEF Fail
  <1> HIDE DEF q, free
  <1>6. CASE k \in Pooled
    <2>1. PICK s : s = Replaced(q, "replace", free)
      OBVIOUS
    <2>2. s \in TaskRow /\ s.st = "STOPPING" /\ s.op = "replace" /\ s.live = q.live /\ s.bound = q.bound
            /\ s.acct = q.acct
      <3>1. s \in TaskRow
        BY <1>1, <1>3, <2>1, ReplacedRow
      <3>2. s.st = "STOPPING" 
        BY <1>1, <1>3, <2>1, ReplacedRow
      <3>3. s.op = "replace"
        BY <1>1, <1>3, <2>1, ReplacedRow
      <3>4. s.live = q.live
        BY <1>1, <1>3, <2>1, ReplacedRow
      <3>5. s.acct = q.acct
        BY <1>1, <1>3, <2>1, ReplacedRow
      <3>6. s.bound = q.bound
        BY <1>1, <1>3, <2>1, ReplacedRow
      <3> QED BY <3>1, <3>2, <3>3, <3>4, <3>5, <3>6
    <2>3. r = [s EXCEPT !.fin = TRUE]
      BY <1>6, <2>1
    <2> HIDE DEF r
    <2>4. /\ r \in TaskRow /\ r.st = "STOPPING" /\ r.op = "replace" /\ r.live = q.live
          /\ r.bound = q.bound /\ r.acct = q.acct
      BY <2>2, <2>3 DEF TaskRow
    <2>5. queue'[k] = r /\ OnlyRow(k)
      BY <1>1, <1>2, <1>5, <2>4, QueuePut DEF OnlyRow
    <2>6. RowGoes(k) /\ StoppingStays(k)
      BY <1>1, <1>3, <1>4, <2>4, <2>5, StoppedRow DEF q, Ended
    <2> QED BY <1>1, <2>5, <2>6, RowStep
  <1>7. CASE k \notin Pooled
    <2>1. r = [q EXCEPT !.st = "FAILED", !.fin = TRUE]
      BY <1>7
    <2> HIDE DEF r
    <2>2. r \in TaskRow /\ r.st = "FAILED" /\ r.op = q.op /\ r.live = q.live /\ r.bound = q.bound /\ r.acct = q.acct
      BY <1>1, <2>1 DEF TaskRow, Status
    <2>3. queue'[k] = r /\ OnlyRow(k)
      BY <1>1, <1>2, <1>5, <2>2, QueuePut DEF OnlyRow
    <2>4. RowGoes(k) /\ StoppingStays(k)
      BY <1>1, <1>4, <2>2, <2>3 DEF RowGoes, AttemptGoes, StoppingStays, Running, q
    <2> QED BY <1>1, <2>3, <2>4, RowStep
  <1> QED BY <1>6, <1>7

\* The operator cancels; a replacement that is under way becomes a cancellation.
LEMMA CancelStep == ASSUME Inv, NEW k \in Task, Cancel(k) PROVE Inv'
  <1> DEFINE q == queue[k]
             n == q.ops + 1
             r == IF q.st = "PENDING" THEN [q EXCEPT !.st = "CANCELLED"]
                  ELSE IF q.st = "RUNNING" THEN [q EXCEPT !.st = "STOPPING", !.op = "cancel", !.ops = q.ops + 1]
                  ELSE [q EXCEPT !.op = "cancel"]
  <1>1. q \in TaskRow /\ queue \in [Task -> TaskRow] /\ q.st \in {"PENDING", "RUNNING", "STOPPING"} /\ Row(k)
          /\ TaskLent(k)
    BY DEF Cancel, Inv, Types
  <1>2. queue' = [queue EXCEPT ![k] = r]
    BY Zenon DEF Cancel
  <1>3. UNCHANGED <<acct, stop, lease, exec, proc>> /\ n \in Nat
    BY <1>1 DEF Cancel, TaskRow
  <1>4. (q.op = None <=> q.st # "STOPPING") /\ (q.live => q.st # "PENDING") /\ (lease[k].ph # "none" => q.live)
    BY <1>1 DEF Row, q, TaskLent
  <1> HIDE DEF q
  <1>5. r \in TaskRow /\ r.live = q.live /\ r.bound = q.bound /\ r.acct = q.acct
    <2>1. q.ops + 1 \in Nat
      BY <1>3
    <2> QED BY <1>1, <2>1 DEF TaskRow, Status, Action
  <1>6. q.st = "PENDING" => r.st = "CANCELLED" /\ r.op = q.op
    BY <1>1 DEF TaskRow
  <1>7. q.st = "RUNNING" => r.st = "STOPPING" /\ r.op = "cancel"
    BY <1>1 DEF TaskRow
  <1>8. q.st = "STOPPING" => r.st = "STOPPING" /\ r.op = "cancel" /\ r.ops = q.ops
    BY <1>1 DEF TaskRow
  <1> HIDE DEF r
  <1>9. queue'[k] = r /\ OnlyRow(k)
    BY <1>1, <1>2, <1>3, <1>5, QueuePut DEF OnlyRow
  <1>10. "cancel" # None
    OBVIOUS
  <1>11. RowGoes(k) /\ StoppingStays(k)
    BY <1>1, <1>4, <1>5, <1>6, <1>7, <1>8, <1>9, <1>10 DEF RowGoes, AttemptGoes, StoppingStays, Running, q
  <1> QED BY <1>4, <1>5, <1>9, <1>11, RowStep DEF q

-----------------------------------------------------------------------------
(* The steps of a lease. *)

\* A lease that goes on in another phase.
LEMMA MoveStep ==
    ASSUME Inv, NEW b \in Borrower, NEW to \in Phase \ {"none", "read"}, lease[b].ph # "none",
           lease' = [lease EXCEPT ![b].ph = to], UNCHANGED <<acct, stop, queue, exec, proc>>,
           Production(b)' => Production(b) \/ Admitted(b)
    PROVE  Inv'
  <1> DEFINE l == lease[b]
             r == [l EXCEPT !.ph = to]
  <1>1. l \in LeaseRow /\ lease \in [Borrower -> LeaseRow] /\ lease' = [lease EXCEPT ![b] = r]
    BY DEF Inv, Types
  <1> HIDE DEF l
  <1>2. r \in LeaseRow /\ r.ph = to /\ r.a = l.a /\ r.rev = l.rev /\ r.kind = l.kind
    BY <1>1 DEF LeaseRow
  <1> HIDE DEF r
  <1>3. OnlyLease(b) /\ lease'[b] = r
    BY <1>1, <1>2, LeasePut DEF OnlyLease
  <1>4. LeaseGoes(b)
    BY <1>2, <1>3 DEF LeaseGoes, LeaseKeeps, l
  <1> QED BY <1>2, <1>3, <1>4, LeaseStep

\* A lease is registered before its check.
LEMMA RegisterStep == ASSUME Inv, NEW b \in Borrower, Register(b) PROVE Inv'
  <1>1. lease[b].ph # "none" /\ lease' = [lease EXCEPT ![b].ph = "held"] /\ UNCHANGED <<acct, stop, queue, exec, proc>>
    BY DEF Register, Move
  <1>2. lease'[b].ph = "held"
    BY <1>1 DEF Inv, Types, LeaseRow
  <1> QED BY <1>1, <1>2, MoveStep DEF Phase, Production, Physical

\* A lease that passes its check is on a version in service.
LEMMA ValidateStep == ASSUME Inv, NEW b \in Borrower, Validate(b) PROVE Inv'
  <1> DEFINE to == IF ~Valid(b) THEN "leaving" ELSE IF b \in Task THEN "valid" ELSE "using"
  <1>1. lease[b].ph # "none" /\ lease' = [lease EXCEPT ![b].ph = to] /\ UNCHANGED <<acct, stop, queue, exec, proc>>
    BY DEF Validate, Move
  <1>2. lease'[b].ph = to /\ lease'[b].kind = lease[b].kind
    BY <1>1 DEF Inv, Types, LeaseRow
  <1>3. to \in Phase \ {"none", "read"} /\ (to \in {"using", "closing"} => Valid(b))
    BY DEF Phase
  <1> HIDE DEF to
  <1>4. Production(b)' => Admitted(b)
    BY <1>1, <1>2, <1>3 DEF Production, Physical, Valid, Admitted
  <1> QED BY <1>1, <1>3, <1>4, MoveStep

\* A lease begins with the version that was read.
LEMMA BorrowStep == ASSUME Inv, NEW b \in Borrower, Borrow(b) PROVE Inv'
  <1>1. /\ b \notin {Loop, Proc} /\ UNCHANGED <<acct, stop, queue, exec, proc>>
        /\ \E a \in Account, kind \in {"use", "test", "login"} :
             Reading(b, a, kind) /\ (b \in Task => queue[b].live /\ a = queue[b].acct)
    <2>1. CASE b \in Task
      <3>1. queue[b].acct \in Account /\ queue[b].live /\ Reading(b, queue[b].acct, "use")
        BY <2>1, TypeFacts DEF Borrow, Inv
      <3> QED BY <2>1, <3>1 DEF Borrow
    <2>2. CASE b \notin Task
      BY <2>2 DEF Borrow
    <2> QED BY <2>1, <2>2
  <1>2. PICK a \in Account, kind \in {"use", "test", "login"} :
             Reading(b, a, kind) /\ (b \in Task => queue[b].live /\ a = queue[b].acct)
    BY <1>1
  <1> DEFINE r == [ph |-> "read", a |-> a, rev |-> acct[a].rev, kind |-> kind, fresh |-> kind # "use"]
  <1>3. acct[a].rev \in Nat
    BY TypeFacts DEF Inv
  <1>4. r \in LeaseRow /\ r.ph = "read" /\ r.a = a
    BY <1>3 DEF LeaseRow, Phase, Accounts0
  <1>5. lease' = [lease EXCEPT ![b] = r]
    BY <1>2 DEF Reading
  <1> HIDE DEF r
  <1>6. OnlyLease(b) /\ lease'[b] = r
    BY <1>1, <1>4, <1>5, LeasePut DEF OnlyLease, Inv, Types
  <1> QED BY <1>1, <1>2, <1>4, <1>6, LeaseStep DEF LeaseGoes

\* A step that leaves the accounts alone.
LEMMA CalmStep ==
    ASSUME Inv, Types', UNCHANGED <<acct, stop>>, \A b \in Borrower : LeaseGoes(b), \A k \in Task : RowGoes(k),
           \A k \in Task : lease'[k].ph # "read" \/ lease'[k] = lease[k],
           \A k \in Task : lease[k].ph # "none" => queue'[k].live /\ queue'[k].acct = queue[k].acct,
           LoopLent(Loop)', LoopLent(Proc)', Executing', ProcGoes
    PROVE  Inv'
  <1>1. \A k \in Task : TaskLent(k)'
    BY TaskLentKept DEF Borrower
  <1>2. Carried' /\ Waited'
    BY AccountsStay, WaitedKept, CarriedKept
  <1> QED BY <1>1, <1>2, AccountsStay, StepKeeps DEF Step

\* One that leaves the loops alone as well.
LEMMA QuietStep ==
    ASSUME Inv, Types', UNCHANGED <<acct, stop, exec, proc>>,
           \A b \in Borrower : LeaseGoes(b) /\ (lease'[b].ph # "read" \/ lease'[b] = lease[b]),
           \A k \in Task : RowGoes(k) /\ StoppingStays(k),
           \A k \in Task : lease[k].ph # "none" => queue'[k].live /\ queue'[k].acct = queue[k].acct
    PROVE  Inv'
  <1>1. LoopLent(Loop)' /\ LoopLent(Proc)'
    <2>1. Loop \in Borrower /\ Proc \in Borrower
      BY DEF Borrower
    <2> QED BY <2>1, LoopLentKept
  <1>2. Executing'
    BY ExecutingKept
  <1>3. \A k \in Task : lease'[k].ph # "read" \/ lease'[k] = lease[k]
    BY DEF Borrower
  <1>4. ProcGoes
    BY ProcStays
  <1> QED BY <1>1, <1>2, <1>3, <1>4, CalmStep

\* An attempt is bound only to a version in service.
LEMMA BindStep == ASSUME Inv, NEW k \in Task, Bind(k) PROVE Inv'
  <1> DEFINE to == IF Bindable(k) THEN "using" ELSE "leaving"
             v == <<lease[k].a, lease[k].rev>>
             l == lease[k]
             r == [l EXCEPT !.ph = to]
             q == queue[k]
             s == [q EXCEPT !.bound = q.bound \union {v}]
  <1>1. k \in Borrower /\ lease[k].ph = "valid" /\ Lent(k) /\ TaskLent(k) /\ UNCHANGED <<acct, stop, exec, proc>>
    BY DEF Bind, Move, Inv, Borrower
  <1>2. lease' = [lease EXCEPT ![k] = r] /\ l \in LeaseRow /\ lease \in [Borrower -> LeaseRow]
    BY <1>1 DEF Bind, Move, Inv, Types
  <1>3. to \in Phase \ {"none", "read"} /\ (to \in {"using", "closing"} => Bindable(k))
    BY DEF Phase
  <1>4. CASE ~Bindable(k)
    <2>1. to = "leaving" /\ lease' = [lease EXCEPT ![k].ph = to] /\ UNCHANGED queue
      BY <1>4 DEF Bind, Move
    <2>2. lease'[k].ph = "leaving"
      BY <1>1, <2>1 DEF Inv, Types, LeaseRow
    <2> HIDE DEF to
    <2> QED BY <1>1, <1>3, <2>1, <2>2, MoveStep DEF Production, Physical
  <1>5. CASE Bindable(k)
    <2>1. queue' = [queue EXCEPT ![k] = s] /\ q \in TaskRow /\ queue \in [Task -> TaskRow] /\ v \in Account \X Nat
      BY <1>1, <1>5, TypeFacts DEF Bind, Inv, Types, Lent
    <2>2. q.live /\ Admitted(k) /\ Row(k)
      BY <1>1, <1>5 DEF TaskLent, Bindable, Admitted, Inv
    <2> HIDE DEF l, q, to, v
    <2>3. r \in LeaseRow /\ r.ph = to /\ r.a = l.a /\ r.rev = l.rev /\ r.kind = l.kind
      BY <1>2, <1>3 DEF LeaseRow
    <2>4. s \in TaskRow /\ s.bound = q.bound \union {v} /\ s.st = q.st /\ s.op = q.op /\ s.live = q.live
            /\ s.acct = q.acct /\ s.ops = q.ops
      BY <2>1 DEF TaskRow, Bindings
    <2> HIDE DEF r, s
    <2>5. lease' \in [Borrower -> LeaseRow] /\ lease'[k] = r /\ \A c \in Borrower \ {k} : lease'[c] = lease[c]
      BY <1>1, <1>2, <2>3, LeasePut
    <2>6. queue' \in [Task -> TaskRow] /\ queue'[k] = s /\ \A j \in Task \ {k} : queue'[j] = queue[j]
      BY <2>1, <2>4, QueuePut
    <2>7. LeaseGoes(k) /\ lease'[k].ph # "read"
      BY <1>1, <1>3, <2>2, <2>3, <2>5 DEF LeaseGoes, LeaseKeeps, l
    <2>8. RowGoes(k) /\ StoppingStays(k)
      BY <1>1, <2>2, <2>4, <2>6 DEF RowGoes, AttemptGoes, StoppingStays, Row, Running, q, v
    <2>9. \A b \in Borrower : LeaseGoes(b) /\ (lease'[b].ph # "read" \/ lease'[b] = lease[b])
      BY <2>5, <2>7, LeaseUnmoved
    <2>10. \A j \in Task : RowGoes(j) /\ StoppingStays(j) /\ queue'[j].live = queue[j].live
             /\ queue'[j].acct = queue[j].acct
      BY <2>4, <2>6, <2>8, RowUnmoved DEF q
    <2>11. \A j \in Task : lease[j].ph # "none" => queue'[j].live /\ queue'[j].acct = queue[j].acct
      BY <2>10 DEF Inv, TaskLent
    <2>12. Types'
      BY <1>1, <2>5, <2>6 DEF Inv, Types
    <2> QED BY <1>1, <2>9, <2>10, <2>11, <2>12, QuietStep
  <1> QED BY <1>4, <1>5

-----------------------------------------------------------------------------
(* The steps that change an account. *)

\* What is no longer fresh.
LEMMA OutdatedLeases ==
    ASSUME Inv, NEW a \in Account
    PROVE  /\ Outdated(a) \in [Borrower -> LeaseRow]
           /\ \A b \in Borrower : /\ Outdated(a)[b].ph = lease[b].ph /\ Outdated(a)[b].a = lease[b].a
                                  /\ Outdated(a)[b].rev = lease[b].rev /\ Outdated(a)[b].kind = lease[b].kind
                                  /\ lease[b].a # a => Outdated(a)[b] = lease[b]
  <1>1. ASSUME NEW b \in Borrower
        PROVE  LET r == IF lease[b].a = a THEN [lease[b] EXCEPT !.fresh = FALSE] ELSE lease[b] IN
               r \in LeaseRow /\ r.ph = lease[b].ph /\ r.a = lease[b].a /\ r.rev = lease[b].rev
                 /\ r.kind = lease[b].kind
    <2> DEFINE l == lease[b]
    <2>1. l \in LeaseRow
      BY TypeFacts DEF Inv
    <2> HIDE DEF l
    <2>2. LET r == [l EXCEPT !.fresh = FALSE] IN
          r \in LeaseRow /\ r.ph = l.ph /\ r.a = l.a /\ r.rev = l.rev /\ r.kind = l.kind
      BY <2>1 DEF LeaseRow
    <2> QED BY <2>1, <2>2 DEF l
  <1> QED BY <1>1, Zenon DEF Outdated

\* Leases that only lose their freshness go on.
LEMMA OutdatedGoes ==
    ASSUME Inv, NEW a \in Account, lease' = Outdated(a)
    PROVE  /\ lease' \in [Borrower -> LeaseRow]
           /\ \A b \in Borrower : /\ LeaseGoes(b) /\ LeaseKeeps(b) /\ lease'[b].ph = lease[b].ph
                                  /\ Production(b)' <=> Production(b)
  <1>1. ASSUME NEW b \in Borrower, lease[b].ph = "none" PROVE lease'[b] = NoLease
    <2>1. lease[b] = NoLease
      BY <1>1 DEF Inv, Lent
    <2>2. NoLease.a # a
      BY DEF NoLease
    <2> QED BY <2>1, <2>2, OutdatedLeases
  <1>2. ASSUME NEW b \in Borrower PROVE LeaseKeeps(b) /\ lease'[b].ph = lease[b].ph
                 /\ (lease[b].ph # "none" => lease'[b].a \in Account)
    BY OutdatedLeases DEF LeaseKeeps, Inv, Lent
  <1> QED BY <1>1, <1>2, OutdatedLeases DEF LeaseGoes, LeaseKeeps, Production, Physical

\* An account changes without going out of service, and leases lose their freshness.
LEMMA AccountStep ==
    ASSUME Inv, acct' \in [Account -> AccountRow], lease' \in [Borrower -> LeaseRow],
           \A a \in Account : Versions(a)', Served, UNCHANGED <<stop, queue, exec, proc>>,
           \A b \in Borrower : LeaseGoes(b) /\ (lease'[b] = NoLease \/ (LeaseKeeps(b) /\ lease'[b].ph = lease[b].ph))
    PROVE  Inv'
  <1>1. NoLease.ph = "none"
    BY DEF NoLease
  <1>2. \A k \in Task : RowGoes(k) /\ StoppingStays(k)
    BY RowUnmoved
  <1>3. ASSUME NEW k \in Task PROVE TaskLent(k)'
    <2>1. TaskLent(k) /\ k \in Borrower
      BY DEF Inv, Borrower
    <2> QED BY <1>1, <2>1 DEF TaskLent, LeaseKeeps
  <1>4. ASSUME NEW b \in {Loop, Proc} PROVE LoopLent(b)'
    <2>1. LoopLent(b) /\ b \in Borrower
      BY DEF Inv, Borrower
    <2> QED BY <1>1, <2>1 DEF LoopLent, LeaseKeeps
  <1>5. Executing'
    BY <1>2, ExecutingKept
  <1>6. ProcGoes /\ \A a \in Account : Stopping(a) => Stopping(a)'
    BY ProcStays DEF Stopping
  <1>7. Carried' /\ Waited'
    BY <1>6, WaitedKept, CarriedKept
  <1>8. Types'
    BY DEF Inv, Types
  <1> QED BY <1>2, <1>3, <1>4, <1>5, <1>7, <1>8, StepKeeps DEF Step

\* Enabling an account brings its version into service.
LEMMA EnableStep == ASSUME Inv, NEW a \in Account, Enable(a) PROVE Inv'
  <1> DEFINE q == acct[a]
             r == [q EXCEPT !.enabled = TRUE]
  <1>1. /\ q \in AccountRow /\ acct \in [Account -> AccountRow] /\ acct' = [acct EXCEPT ![a] = r]
        /\ Versions(a) /\ Activatable(a) /\ lease' = Outdated(a) /\ UNCHANGED <<stop, queue, exec, proc>>
    BY DEF Enable, Inv, Types
  <1> HIDE DEF q
  <1>2. r \in AccountRow /\ r.enabled /\ r.rev = q.rev /\ r.verified = q.verified /\ r.deleted = q.deleted
    BY <1>1 DEF AccountRow
  <1> HIDE DEF r
  <1>3. acct' \in [Account -> AccountRow] /\ acct'[a] = r /\ \A c \in Account \ {a} : acct'[c] = acct[c]
    BY <1>1, <1>2, AcctPut
  <1>4. ASSUME NEW c \in Account PROVE Versions(c)'
    <2>1. Versions(c)
      BY DEF Inv
    <2> QED BY <1>1, <1>2, <1>3, <2>1 DEF Versions, Activatable, Stopping, q
  <1>5. Served
    BY <1>1, <1>2, <1>3 DEF Served, InService, Stopping, q
  <1> QED BY <1>1, <1>3, <1>4, <1>5, OutdatedGoes, AccountStep

\* A test confirms the present version.
LEMMA VerifiedStep == ASSUME Inv, NEW b \in Borrower, Verified(b) PROVE Inv'
  <1> DEFINE a == lease[b].a
             q == acct[a]
             r == [q EXCEPT !.verified = q.rev]
  <1>1. a \in Account
    BY DEF Verified, Inv, Lent
  <1>2. /\ q \in AccountRow /\ acct \in [Account -> AccountRow] /\ acct' = [acct EXCEPT ![a] = r]
        /\ Versions(a) /\ lease' = Outdated(a) /\ UNCHANGED <<stop, queue, exec, proc>>
    BY <1>1 DEF Verified, Inv, Types
  <1> HIDE DEF a, q
  <1>3. r \in AccountRow /\ r.enabled = q.enabled /\ r.rev = q.rev /\ r.verified = q.rev /\ r.deleted = q.deleted
          /\ q.rev \in Nat
    BY <1>2 DEF AccountRow
  <1> HIDE DEF r
  <1>4. acct' \in [Account -> AccountRow] /\ acct'[a] = r /\ \A c \in Account \ {a} : acct'[c] = acct[c]
    BY <1>1, <1>2, <1>3, AcctPut
  <1>5. ASSUME NEW c \in Account PROVE Versions(c)'
    <2>1. Versions(c)
      BY DEF Inv
    <2> QED BY <1>2, <1>3, <1>4, <2>1 DEF Versions, Stopping, q
  <1>6. Served
    BY <1>2, <1>3, <1>4 DEF Served, InService, Stopping, q
  <1> QED BY <1>1, <1>2, <1>4, <1>5, <1>6, OutdatedGoes, AccountStep

\* A lease that ends.
LEMMA EndedGoes ==
    ASSUME Inv, NEW b \in Borrower, NEW f \in [Borrower -> LeaseRow], lease' = [f EXCEPT ![b] = NoLease]
    PROVE  /\ lease' \in [Borrower -> LeaseRow] /\ lease'[b] = NoLease /\ \A c \in Borrower \ {b} : lease'[c] = f[c]
           /\ LeaseGoes(b)
  <1>1. NoLease \in LeaseRow
    BY DEF NoLease, LeaseRow, Phase, Accounts0
  <1> QED BY <1>1 DEF LeaseGoes

\* A login replaces the version of an account that is out of service.
LEMMA SaveSessionStep == ASSUME Inv, NEW b \in Borrower, SaveSession(b) PROVE Inv'
  <1> DEFINE a == lease[b].a
             q == acct[a]
             saved == ~acct[a].deleted /\ ~Stopping(a) /\ ~acct[a].enabled /\ lease[b].fresh
             r == [q EXCEPT !.rev = q.rev + 1, !.verified = q.rev + 1]
  <1>1. a \in Account
    BY DEF SaveSession, Inv, Lent
  <1>2. q \in AccountRow /\ acct \in [Account -> AccountRow] /\ Versions(a) /\ q.rev < MaxRev /\ q.rev \in Nat
    BY <1>1, TypeFacts DEF SaveSession, Inv, Types
  <1>3. UNCHANGED <<stop, queue, exec, proc>>
    BY DEF SaveSession
  <1>4. CASE saved
    <2>1. acct' = [acct EXCEPT ![a] = r] /\ lease' = [Outdated(a) EXCEPT ![b] = NoLease] /\ ~q.deleted /\ ~Stopping(a)
            /\ ~q.enabled
      BY <1>1, <1>2, <1>4 DEF SaveSession
    <2>2. Outdated(a) \in [Borrower -> LeaseRow]
      BY <1>1, OutdatedLeases
    <2>3. /\ lease' \in [Borrower -> LeaseRow] /\ lease'[b] = NoLease /\ LeaseGoes(b)
          /\ \A c \in Borrower \ {b} : lease'[c] = Outdated(a)[c]
      BY <2>1, <2>2, EndedGoes
    <2>4. ASSUME NEW c \in Borrower \ {b} PROVE LeaseGoes(c) /\ (lease'[c] = NoLease \/ (LeaseKeeps(c)
                   /\ lease'[c].ph = lease[c].ph))
      <3>1. LeaseKeeps(c) /\ lease'[c].ph = lease[c].ph
        BY <1>1, <2>3, OutdatedLeases DEF LeaseKeeps
      <3>2. lease[c].ph # "none" => LeaseGoes(c)
        BY <3>1 DEF LeaseGoes, Production, Physical, LeaseKeeps, Inv, Lent
      <3>3. lease[c].ph = "none" => lease'[c] = NoLease
        <4>1. NoLease.a # a
          BY <1>1 DEF NoLease
        <4>2. lease[c].ph = "none" => lease[c] = NoLease
          BY DEF Inv, Lent
        <4> QED BY <1>1, <2>3, <4>1, <4>2, OutdatedLeases
      <3> QED BY <3>1, <3>2, <3>3 DEF LeaseGoes
    <2> HIDE DEF a, q, saved
    <2>5. r \in AccountRow /\ r.enabled = q.enabled /\ r.rev = q.rev + 1 /\ r.verified = q.rev + 1
            /\ r.deleted = q.deleted
      <3>1. PICK n \in Nat : n = q.rev + 1
        BY <1>2
      <3>2. r = [q EXCEPT !.rev = n, !.verified = n]
        BY <3>1
      <3> QED BY <1>2, <3>1, <3>2 DEF AccountRow
    <2> HIDE DEF r
    <2>6. acct' \in [Account -> AccountRow] /\ acct'[a] = r /\ \A c \in Account \ {a} : acct'[c] = acct[c]
      BY <1>1, <1>2, <2>1, <2>5, AcctPut
    <2>7. ASSUME NEW c \in Account PROVE Versions(c)'
      <3>1. Versions(c)
        BY DEF Inv
      <3>2. CASE c = a
        BY <1>2, <1>3, <2>1, <2>5, <2>6, <3>2 DEF Versions, Stopping
      <3>3. CASE c # a
        BY <1>3, <2>6, <3>1, <3>3 DEF Versions, Stopping
      <3> QED BY <3>2, <3>3
    <2>8. Served
      BY <1>3, <2>1, <2>6 DEF Served, InService, Stopping, q
    <2>9. ASSUME NEW c \in Borrower PROVE LeaseGoes(c) /\ (lease'[c] = NoLease \/ (LeaseKeeps(c)
                   /\ lease'[c].ph = lease[c].ph))
      <3>1. CASE c = b
        BY <2>3, <3>1
      <3>2. CASE c # b
        BY <2>4, <3>2
      <3> QED BY <3>1, <3>2
    <2> QED BY <1>3, <2>3, <2>6, <2>7, <2>8, <2>9, AccountStep
  <1>5. CASE ~saved
    <2>1. acct' = acct /\ lease' = [lease EXCEPT ![b] = NoLease] /\ lease \in [Borrower -> LeaseRow]
      BY <1>5 DEF SaveSession, Inv, Types
    <2>2. OnlyLease(b) /\ LeaseGoes(b) /\ lease'[b] = NoLease
      BY <1>3, <2>1, EndedGoes DEF OnlyLease
    <2>3. NoLease.ph = "none"
      BY DEF NoLease
    <2> QED BY <2>2, <2>3, LeaseStep
  <1> QED BY <1>4, <1>5

-----------------------------------------------------------------------------
(* The execution of the queue operations. *)

\* Neither loop has a lease while the execution borrows none.
LEMMA LoopsIdle ==
    ASSUME Inv, exec.ph \notin {"preflight", "cut"} \/ exec.by = None
    PROVE  /\ lease[Loop].ph = "none" /\ lease[Proc].ph = "none"
           /\ lease' = lease => LoopLent(Loop)' /\ LoopLent(Proc)'
  <1>1. lease[Loop].ph = "none" /\ lease[Proc].ph = "none"
    BY DEF Inv, LoopLent
  <1> QED BY <1>1 DEF LoopLent

\* The pending operations are those of downloads that wait, one of each.
LEMMA PendingRows ==
    ASSUME Inv
    PROVE  /\ PendingOperations \in Todo
           /\ \A t \in PendingOperations : queue[t[1]].st = "STOPPING"
           /\ \A t, u \in PendingOperations : t[1] = u[1] => t = u
  <1>1. \A i \in Task : queue[i].op # None => queue[i].op \in Action /\ queue[i].st = "STOPPING"
    BY TypeFacts DEF Inv, Row
  <1> QED BY <1>1 DEF PendingOperations, Todo

\* An execution begins.
LEMMA ExecuteBegins ==
    ASSUME Inv, NEW x \in {Loop, Proc}, Execute(x), UNCHANGED queue, proc'.ph = "queue" <=> x = Proc
    PROVE  exec' \in ExecRow /\ Executing'
  <1> DEFINE P == PendingOperations
             r == [NoExec EXCEPT !.by = x, !.todo = P, !.ph = "take"]
  <1>1. exec' = r
    BY DEF Execute
  <1>2. /\ P \in Todo
        /\ \A t \in P : queue[t[1]].st = "STOPPING"
        /\ \A t, u \in P : t[1] = u[1] => t = u
    BY PendingRows
  <1> HIDE DEF P
  <1>3. r \in ExecRow /\ r.by = x /\ r.todo = P /\ r.ph = "take"
    BY <1>2 DEF ExecRow, NoExec, Accounts0, Pools
  <1> HIDE DEF r
  <1>4. x # None
    OBVIOUS
  <1> QED BY <1>1, <1>2, <1>3, <1>4 DEF Executing

\* A step that touches neither leases nor downloads.
LEMMA Unleased ==
    ASSUME Inv, UNCHANGED <<lease, queue>>
    PROVE  /\ \A b \in Borrower : LeaseGoes(b)
           /\ \A k \in Task : RowGoes(k) /\ StoppingStays(k)
           /\ \A k \in Task : lease[k].ph # "none" => queue'[k].live /\ queue'[k].acct = queue[k].acct
  BY LeaseUnmoved, RowUnmoved DEF Inv, TaskLent

\* The loop of the queue begins an execution.
LEMMA LoopBeginStep == ASSUME Inv, LoopBegin PROVE Inv'
  <1>1. exec.by = None /\ Execute(Loop) /\ UNCHANGED <<acct, stop, lease, queue, proc>>
    BY DEF LoopBegin, Execute
  <1>2. exec' \in ExecRow /\ Executing'
    BY <1>1, ExecuteBegins DEF Inv, Executing
  <1>3. Types'
    BY <1>1, <1>2 DEF Inv, Types
  <1> QED BY <1>1, <1>2, <1>3, Unleased, LoopsIdle, ProcStays, CalmStep

\* The account loop executes the operations once its list is empty, or finds none.
LEMMA ProcessQueueStep == ASSUME Inv, ProcessQueue PROVE Inv'
  <1>1. exec.by = None /\ proc.ph = "wait" /\ proc.waits = {} /\ UNCHANGED <<acct, stop, lease, queue>>
    BY DEF ProcessQueue, Execute
  <1>2. PICK ph \in {"queue", "finish"} : proc' = [proc EXCEPT !.ph = ph] /\ ((ph = "queue"
               /\ Execute(Proc)) \/ (ph = "finish" /\ UNCHANGED exec))
    <2>1. \/ Execute(Proc) /\ proc' = [proc EXCEPT !.ph = "queue"]
          \/ proc' = [proc EXCEPT !.ph = "finish"] /\ UNCHANGED exec
      BY DEF ProcessQueue
    <2> QED BY <2>1
  <1>3. proc' \in ProcRow /\ proc'.ph = ph /\ proc'.a = proc.a
    BY <1>2 DEF Inv, Types, ProcRow
  <1>4. exec' \in ExecRow /\ Executing'
    <2>1. CASE ph = "queue"
      BY <1>1, <1>2, <1>3, <2>1, ExecuteBegins
    <2>2. CASE ph = "finish"
      BY <1>1, <1>2, <1>3, <2>2 DEF Inv, Types, Executing
    <2> QED BY <2>1, <2>2
  <1>5. Types'
    BY <1>1, <1>3, <1>4 DEF Inv, Types
  <1>6. ProcGoes
    BY <1>1, <1>3 DEF ProcGoes
  <1> QED BY <1>1, <1>4, <1>5, <1>6, Unleased, LoopsIdle, CalmStep

\* What a cancellation does to a lease.
LEMMA CutTo ==
    ASSUME NEW l \in LeaseRow, NEW r, r = Cut(l)
    PROVE  /\ r \in LeaseRow /\ r.a = l.a /\ r.rev = l.rev /\ r.kind = l.kind /\ r.ph # "read"
           /\ r.ph = "none" <=> l.ph = "none"
           /\ r.ph \in {"using", "closing"} => l.ph \in {"using", "closing"}
  <1> DEFINE to == CASE l.ph \in {"read", "held", "valid"} -> "leaving" [] l.ph = "using" -> "closing" [] OTHER -> l.ph
  <1>1. l.ph \in Phase
    BY DEF LeaseRow
  <1>2. /\ to \in Phase \ {"read"} /\ (to = "none" <=> l.ph = "none")
        /\ to \in {"using", "closing"} => l.ph \in {"using", "closing"}
    BY <1>1 DEF Phase
  <1>3. r = [l EXCEPT !.ph = to]
    BY DEF Cut
  <1> HIDE DEF to
  <1> QED BY <1>2, <1>3 DEF LeaseRow

\* A cancelled request stays a request on its version until its cleanup is over.
LEMMA CutGoes ==
    ASSUME Inv, NEW b \in Borrower, lease'[b] = Cut(lease[b])
    PROVE  LeaseGoes(b) /\ lease'[b] \in LeaseRow /\ lease'[b].ph # "read"
             /\ (lease'[b].ph = "none" <=> lease[b].ph = "none")
  <1>1. lease[b] \in LeaseRow /\ Lent(b)
    BY TypeFacts DEF Inv
  <1>2. /\ lease'[b] \in LeaseRow /\ LeaseKeeps(b) /\ lease'[b].ph # "read"
        /\ lease'[b].ph = "none" <=> lease[b].ph = "none"
        /\ lease'[b].ph \in {"using", "closing"} => lease[b].ph \in {"using", "closing"}
    BY <1>1, CutTo DEF LeaseKeeps
  <1>3. lease[b].ph = "none" => lease'[b] = NoLease
    <2>1. NoLease.ph = "none"
      BY DEF NoLease
    <2>2. Cut(NoLease) = NoLease
      BY DEF Cut, NoLease
    <2> QED BY <1>1, <2>2 DEF Lent
  <1> QED BY <1>2, <1>3 DEF LeaseGoes, LeaseKeeps, Production, Physical

\* What a cancellation does to a producer.
LEMMA CutRow ==
    ASSUME Inv, NEW k \in Task, queue'[k] = [queue[k] EXCEPT !.cut = TRUE]
    PROVE  /\ RowGoes(k) /\ StoppingStays(k) /\ queue'[k] \in TaskRow
           /\ queue'[k].live = queue[k].live /\ queue'[k].acct = queue[k].acct /\ queue'[k].st = queue[k].st
  <1> DEFINE q == queue[k]
             r == [q EXCEPT !.cut = TRUE]
  <1>1. q \in TaskRow /\ Row(k) /\ queue'[k] = r
    BY TypeFacts DEF Inv
  <1> HIDE DEF q
  <1>2. /\ r \in TaskRow /\ r.st = q.st /\ r.op = q.op /\ r.ops = q.ops /\ r.acct = q.acct /\ r.bound = q.bound
        /\ r.live = q.live
    BY <1>1 DEF TaskRow
  <1> HIDE DEF r
  <1> QED BY <1>1, <1>2 DEF RowGoes, AttemptGoes, StoppingStays, Row, Running, q

\* An operation is taken up, and its producer cancelled.
LEMMA TakeStep == ASSUME Inv, Take PROVE Inv'
  <1>1. PICK t \in exec.todo :
          /\ exec' = [exec EXCEPT !.todo = @ \ {t}, !.k = t, !.ph = "exit"]
          /\ \/ queue' = [queue EXCEPT ![t[1]].cut = TRUE] /\ lease' = [lease EXCEPT ![t[1]] = Cut(@)]
             \/ UNCHANGED <<queue, lease>>
    BY DEF Take
  <1>2. exec.ph = "take" /\ UNCHANGED <<acct, stop, proc>>
    BY DEF Take
  <1>3. t \in Task \X Action /\ t[1] \in Task /\ t[1] \in Borrower
    BY <1>1 DEF Inv, Types, ExecRow, Todo, Borrower
  <1> DEFINE rest == exec.todo \ {t}
  <1>4. rest \in Todo
    BY DEF Inv, Types, ExecRow, Todo
  <1>5. exec' \in ExecRow /\ exec'.todo = rest /\ exec'.k = t /\ exec'.ph = "exit" /\ exec'.by = exec.by
    <2>1. exec' = [exec EXCEPT !.todo = rest, !.k = t, !.ph = "exit"]
      BY <1>1
    <2> HIDE DEF rest
    <2> QED BY <1>3, <1>4, <2>1 DEF Inv, Types, ExecRow
  <1>6. /\ \A b \in Borrower : LeaseGoes(b) /\ (lease'[b].ph # "read" \/ lease'[b] = lease[b])
        /\ \A k \in Task : /\ RowGoes(k) /\ queue'[k].live = queue[k].live /\ queue'[k].acct = queue[k].acct
                           /\ queue'[k].st = queue[k].st
        /\ lease' \in [Borrower -> LeaseRow] /\ queue' \in [Task -> TaskRow]
        /\ (lease'[Loop].ph = "none" <=> lease[Loop].ph = "none")
             /\ (lease'[Proc].ph = "none" <=> lease[Proc].ph = "none")
    <2>1. CASE UNCHANGED <<queue, lease>>
      BY <2>1, Unleased DEF Inv, Types
    <2>2. CASE queue' = [queue EXCEPT ![t[1]].cut = TRUE] /\ lease' = [lease EXCEPT ![t[1]] = Cut(@)]
      <3> DEFINE k == t[1]
      <3>1. lease \in [Borrower -> LeaseRow] /\ queue \in [Task -> TaskRow] /\ k \in Task /\ k \in Borrower
        BY <1>3 DEF Inv, Types
      <3> HIDE DEF k
      <3>2. lease'[k] = Cut(lease[k]) /\ \A b \in Borrower \ {k} : lease'[b] = lease[b]
        BY <2>2, <3>1 DEF k
      <3>3. queue'[k] = [queue[k] EXCEPT !.cut = TRUE] /\ \A j \in Task \ {k} : queue'[j] = queue[j]
        BY <2>2, <3>1 DEF k
      <3>4. LeaseGoes(k) /\ lease'[k] \in LeaseRow /\ lease'[k].ph # "read"
        BY <3>1, <3>2, CutGoes
      <3>5. /\ RowGoes(k) /\ queue'[k] \in TaskRow /\ queue'[k].live = queue[k].live
            /\ queue'[k].acct = queue[k].acct /\ queue'[k].st = queue[k].st
        BY <3>1, <3>3, CutRow
      <3>6. ASSUME NEW b \in Borrower PROVE LeaseGoes(b) /\ (lease'[b].ph # "read" \/ lease'[b] = lease[b])
        <4>1. CASE b = k
          BY <3>4, <4>1
        <4>2. CASE b # k
          BY <3>2, <4>2, LeaseUnmoved
        <4> QED BY <4>1, <4>2
      <3>7. ASSUME NEW j \in Task
            PROVE  /\ RowGoes(j) /\ queue'[j].live = queue[j].live /\ queue'[j].acct = queue[j].acct
                   /\ queue'[j].st = queue[j].st
        <4>1. CASE j = k
          BY <3>5, <4>1
        <4>2. CASE j # k
          BY <3>3, <4>2, RowUnmoved
        <4> QED BY <4>1, <4>2
      <3>8. lease' \in [Borrower -> LeaseRow]
        <4>1. lease' = [lease EXCEPT ![k] = lease'[k]]
          BY <2>2, <3>1 DEF k
        <4> QED BY <3>1, <3>4, <4>1
      <3>9. queue' \in [Task -> TaskRow]
        <4>1. queue' = [queue EXCEPT ![k] = queue'[k]]
          BY <2>2, <3>1 DEF k
        <4> QED BY <3>1, <3>5, <4>1
      <3>10. Loop # k /\ Proc # k /\ Loop \in Borrower /\ Proc \in Borrower
        BY <3>1 DEF Borrower
      <3> QED BY <3>2, <3>6, <3>7, <3>8, <3>9, <3>10
    <2> QED BY <1>1, <2>1, <2>2
  <1>7. LoopLent(Loop)' /\ LoopLent(Proc)'
    BY <1>2, <1>6, LoopsIdle DEF LoopLent
  <1>8. Executing'
    <2>1. \A u \in exec.todo : u[1] \in Task
      BY DEF Inv, Types, ExecRow, Todo
    <2>2. \A u \in rest : u \in exec.todo /\ u[1] # t[1]
      BY <1>1 DEF Inv, Executing
    <2> HIDE DEF rest
    <2> QED BY <1>1, <1>2, <1>3, <1>5, <1>6, <2>1, <2>2 DEF Inv, Executing
  <1>9. Types'
    BY <1>2, <1>5, <1>6 DEF Inv, Types
  <1>10. \A k \in Task : lease[k].ph # "none" => queue'[k].live /\ queue'[k].acct = queue[k].acct
    BY <1>6 DEF Inv, TaskLent
  <1>11. \A k \in Task : lease'[k].ph # "read" \/ lease'[k] = lease[k]
    BY <1>6 DEF Borrower
  <1> QED BY <1>2, <1>6, <1>7, <1>8, <1>9, <1>10, <1>11, ProcStays, CalmStep

\* The producer is gone: from here on nothing claims the download.
LEMMA ExitedStep == ASSUME Inv, Exited PROVE Inv'
  <1> DEFINE to == IF exec.k[2] = "cancel" THEN "finish" ELSE "choose"
  <1>1. exec.ph = "exit" /\ ~queue[exec.k[1]].live /\ UNCHANGED <<acct, stop, lease, queue, proc>>
    BY DEF Exited
  <1>2. exec' = [exec EXCEPT !.ph = to, !.seen = {}, !.sel = None] /\ to \in {"finish", "choose"}
    BY DEF Exited
  <1> HIDE DEF to
  <1>3. exec' \in ExecRow /\ exec'.ph = to /\ exec'.by = exec.by /\ exec'.todo = exec.todo /\ exec'.k = exec.k
    BY <1>2 DEF Inv, Types, ExecRow, Accounts0, Pools
  <1>4. Executing'
    BY <1>1, <1>2, <1>3 DEF Inv, Executing
  <1>5. Types'
    BY <1>1, <1>3 DEF Inv, Types
  <1> QED BY <1>1, <1>4, <1>5, Unleased, LoopsIdle, ProcStays, CalmStep

\* The resolver borrows an account of the pool.
LEMMA ChooseStep == ASSUME Inv, Choose PROVE Inv'
  <1>1. exec.ph = "choose" /\ UNCHANGED <<acct, stop, queue, proc>> /\ exec.by \in {Loop, Proc} /\ exec.by \in Borrower
    BY DEF Choose, Inv, Types, ExecRow, Executing, Borrower
  <1>2. CASE UNCHANGED lease /\ exec' = [exec EXCEPT !.ph = "finish"]
    <2>1. exec' \in ExecRow /\ exec'.ph = "finish" /\ exec'.by = exec.by /\ exec'.todo = exec.todo /\ exec'.k = exec.k
      BY <1>2 DEF Inv, Types, ExecRow
    <2>2. Executing'
      BY <1>1, <2>1 DEF Inv, Executing
    <2>3. Types'
      BY <1>1, <1>2, <2>1 DEF Inv, Types
    <2> QED BY <1>1, <1>2, <2>2, <2>3, Unleased, LoopsIdle, ProcStays, CalmStep
  <1>3. ASSUME NEW a \in Choices, Reading(exec.by, a, "use"), exec' = [exec EXCEPT !.ph = "preflight", !.seen = @ \union {a}]
        PROVE  Inv'
    <2> DEFINE b == exec.by
               seen == exec.seen \union {a}
               r == [ph |-> "read", a |-> a, rev |-> acct[a].rev, kind |-> "use", fresh |-> FALSE]
    <2>1. a \in Account
      <3>1. exec.k[1] \in Task
        BY <1>1 DEF Inv, Executing
      <3>2. queue[exec.k[1]].pool \subseteq Accounts0
        BY <3>1 DEF Inv, Types, TaskRow, Pools
      <3> QED BY <1>3, <3>2 DEF Choices, Accounts0
    <2>2. acct[a].rev \in Nat
      BY <2>1, TypeFacts DEF Inv
    <2>3. r \in LeaseRow /\ r.ph = "read" /\ r.a = a /\ r.kind = "use"
      BY <2>1, <2>2 DEF LeaseRow, Phase, Accounts0
    <2>4. lease' = [lease EXCEPT ![b] = r] /\ lease \in [Borrower -> LeaseRow]
      BY <1>3 DEF Reading, Inv, Types
    <2>5. exec' = [exec EXCEPT !.ph = "preflight", !.seen = seen] /\ seen \in Pools
      BY <1>3, <2>1 DEF Inv, Types, ExecRow, Pools, Accounts0
    <2> HIDE DEF r, seen
    <2>6. exec' \in ExecRow /\ exec'.ph = "preflight" /\ exec'.by = exec.by /\ exec'.todo = exec.todo
            /\ exec'.k = exec.k
      BY <2>5 DEF Inv, Types, ExecRow
    <2>7. lease' \in [Borrower -> LeaseRow] /\ lease'[b] = r /\ \A c \in Borrower \ {b} : lease'[c] = lease[c]
      BY <1>1, <2>3, <2>4, LeasePut
    <2>8. ASSUME NEW c \in Borrower PROVE LeaseGoes(c)
      <3>1. CASE c = b
        BY <2>1, <2>3, <2>7, <3>1 DEF LeaseGoes
      <3>2. CASE c # b
        BY <2>7, <3>2, LeaseUnmoved
      <3> QED BY <3>1, <3>2
    <2>9. ASSUME NEW c \in {Loop, Proc} PROVE LoopLent(c)'
      <3>1. LoopLent(c) /\ c \in Borrower
        BY DEF Inv, Borrower
      <3> QED BY <1>1, <2>3, <2>6, <2>7, <3>1 DEF LoopLent
    <2>10. \A k \in Task : k \in Borrower /\ lease'[k] = lease[k]
      BY <1>1, <2>7 DEF Borrower
    <2>11. \A k \in Task : RowGoes(k) /\ (lease[k].ph # "none" => queue'[k].live /\ queue'[k].acct = queue[k].acct)
      BY <1>1, RowUnmoved DEF Inv, TaskLent
    <2>12. Executing'
      BY <1>1, <2>6 DEF Inv, Executing
    <2>13. Types'
      BY <1>1, <2>6, <2>7 DEF Inv, Types
    <2> QED BY <1>1, <2>8, <2>9, <2>10, <2>11, <2>12, <2>13, ProcStays, CalmStep
  <1> QED BY <1>2, <1>3 DEF Choose

\* The row of a finished operation leaves STOPPING only with its operation.
LEMMA FinishRow ==
    ASSUME Inv, exec.ph = "finish", NEW k \in Task, k = exec.k[1], Finish
    PROVE  /\ queue' \in [Task -> TaskRow] /\ RowGoes(k) /\ \A j \in Task \ {k} : queue'[j] = queue[j]
  <1> DEFINE q == queue[k]
             sel == exec.sel
             r == IF q.op = None \/ (sel # None /\ ~Usable(sel)) THEN q
                  ELSE IF q.op = "cancel" THEN [q EXCEPT !.st = "CANCELLED", !.op = None, !.fin = TRUE]
                  ELSE IF sel = None THEN [q EXCEPT !.st = "FAILED", !.op = None, !.fin = TRUE]
                  ELSE [q EXCEPT !.st = "PENDING", !.op = None, !.fin = TRUE, !.acct = sel]
  <1>1. queue' = [queue EXCEPT ![k] = r]
    BY DEF Finish, ActionSaved
  <1>2. q \in TaskRow /\ queue \in [Task -> TaskRow] /\ sel \in Accounts0 /\ Row(k) /\ ~q.live /\ q.st = "STOPPING"
    BY DEF Inv, Types, ExecRow, Executing
  <1>3. q.op # None
    BY <1>2 DEF Row
  <1> HIDE DEF q, sel
  <1>4. CASE r = q
    <2>1. queue' = queue
      BY <1>1, <1>2, <1>4 DEF q
    <2> QED BY <1>2, <2>1, RowUnmoved
  <1>5. CASE r # q
    <2>1. r \in TaskRow /\ r.op = None /\ r.st \in {"CANCELLED", "FAILED", "PENDING"} /\ r.live = q.live
      BY <1>2, <1>5 DEF TaskRow, Status, Accounts0
    <2> HIDE DEF r
    <2>2. queue' \in [Task -> TaskRow] /\ queue'[k] = r /\ \A j \in Task \ {k} : queue'[j] = queue[j]
      BY <1>1, <1>2, <2>1, QueuePut
    <2> QED BY <1>2, <2>1, <2>2 DEF RowGoes
  <1> QED BY <1>4, <1>5

\* An operation ends, with the download or with another account.
LEMMA FinishStep == ASSUME Inv, Finish PROVE Inv'
  <1> DEFINE k == exec.k[1]
  <1>1. exec.ph = "finish" /\ UNCHANGED <<acct, stop, lease>> /\ k \in Task /\ k \in Borrower /\ ~queue[k].live
    BY DEF Finish, Inv, Executing, Borrower
  <1>2. queue' \in [Task -> TaskRow] /\ RowGoes(k) /\ \A j \in Task \ {k} : queue'[j] = queue[j]
    BY <1>1, FinishRow
  <1>3. exec.by # None /\ (\A t \in exec.todo : t[1] \in Task \ {k}) /\ (exec.by = Proc <=> proc.ph = "queue")
    BY <1>1 DEF Inv, Types, ExecRow, Todo, Executing
  <1>4. /\ exec' = IF exec.todo = {} THEN NoExec ELSE [exec EXCEPT !.ph = "take", !.k = None, !.sel = None]
        /\ proc' = IF exec.by = Proc /\ exec.todo = {} THEN [proc EXCEPT !.ph = "finish"] ELSE proc
    BY DEF Finish
  <1> HIDE DEF k
  <1>5. exec' \in ExecRow /\ proc' \in ProcRow /\ exec'.ph \in {"idle", "take"} /\ ProcGoes /\ Executing'
    <2>1. CASE exec.todo = {}
      <3>1. exec' = NoExec /\ NoExec \in ExecRow /\ NoExec.ph = "idle" /\ NoExec.by = None /\ NoExec.todo = {}
        BY <1>4, <2>1 DEF NoExec, ExecRow, Todo, Pools, Accounts0
      <3>2. proc' \in ProcRow /\ proc'.a = proc.a /\ proc'.ph # "queue" /\ (proc.ph = "wait" => proc' = proc)
              /\ (proc.ph = "idle" => proc' = proc)
        BY <1>3, <1>4, <2>1 DEF Inv, Types, ProcRow
      <3>3. Executing'
        BY <3>1, <3>2 DEF Executing
      <3>4. ProcGoes
        BY <3>2 DEF ProcGoes
      <3> QED BY <3>1, <3>2, <3>3, <3>4
    <2>2. CASE exec.todo # {}
      <3>1. exec' \in ExecRow /\ exec'.ph = "take" /\ exec'.by = exec.by /\ exec'.todo = exec.todo
        BY <1>4, <2>2 DEF Inv, Types, ExecRow, Accounts0
      <3>2. UNCHANGED proc /\ proc \in ProcRow
        BY <1>4, <2>2 DEF Inv, Types
      <3>3. Executing'
        BY <1>2, <1>3, <3>1, <3>2 DEF Inv, Executing
      <3> QED BY <3>1, <3>2, <3>3, ProcStays
    <2> QED BY <2>1, <2>2
  <1>6. \A j \in Task : RowGoes(j) /\ (j # k => queue'[j] = queue[j])
    BY <1>2, RowUnmoved
  <1>7. \A j \in Task : lease[j].ph # "none" => queue'[j].live /\ queue'[j].acct = queue[j].acct
    BY <1>1, <1>6 DEF Inv, TaskLent
  <1>8. Types'
    BY <1>1, <1>2, <1>5 DEF Inv, Types
  <1>9. LoopLent(Loop)' /\ LoopLent(Proc)'
    BY <1>1, LoopsIdle
  <1> QED BY <1>1, <1>5, <1>6, <1>7, <1>8, <1>9, LeaseUnmoved, CalmStep

\* A request ends: it leaves the list of the account loop.
LEMMA ReleaseStep == ASSUME Inv, NEW b \in Borrower, Release(b) PROVE Inv'
  <1> DEFINE l == lease[b]
             saves == l.kind = "login" /\ l.ph = "using"
             r == IF saves THEN [l EXCEPT !.ph = "save"] ELSE NoLease
             waits == proc.waits \ {b}
  <1>1. /\ l.ph \in {"using", "leaving", "closing"} /\ l \in LeaseRow /\ l.a \in Account
             /\ lease \in [Borrower -> LeaseRow]
        /\ UNCHANGED <<acct, stop, queue>>
    BY TypeFacts DEF Release, Inv, Lent, Types
  <1>2. lease' = [lease EXCEPT ![b] = r] /\ proc' = [proc EXCEPT !.waits = waits]
    BY DEF Release
  <1>3. NoLease \in LeaseRow /\ NoLease.ph = "none"
    BY DEF NoLease, LeaseRow, Phase, Accounts0
  <1> HIDE DEF l
  <1>4. r \in LeaseRow /\ (r = NoLease \/ (r.ph = "save" /\ r.a = l.a /\ r.rev = l.rev /\ r.kind = l.kind))
    BY <1>1, <1>3 DEF LeaseRow, Phase
  <1>5. b \in {Loop, Proc} => r = NoLease /\ exec.by = b /\ exec.ph \in {"preflight", "cut"}
    BY <1>1 DEF Inv, LoopLent, l
  <1> HIDE DEF r
  <1>6. lease' \in [Borrower -> LeaseRow] /\ lease'[b] = r /\ \A c \in Borrower \ {b} : lease'[c] = lease[c]
    BY <1>1, <1>2, <1>4, LeasePut
  <1>7. ~Production(b)' /\ LeaseGoes(b) /\ lease'[b].ph # "read"
    BY <1>1, <1>3, <1>4, <1>6 DEF Production, Physical, LeaseGoes, LeaseKeeps, l
  <1>8. ASSUME NEW c \in Borrower PROVE LeaseGoes(c) /\ (lease'[c].ph # "read" \/ lease'[c] = lease[c])
    <2>1. CASE c = b
      BY <1>7, <2>1
    <2>2. CASE c # b
      BY <1>6, <2>2, LeaseUnmoved
    <2> QED BY <2>1, <2>2
  <1>9. waits \in Borrowers /\ \A c \in proc.waits : c # b => c \in waits
    BY DEF Inv, Types, ProcRow, Borrowers
  <1> HIDE DEF waits
  <1>10. proc' \in ProcRow /\ proc'.ph = proc.ph /\ proc'.a = proc.a /\ proc'.waits = waits
    BY <1>2, <1>9 DEF Inv, Types, ProcRow
  <1>11. ProcGoes
    BY <1>7, <1>9, <1>10 DEF ProcGoes
  <1>12. \A k \in Task : RowGoes(k) /\ StoppingStays(k) /\ (lease[k].ph # "none" => queue'[k].live
           /\ queue'[k].acct = queue[k].acct)
    BY <1>1, RowUnmoved DEF Inv, TaskLent
  <1>13. exec' \in ExecRow /\ Executing' /\ LoopLent(Loop)' /\ LoopLent(Proc)'
    <2>1. CASE b \in {Loop, Proc}
      <3>1. ASSUME NEW c \in {Loop, Proc} PROVE lease'[c].ph = "none"
        <4>1. LoopLent(c) /\ c \in Borrower
          BY DEF Inv, Borrower
        <4> QED BY <1>3, <1>5, <1>6, <2>1, <4>1 DEF LoopLent
      <3>2. \/ exec.ph = "cut" /\ exec' = NoExec
            \/ exec.ph = "preflight" /\ exec' = [exec EXCEPT !.ph = "choose"]
            \/ exec.ph = "preflight" /\ exec' = [exec EXCEPT !.ph = "finish", !.sel = l.a]
        BY <1>5, <2>1 DEF Release, l
      <3>3. CASE exec.ph = "cut" /\ exec' = NoExec
        <4>1. NoExec \in ExecRow /\ NoExec.ph = "idle" /\ NoExec.by = None /\ NoExec.todo = {}
          BY DEF NoExec, ExecRow, Todo, Pools, Accounts0
        <4> QED BY <1>10, <3>1, <3>3, <4>1 DEF Inv, Executing, LoopLent
      <3>4. CASE exec.ph = "preflight" /\ exec' # NoExec
        <4>1. exec \in ExecRow /\ l.a \in Accounts0
          BY <1>1 DEF Inv, Types, Accounts0
        <4> DEFINE Goal == /\ exec' \in ExecRow /\ exec'.ph \in {"choose", "finish"} /\ exec'.by = exec.by
                           /\ exec'.todo = exec.todo /\ exec'.k = exec.k
        <4>2. ASSUME exec' = [exec EXCEPT !.ph = "choose"] PROVE Goal
          BY <4>1, <4>2 DEF ExecRow
        <4>3. ASSUME exec' = [exec EXCEPT !.ph = "finish", !.sel = l.a] PROVE Goal
          <5> DEFINE a == l.a
          <5> HIDE DEF a
          <5>1. a \in Accounts0 /\ exec' = [exec EXCEPT !.ph = "finish", !.sel = a]
            BY <4>1, <4>3 DEF a
          <5> QED BY <4>1, <5>1 DEF ExecRow
        <4> HIDE DEF Goal
        <4>4. Goal
          BY <3>2, <3>4, <4>2, <4>3
        <4> QED BY <1>1, <1>10, <3>1, <3>4, <4>4 DEF Goal, Inv, Executing, LoopLent
      <3>5. CASE exec.ph = "preflight" /\ exec' = NoExec
        <4>1. exec'.ph = "choose" \/ exec'.ph = "finish"
          BY <3>2, <3>5 DEF Inv, Types, ExecRow
        <4> QED BY <3>5, <4>1 DEF NoExec
      <3> QED BY <3>2, <3>3, <3>4, <3>5
    <2>2. CASE b \notin {Loop, Proc}
      <3>1. UNCHANGED exec
        BY <2>2 DEF Release
      <3>2. Loop \in Borrower /\ Proc \in Borrower
        BY DEF Borrower
      <3>3. exec \in ExecRow
        BY DEF Inv, Types
      <3> QED BY <1>8, <1>10, <1>12, <3>1, <3>2, <3>3, LoopLentKept, ExecutingKept
    <2> QED BY <2>1, <2>2
  <1>14. Types'
    BY <1>1, <1>6, <1>10, <1>13 DEF Inv, Types
  <1>15. \A k \in Task : lease'[k].ph # "read" \/ lease'[k] = lease[k]
    BY <1>8 DEF Borrower
  <1> QED BY <1>1, <1>8, <1>11, <1>12, <1>13, <1>14, <1>15, CalmStep

-----------------------------------------------------------------------------
(* The stop of an account. *)

\* The list of the account loop has every production request on the version that stops.
LEMMA StopRuntimeStep == ASSUME Inv, NEW a \in Account, StopRuntime(a) PROVE Inv'
  <1> DEFINE held == Held(a, stop[a].rev)
  <1>1. /\ proc.ph = "idle" /\ Stopping(a) /\ UNCHANGED <<acct, stop>>
        /\ lease' = [b \in Borrower |-> IF b \in held THEN Cut(lease[b]) ELSE lease[b]]
        /\ queue' = [k \in Task |-> IF k \in held THEN [queue[k] EXCEPT !.cut = TRUE] ELSE queue[k]]
        /\ exec' = IF Loop \in held THEN [exec EXCEPT !.ph = "cut"] ELSE exec
        /\ proc' = [ph |-> "wait", a |-> a, waits |-> held]
    BY DEF StopRuntime
  <1>2. held \in Borrowers /\ \A b \in held : lease[b].ph \notin {"none", "read"}
    BY DEF Held, Borrowers
  <1>3. \A b \in Borrower : Production(b) /\ lease[b].a = a => b \in held
    BY <1>1 DEF Inv, RequestsUseCurrentVersion, InService, Versions, Held, Physical, Production
  <1> HIDE DEF held
  <1>4. ASSUME NEW b \in Borrower
        PROVE  /\ LeaseGoes(b) /\ lease'[b] \in LeaseRow /\ (lease'[b].ph # "read" \/ lease'[b] = lease[b])
               /\ lease'[b].ph = "none" <=> lease[b].ph = "none"
    <2>1. CASE b \in held
      <3>1. lease'[b] = Cut(lease[b])
        BY <1>1, <2>1
      <3> QED BY <3>1, CutGoes
    <2>2. CASE b \notin held
      <3>1. lease'[b] = lease[b]
        BY <1>1, <2>2
      <3> QED BY <3>1, LeaseUnmoved, TypeFacts DEF Inv
    <2> QED BY <2>1, <2>2
  <1>5. lease' \in [Borrower -> LeaseRow]
    <2>1. lease' = [b \in Borrower |-> lease'[b]]
      BY <1>1
    <2> QED BY <1>4, <2>1
  <1>6. ASSUME NEW k \in Task
        PROVE  /\ RowGoes(k) /\ queue'[k] \in TaskRow /\ queue'[k].st = queue[k].st
               /\ queue'[k].live = queue[k].live /\ queue'[k].acct = queue[k].acct
    <2>1. CASE k \in held
      <3>1. queue'[k] = [queue[k] EXCEPT !.cut = TRUE]
        BY <1>1, <2>1
      <3> QED BY <3>1, CutRow
    <2>2. CASE k \notin held
      <3>1. queue'[k] = queue[k]
        BY <1>1, <2>2
      <3> QED BY <3>1, RowUnmoved, TypeFacts DEF Inv
    <2> QED BY <2>1, <2>2
  <1>7. queue' \in [Task -> TaskRow]
    <2>1. queue' = [k \in Task |-> queue'[k]]
      BY <1>1
    <2> QED BY <1>6, <2>1
  <1>8. proc' \in ProcRow /\ proc'.ph = "wait" /\ proc'.a = a /\ proc'.waits = held
    BY <1>1, <1>2 DEF ProcRow, Accounts0
  <1>9. /\ exec' \in ExecRow /\ exec'.by = exec.by /\ exec'.todo = exec.todo /\ exec'.k = exec.k
        /\ exec'.ph = exec.ph \/ (exec'.ph = "cut" /\ Loop \in held)
    BY <1>1 DEF Inv, Types, ExecRow
  <1>10. Loop \in held => exec.by = Loop /\ exec.ph \in {"preflight", "cut"}
    BY <1>2 DEF Inv, LoopLent
  <1>11. \A t \in exec.todo : t[1] \in Task
    BY DEF Inv, Types, ExecRow, Todo
  <1>12. Executing'
    <2>1. exec'.by = Proc <=> proc'.ph = "queue"
      BY <1>1, <1>8, <1>9 DEF Inv, Executing
    <2>2. CASE exec'.ph = exec.ph
      BY <1>6, <1>9, <1>11, <2>1, <2>2 DEF Inv, Executing
    <2>3. CASE exec'.ph = "cut" /\ exec'.by = Loop
      BY <1>6, <1>9, <1>11, <2>1, <2>3 DEF Inv, Executing
    <2> QED BY <1>9, <1>10, <2>2, <2>3
  <1>13. ASSUME NEW b \in {Loop, Proc} PROVE LoopLent(b)'
    <2>1. b \in Borrower /\ LoopLent(b)
      BY DEF Inv, Borrower
    <2>2. lease'[b].ph # "none" => lease[b].ph # "none" /\ lease'[b].kind = lease[b].kind
      BY <1>4, <2>1 DEF LeaseGoes, LeaseKeeps, NoLease
    <2> QED BY <1>9, <2>1, <2>2 DEF LoopLent
  <1>14. Carried'
    BY <1>1, <1>8 DEF Carried, Stopping
  <1>15. Waited'
    <2> SUFFICES ASSUME NEW b \in Borrower, Production(b)', lease'[b].a = a PROVE b \in held
      BY <1>8 DEF Waited
    <2>1. lease'[b].ph # "none" /\ lease'[b].ph # "read" /\ lease'[b] # NoLease
      BY DEF Production, Physical, NoLease
    <2>2. LeaseKeeps(b) /\ (Production(b) \/ Admitted(b))
      BY <1>4, <2>1 DEF LeaseGoes
    <2>3. Production(b) /\ lease[b].a = a
      BY <1>1, <2>2 DEF LeaseKeeps, Admitted, Usable
    <2> QED BY <1>3, <2>3
  <1>16. Types'
    BY <1>1, <1>5, <1>7, <1>8, <1>9 DEF Inv, Types
  <1>17. ASSUME NEW k \in Task PROVE TaskLent(k)'
    <2>1. TaskLent(k) /\ k \in Borrower
      BY DEF Inv, Borrower
    <2>2. lease[k].ph # "none" => queue'[k].live /\ queue'[k].acct = queue[k].acct
      BY <1>6, <2>1 DEF TaskLent
    <2> QED BY <1>4, <2>1, <2>2, TaskLentKept
  <1> QED BY <1>1, <1>4, <1>6, <1>12, <1>13, <1>14, <1>15, <1>16, <1>17, AccountsStay, StepKeeps DEF Step

\* A download that is bound to the account gets its operation.
LEMMA InterruptedRow ==
    ASSUME Inv, NEW k \in Task, NEW free \in Pools, queue'[k] = Interrupted(k, free)
    PROVE  /\ queue'[k] \in TaskRow /\ RowGoes(k) /\ StoppingStays(k)
           /\ queue'[k].live = queue[k].live /\ queue'[k].acct = queue[k].acct
           /\ Running(k) => queue'[k].op # None
  <1> DEFINE q == queue[k]
  <1>1. q \in TaskRow /\ Row(k)
    BY TypeFacts DEF Inv
  <1>2. CASE q.op # None \/ q.st \in Ended
    <2>1. queue'[k] = queue[k]
      BY <1>2 DEF Interrupted
    <2>2. Running(k) => q.op # None
      BY <1>2 DEF Running, Ended
    <2> QED BY <1>1, <2>1, <2>2, RowUnmoved
  <1>3. CASE q.op = None /\ q.st \notin Ended /\ k \in Pooled
    <2>1. PICK action \in Action : action = "replace-now"
      BY DEF Action
    <2>2. queue'[k] = Replaced(q, action, free)
      BY <1>3, <2>1 DEF Interrupted
    <2> HIDE DEF q
    <2>3. /\ queue'[k] \in TaskRow /\ queue'[k].st = "STOPPING" /\ queue'[k].op = action
          /\ queue'[k].live = q.live /\ queue'[k].bound = q.bound /\ queue'[k].acct = q.acct
      BY <1>1, <2>2, ReplacedRow
    <2>4. action # None
      BY <2>1
    <2> QED BY <1>3, <2>3, <2>4, StoppedRow DEF q
  <1>4. CASE q.op = None /\ q.st = "PENDING" /\ k \notin Pooled
    <2> DEFINE r == [q EXCEPT !.st = "CANCELLED"]
    <2>1. queue'[k] = r
      BY <1>4 DEF Interrupted, Ended
    <2>2. ~q.live
      BY <1>1, <1>4 DEF Row
    <2> HIDE DEF q
    <2>3. r \in TaskRow /\ r.st = "CANCELLED" /\ r.op = q.op /\ r.live = q.live /\ r.acct = q.acct
      BY <1>1 DEF TaskRow, Status
    <2> QED BY <1>4, <2>1, <2>2, <2>3 DEF RowGoes, StoppingStays, Running, q
  <1>5. CASE q.op = None /\ q.st \notin Ended \union {"PENDING"} /\ k \notin Pooled
    <2> DEFINE n == q.ops + 1
               r == [q EXCEPT !.st = "STOPPING", !.op = "cancel", !.ops = n]
    <2>1. queue'[k] = r
      BY <1>5 DEF Interrupted
    <2>2. n \in Nat /\ "cancel" \in Action
      BY <1>1 DEF TaskRow, Action
    <2> HIDE DEF q, n
    <2>3. r \in TaskRow /\ r.st = "STOPPING" /\ r.op = "cancel" /\ r.live = q.live /\ r.bound = q.bound
            /\ r.acct = q.acct
      BY <1>1, <2>2 DEF TaskRow, Status
    <2>4. "cancel" # None
      OBVIOUS
    <2> HIDE DEF r
    <2> QED BY <1>5, <2>1, <2>2, <2>3, <2>4, StoppedRow DEF q
  <1> QED BY <1>2, <1>3, <1>4, <1>5

\* The request of a stop gives every attempt bound to the account an operation.
LEMMA RequestStopStep ==
    ASSUME Inv, NEW a \in Account, NEW action \in {"disable", "edit", "delete"}, RequestStop(a, action)
    PROVE  Inv'
  <1> DEFINE q == acct[a]
             r == [q EXCEPT !.enabled = FALSE]
             free == {b \in Account \ {a} : Usable(b)}
             s == [action |-> action, rev |-> q.rev, deps |-> Dependencies(a)]
  <1>1. /\ q \in AccountRow /\ acct \in [Account -> AccountRow] /\ acct' = [acct EXCEPT ![a] = r]
        /\ stop \in [Account -> StopRow] /\ stop' = [stop EXCEPT ![a] = s]
        /\ Versions(a) /\ ~q.deleted /\ ~Stopping(a) /\ (action = "edit" => q.rev < MaxRev)
        /\ lease' = Outdated(a) /\ UNCHANGED <<exec, proc>>
        /\ queue' = [k \in Task |-> IF Bound(k, a) THEN Interrupted(k, free) ELSE queue[k]]
    BY DEF RequestStop, Inv, Types
  <1>2. free \in Pools
    BY DEF Pools, Accounts0
  <1> HIDE DEF free
  <1>3. ASSUME NEW k \in Task
        PROVE  /\ queue'[k] \in TaskRow /\ RowGoes(k) /\ StoppingStays(k)
               /\ queue'[k].live = queue[k].live /\ queue'[k].acct = queue[k].acct
               /\ Running(k) /\ Bound(k, a) => queue'[k].op # None
    <2>1. CASE Bound(k, a)
      <3>1. queue'[k] = Interrupted(k, free)
        BY <1>1, <2>1
      <3> QED BY <1>2, <3>1, InterruptedRow
    <2>2. CASE ~Bound(k, a)
      <3>1. queue'[k] = queue[k]
        BY <1>1, <2>2
      <3> QED BY <2>2, <3>1, RowUnmoved, TypeFacts DEF Inv
    <2> QED BY <2>1, <2>2
  <1>4. queue' \in [Task -> TaskRow]
    <2>1. queue' = [k \in Task |-> queue'[k]]
      BY <1>1
    <2> QED BY <1>3, <2>1
  <1>5. Dependencies(a) \in Deps
    BY <1>3, TypeFacts DEF Dependencies, Deps, TaskRow
  <1>6. s \in StopRow /\ s.rev = q.rev /\ s.action = action /\ s # NoStop
    <2>1. q.rev \in Nat
      BY <1>1 DEF AccountRow
    <2> HIDE DEF q
    <2>2. s \in StopRow /\ s.rev = q.rev /\ s.action = action
      BY <1>5, <2>1 DEF StopRow
    <2> HIDE DEF s
    <2>3. NoStop.action = None /\ action # None
      BY DEF NoStop
    <2> QED BY <2>2, <2>3
  <1> HIDE DEF q, s
  <1>7. r \in AccountRow /\ ~r.enabled /\ r.rev = q.rev /\ r.verified = q.verified /\ r.deleted = q.deleted
    BY <1>1 DEF AccountRow
  <1> HIDE DEF r
  <1>8. acct' \in [Account -> AccountRow] /\ acct'[a] = r /\ \A c \in Account \ {a} : acct'[c] = acct[c]
    BY <1>1, <1>7, AcctPut
  <1>9. stop' \in [Account -> StopRow] /\ stop'[a] = s /\ \A c \in Account \ {a} : stop'[c] = stop[c]
    BY <1>1, <1>6
  <1>10. ASSUME NEW c \in Account PROVE Versions(c)'
    <2>1. Versions(c)
      BY DEF Inv
    <2>2. CASE c = a
      BY <1>1, <1>6, <1>7, <1>8, <1>9, <2>1, <2>2 DEF Versions, Stopping, q
    <2>3. CASE c # a
      BY <1>8, <1>9, <2>1, <2>3 DEF Versions, Stopping
    <2> QED BY <2>2, <2>3
  <1>11. Served
    <2> SUFFICES ASSUME NEW c \in Account, NEW rev \in Nat, InService(c, rev) PROVE InService(c, rev)'
      BY DEF Served
    <2>1. CASE c = a
      BY <1>1, <1>6, <1>7, <1>8, <1>9, <2>1 DEF InService, Stopping, q
    <2>2. CASE c # a
      BY <1>8, <1>9, <2>2 DEF InService, Stopping
    <2> QED BY <2>1, <2>2
  <1>12. \A b \in Borrower : LeaseGoes(b) /\ LeaseKeeps(b) /\ lease'[b].ph = lease[b].ph
    BY <1>1, OutdatedGoes
  <1>13. ASSUME NEW k \in Task PROVE TaskLent(k)'
    <2>1. TaskLent(k) /\ k \in Borrower
      BY DEF Inv, Borrower
    <2> QED BY <1>3, <1>12, <2>1 DEF TaskLent, LeaseKeeps
  <1>14. ASSUME NEW b \in {Loop, Proc} PROVE LoopLent(b)'
    <2>1. LoopLent(b) /\ b \in Borrower
      BY DEF Inv, Borrower
    <2> QED BY <1>1, <1>12, <2>1 DEF LoopLent, LeaseKeeps
  <1>15. Executing'
    BY <1>1, <1>3, ExecutingKept
  <1>16. \A c \in Account : Stopping(c) => Stopping(c)' /\ c # a /\ stop'[c] = stop[c]
    BY <1>1, <1>9 DEF Stopping
  <1>17. Carried' /\ Waited'
    BY <1>1, <1>12, <1>16, ProcStays, WaitedKept, CarriedKept
  <1>18. Depends'
    <2> SUFFICES ASSUME NEW c \in Account, NEW k \in Task, Stopping(c)', Running(k)', NEW v \in queue'[k].bound, v[1] = c
                 PROVE  queue'[k].op # None /\ <<k, queue'[k].ops>> \in stop'[c].deps
      BY DEF Depends
    <2>1. CASE c # a
      <3>1. Stopping(c) /\ stop'[c] = stop[c]
        BY <1>9, <2>1 DEF Stopping
      <3> QED BY <1>3, <3>1, DependsOn
    <2>2. CASE c = a
      <3>1. /\ Running(k)
            /\ v \in queue[k].bound \/ Admitted(k)
        BY <1>3, BoundTo
      <3>2. v \in queue[k].bound
        BY <1>1, <1>6, <1>9, <3>1 DEF Admitted, Stopping
      <3>3. queue[k].acct = a
        BY <2>2, <3>1, <3>2 DEF Inv, Row, Running
      <3>4. Bound(k, a)
        BY <2>2, <3>2, <3>3 DEF Bound
      <3>5. queue'[k].op # None
        BY <1>3, <3>1, <3>4
      <3>6. <<k, queue'[k].ops>> \in Dependencies(a)
        BY <3>4, <3>5 DEF Dependencies
      <3>7. s.deps = Dependencies(a)
        BY DEF s
      <3> QED BY <1>9, <2>2, <3>5, <3>6, <3>7
    <2> QED BY <2>1, <2>2
  <1>19. Types'
    BY <1>1, <1>4, <1>8, <1>9, OutdatedGoes DEF Inv, Types
  <1>20. \A b \in Borrower : Lent(b)'
    BY <1>12, LentKept
  <1>21. RequestsUseCurrentVersion'
    BY <1>11, <1>12, RequestsKept
  <1>22. (\A k \in Task : Row(k)') /\ AttemptsStopWithAccount'
    BY <1>3, <1>11, RowsKept, AttemptsKept
  <1> QED BY <1>10, <1>13, <1>14, <1>15, <1>17, <1>18, <1>19, <1>20, <1>21, <1>22 DEF Inv

\* A stop ends when no request is left on the account and no attempt bound to it runs.
LEMMA FinishStopStep == ASSUME Inv, FinishStop PROVE Inv'
  <1> DEFINE a == proc.a
             s == stop[a]
             q == acct[a]
  <1>1. /\ proc.ph = "finish" /\ proc' = NoProc /\ UNCHANGED <<queue, exec>>
        /\ a \in Account /\ Stopping(a) /\ Versions(a) /\ s \in StopRow /\ q \in AccountRow
    BY TypeFacts DEF FinishStop, Inv, Carried
  <1>2. NoProc \in ProcRow /\ NoProc.ph = "idle"
    BY DEF NoProc, ProcRow, Accounts0, Borrowers
  <1>3. \A k \in Task : RowGoes(k) /\ StoppingStays(k)
    BY <1>1, RowUnmoved
  <1>4. ProcGoes /\ Executing'
    BY <1>1, <1>2, <1>3, ExecutingKept DEF ProcGoes
  <1>5. CASE UNCHANGED <<acct, stop, lease>>
    <2>1. Types'
      BY <1>1, <1>2, <1>5 DEF Inv, Types
    <2>2. LoopLent(Loop)' /\ LoopLent(Proc)'
      BY <1>1, <1>5 DEF Inv, LoopLent
    <2> QED BY <1>1, <1>4, <1>5, <2>1, <2>2, Unleased, CalmStep
  <1>6. CASE ~UNCHANGED <<acct, stop, lease>>
    <2> DEFINE rev == IF s.action = "edit" THEN s.rev + 1 ELSE q.rev
               gone == s.action = "delete"
               r == [q EXCEPT !.rev = rev, !.deleted = gone]
    <2>1. /\ \A o \in s.deps : Completed(o)
          /\ stop' = [stop EXCEPT ![a] = NoStop] /\ lease' = Outdated(a)
          /\ acct' = [acct EXCEPT ![a].rev = IF s.action = "edit" THEN s.rev + 1 ELSE @, ![a].deleted = (s.action = "delete")]
      BY <1>6 DEF FinishStop
    <2>2. acct' = [acct EXCEPT ![a] = r] /\ acct \in [Account -> AccountRow] /\ stop \in [Account -> StopRow]
      BY <1>1, <2>1 DEF Inv, Types
    <2>3. /\ rev \in Nat /\ q.rev <= rev /\ rev <= MaxRev /\ q.rev \in Nat /\ q.verified \in Nat /\ q.verified <= rev
          /\ gone \in BOOLEAN /\ ~q.enabled
      BY <1>1 DEF Versions, AccountRow, StopRow
    <2> HIDE DEF q, rev, gone
    <2>4. r \in AccountRow /\ ~r.enabled /\ r.rev = rev /\ r.verified = q.verified
      BY <1>1, <2>3 DEF AccountRow
    <2> HIDE DEF r
    <2>5. acct' \in [Account -> AccountRow] /\ acct'[a] = r /\ \A c \in Account \ {a} : acct'[c] = acct[c]
      BY <1>1, <2>2, <2>4, AcctPut
    <2>6. NoStop \in StopRow
      BY DEF NoStop, StopRow, Deps
    <2>7. stop' \in [Account -> StopRow] /\ stop'[a] = NoStop /\ \A c \in Account \ {a} : stop'[c] = stop[c]
      BY <1>1, <2>1, <2>2, <2>6
    <2>8. ASSUME NEW c \in Account PROVE Versions(c)'
      <3>1. Versions(c)
        BY DEF Inv
      <3>2. CASE c = a
        BY <2>3, <2>4, <2>5, <2>7, <3>2 DEF Versions, Stopping
      <3>3. CASE c # a
        BY <2>5, <2>7, <3>1, <3>3 DEF Versions, Stopping
      <3> QED BY <3>2, <3>3
    <2>9. /\ lease' \in [Borrower -> LeaseRow]
          /\ \A b \in Borrower : LeaseGoes(b) /\ LeaseKeeps(b) /\ lease'[b].ph = lease[b].ph
               /\ (Production(b)' <=> Production(b))
      BY <1>1, <2>1, OutdatedGoes
    <2>10. RequestsUseCurrentVersion'
      <3> SUFFICES ASSUME NEW b \in Borrower, Production(b)' PROVE InService(lease[b].a, lease[b].rev)'
        BY DEF RequestsUseCurrentVersion, Production
      <3>1. Production(b) /\ LeaseKeeps(b) /\ lease[b].a \in Account
        BY <2>9 DEF Inv, Lent, Production, Physical
      <3>2. lease[b].a # a
        BY <1>1, <3>1 DEF Inv, Waited
      <3>3. InService(lease[b].a, lease[b].rev)
        BY <3>1 DEF Inv, RequestsUseCurrentVersion, Production
      <3>4. acct'[lease[b].a] = acct[lease[b].a] /\ stop'[lease[b].a] = stop[lease[b].a]
        BY <2>5, <2>7, <3>1, <3>2
      <3> QED BY <3>1, <3>3, <3>4 DEF InService, LeaseKeeps, Stopping
    <2>11. AttemptsStopWithAccount'
      <3> SUFFICES ASSUME NEW k \in Task, Running(k), NEW v \in queue[k].bound PROVE InService(v[1], v[2])'
        BY <1>1 DEF AttemptsStopWithAccount, Running
      <3>1. v[1] \in Account /\ InService(v[1], v[2])
        BY TypeFacts DEF Inv, AttemptsStopWithAccount
      <3>2. v[1] # a
        <4> SUFFICES ASSUME v[1] = a PROVE FALSE
          OBVIOUS
        <4>1. queue[k].op # None /\ <<k, queue[k].ops>> \in s.deps
          BY <1>1 DEF Inv, Depends
        <4>2. Completed(<<k, queue[k].ops>>)
          BY <2>1, <4>1
        <4> QED BY <4>1, <4>2 DEF Completed
      <3>3. acct'[v[1]] = acct[v[1]] /\ stop'[v[1]] = stop[v[1]]
        BY <2>5, <2>7, <3>1, <3>2
      <3> QED BY <3>1, <3>3 DEF InService, Stopping
    <2>12. Depends'
      <3> SUFFICES ASSUME NEW c \in Account, NEW k \in Task, Stopping(c)', Running(k)', NEW v \in queue'[k].bound, v[1] = c
                   PROVE  queue'[k].op # None /\ <<k, queue'[k].ops>> \in stop'[c].deps
        BY DEF Depends
      <3>1. Stopping(c) /\ stop'[c] = stop[c]
        BY <2>7 DEF Stopping
      <3> QED BY <1>3, <3>1, DependsOn
    <2>13. ASSUME NEW k \in Task PROVE TaskLent(k)'
      <3>1. TaskLent(k) /\ k \in Borrower
        BY DEF Inv, Borrower
      <3> QED BY <1>1, <2>9, <3>1 DEF TaskLent, LeaseKeeps
    <2>14. ASSUME NEW b \in {Loop, Proc} PROVE LoopLent(b)'
      <3>1. LoopLent(b) /\ b \in Borrower
        BY DEF Inv, Borrower
      <3> QED BY <1>1, <2>9, <3>1 DEF LoopLent, LeaseKeeps
    <2>15. Carried' /\ Waited'
      BY <1>1, <1>2 DEF Carried, Waited
    <2>16. Types'
      BY <1>1, <1>2, <2>5, <2>7, <2>9 DEF Inv, Types
    <2>17. (\A b \in Borrower : Lent(b)') /\ \A k \in Task : Row(k)'
      BY <1>3, <2>9, LentKept, RowsKept
    <2> QED BY <1>4, <2>8, <2>10, <2>11, <2>12, <2>13, <2>14, <2>15, <2>16, <2>17 DEF Inv
  <1> QED BY <1>5, <1>6

\* A lost process leaves no lease and no producer.
LEMMA CrashStep == ASSUME Inv, Crash PROVE Inv'
  <1>1. /\ UNCHANGED <<acct, stop>> /\ exec' = NoExec /\ proc' = NoProc
        /\ lease' = [b \in Borrower |-> NoLease]
        /\ queue' = [k \in Task |-> [queue[k] EXCEPT !.live = FALSE, !.cut = FALSE]]
    BY DEF Crash
  <1>2. NoLease \in LeaseRow /\ NoLease.ph = "none"
    BY DEF NoLease, LeaseRow, Phase, Accounts0
  <1>3. NoExec \in ExecRow /\ NoExec.ph = "idle" /\ NoExec.by = None /\ NoExec.todo = {} /\ NoProc \in ProcRow
          /\ NoProc.ph = "idle"
    BY DEF NoExec, ExecRow, Todo, Pools, Accounts0, NoProc, ProcRow, Borrowers
  <1>4. ASSUME NEW k \in Task PROVE queue'[k] \in TaskRow /\ RowGoes(k) /\ ~queue'[k].live
    <2> DEFINE q == queue[k]
               r == [q EXCEPT !.live = FALSE, !.cut = FALSE]
    <2>1. q \in TaskRow /\ Row(k) /\ queue'[k] = r
      BY <1>1, TypeFacts DEF Inv
    <2> HIDE DEF q
    <2>2. r \in TaskRow /\ r.st = q.st /\ r.op = q.op /\ ~r.live
      BY <2>1 DEF TaskRow
    <2> HIDE DEF r
    <2> QED BY <2>1, <2>2 DEF RowGoes, Row, q
  <1>5. queue' \in [Task -> TaskRow]
    <2>1. queue' = [k \in Task |-> queue'[k]]
      BY <1>1
    <2> QED BY <1>4, <2>1
  <1>6. \A b \in Borrower : lease'[b] = NoLease /\ LeaseGoes(b)
    BY <1>1 DEF LeaseGoes
  <1>7. (\A k \in Task : TaskLent(k)') /\ LoopLent(Loop)' /\ LoopLent(Proc)'
    BY <1>2, <1>6 DEF TaskLent, LoopLent, Borrower
  <1>8. Executing' /\ Carried' /\ Waited'
    BY <1>1, <1>3 DEF Executing, Carried, Waited
  <1>9. Types'
    <2>1. lease' \in [Borrower -> LeaseRow]
      BY <1>1, <1>2
    <2> QED BY <1>1, <1>3, <1>5, <2>1 DEF Inv, Types
  <1> QED BY <1>1, <1>4, <1>6, <1>7, <1>8, <1>9, AccountsStay, StepKeeps DEF Step

-----------------------------------------------------------------------------
(* The theorems. *)

\* The invariant holds at the start.
LEMMA InitInv == ASSUME Init PROVE Inv
  <1>1. /\ NoStop \in StopRow /\ NoExec \in ExecRow /\ NoExec.ph = "idle" /\ NoExec.by = None /\ NoExec.todo = {}
        /\ NoProc \in ProcRow /\ NoProc.ph = "idle"
    BY DEF NoStop, StopRow, Deps, NoExec, ExecRow, Todo, Pools, Accounts0, NoProc, ProcRow, Borrowers
  <1>2. NoLease \in LeaseRow /\ NoLease.ph = "none"
    BY DEF NoLease, LeaseRow, Phase, Accounts0
  <1>3. ASSUME NEW k \in Task
        PROVE  queue[k] \in TaskRow /\ queue[k].st = "PENDING" /\ queue[k].op = None /\ ~queue[k].live
    <2>1. PICK a \in Account
                 : queue[k] = [st |-> "PENDING", op |-> None, ops |-> 0, acct |-> a, tried |-> {}, pool |-> {None},
                                           bound |-> {}, live |-> FALSE, cut |-> FALSE, fin |-> FALSE]
      BY DEF Init
    <2>2. {None} \in Pools /\ {} \in Pools /\ {} \in Bindings /\ 0 \in Nat /\ "PENDING" \in Status
      BY DEF Pools, Accounts0, Bindings, Status
    <2> QED BY <2>1, <2>2 DEF TaskRow
  <1>4. queue \in [Task -> TaskRow]
    <2>1. queue = [k \in Task |-> queue[k]]
      BY DEF Init
    <2> QED BY <1>3, <2>1
  <1>5. acct \in [Account -> AccountRow] /\ \A a \in Account : ~Stopping(a) /\ acct[a].rev = 1 /\ acct[a].verified = 1
          /\ ~acct[a].deleted
    BY DEF Init, AccountRow, Stopping
  <1>6. Types
    BY <1>1, <1>2, <1>4, <1>5 DEF Init, Types
  <1>7. \A a \in Account : Versions(a)
    <2>1. 1 <= 1 /\ 1 <= MaxRev
      OBVIOUS
    <2> QED BY <1>5, <2>1 DEF Versions
  <1>8. \A b \in Borrower : lease[b] = NoLease
    BY DEF Init
  <1>9. (\A b \in Borrower : Lent(b)) /\ (\A k \in Task : TaskLent(k)) /\ LoopLent(Loop) /\ LoopLent(Proc)
    BY <1>2, <1>8 DEF Lent, TaskLent, LoopLent, Borrower
  <1>10. \A k \in Task : Row(k)
    BY <1>3 DEF Row
  <1>11. Executing /\ Carried /\ Waited
    BY <1>1 DEF Init, Executing, Carried, Waited
  <1>12. Depends /\ AttemptsStopWithAccount
    BY <1>3 DEF Depends, Running, AttemptsStopWithAccount
  <1>13. RequestsUseCurrentVersion
    BY <1>2, <1>8 DEF RequestsUseCurrentVersion, Physical
  <1> QED BY <1>6, <1>7, <1>9, <1>10, <1>11, <1>12, <1>13 DEF Inv

\* Nothing happens.
LEMMA StutterStep == ASSUME Inv, UNCHANGED vars PROVE Inv'
  <1>1. UNCHANGED <<acct, stop, lease, queue, exec, proc>>
    BY DEF vars
  <1>2. Types' /\ Executing' /\ LoopLent(Loop)' /\ LoopLent(Proc)'
    BY <1>1 DEF Inv, Types, Executing, LoopLent
  <1> QED BY <1>1, <1>2, Unleased, ProcStays, CalmStep

\* Every action keeps the invariant.
LEMMA NextStep == ASSUME Inv, Next PROVE Inv'
  <1>1. CASE Administrator
    BY <1>1, EnableStep, RequestStopStep DEF Administrator
  <1>2. CASE \E k \in Task : Download(k)
    BY <1>2, ClaimStep, BindStep, FailStep, DeliverStep, AttemptExitStep, ReclaimStep, CancelStep DEF Download
  <1>3. CASE \E b \in Borrower : Leasing(b)
    BY <1>3, BorrowStep, RegisterStep, ValidateStep, VerifiedStep, ReleaseStep, SaveSessionStep DEF Leasing
  <1>4. CASE Queueing
    BY <1>4, LoopBeginStep, TakeStep, ExitedStep, ChooseStep, FinishStep DEF Queueing
  <1>5. CASE Processing
    BY <1>5, StopRuntimeStep, ProcessQueueStep, FinishStopStep DEF Processing
  <1>6. CASE Crash
    BY <1>6, CrashStep
  <1> QED BY <1>1, <1>2, <1>3, <1>4, <1>5, <1>6 DEF Next

\* Accounts, leases, downloads and the two loops stay in step with one another.
THEOREM InvHolds == Spec => []Inv
  <1>1. Inv /\ [Next]_vars => Inv'
    BY NextStep, StutterStep
  <1> QED BY <1>1, InitInv, PTL DEF Spec

\* Types and shapes: an enabled account is verified and neither deleted nor stopping, an
\* operation waits exactly for a STOPPING download, and the account loop is in the queue
\* exactly while it executes the operations.
THEOREM TypesHold == Spec => []TypeOK
  <1>1. Inv => TypeOK
    <2> SUFFICES ASSUME Inv PROVE TypeOK
      OBVIOUS
    <2>1. exec.by \in {None, Loop, Proc} /\ (exec.by = Proc <=> proc.ph = "queue")
      BY DEF Inv, Types, ExecRow, Executing
    <2> QED BY <2>1, TypeFacts DEF Inv, Versions, Row, Phase, TypeOK
  <1> QED BY <1>1, InvHolds, PTL

\* No production request runs on credentials that were replaced or deleted.
THEOREM RequestsStayCurrent == Spec => []RequestsUseCurrentVersion
  <1>1. Inv => RequestsUseCurrentVersion
    BY DEF Inv
  <1> QED BY <1>1, InvHolds, PTL

\* An attempt that still runs is bound only to versions in service.
THEOREM AttemptsStop == Spec => []AttemptsStopWithAccount
  <1>1. Inv => AttemptsStopWithAccount
    BY DEF Inv
  <1> QED BY <1>1, InvHolds, PTL

\* The administrator's cancel of a download is never overtaken.
THEOREM CancelIsFinal == Spec => CancelPrevails
  <1> DEFINE Cancelled(k) == queue[k].op = "cancel"
             Prevails == \A k \in Task : Cancelled(k) => queue'[k].op = "cancel" \/ queue'[k].st = "CANCELLED"
  <1>1. Inv /\ [Next]_vars => Prevails
    <2> SUFFICES ASSUME Inv, [Next]_vars, NEW k \in Task, Cancelled(k)
                 PROVE  queue'[k].op = "cancel" \/ queue'[k].st = "CANCELLED"
      OBVIOUS
    <2>1. queue \in [Task -> TaskRow] /\ queue[k].st = "STOPPING" /\ queue[k].op = "cancel" /\ "cancel" # None
      BY DEF Inv, Types, Row
    <2>2. CASE queue' = queue
      BY <2>1, <2>2
    <2>3. ASSUME NEW a \in Account, NEW action \in {"disable", "edit", "delete"}, RequestStop(a, action)
          PROVE  queue'[k] = queue[k]
      BY <2>1, <2>3 DEF RequestStop, Interrupted
    <2>4. ASSUME NEW j \in Task, Download(j) PROVE queue'[k].op = "cancel"
      <3>1. CASE j # k
        <4>1. queue'[k] = queue[k]
          BY <2>1, <2>4, <3>1 DEF Download, Claim, Bind, Fail, Deliver, AttemptExit, Reclaim, Cancel
        <4> QED BY <2>1, <4>1
      <3>2. CASE j = k
        BY <2>1, <2>4, <3>2 DEF Download, Claim, Bind, Fail, Deliver, AttemptExit, Reclaim, Cancel, TaskRow
      <3> QED BY <3>1, <3>2
    <2>5. ASSUME Take PROVE queue'[k].op = "cancel"
      BY <2>1, <2>5 DEF Take, TaskRow
    <2>6. ASSUME Finish PROVE queue'[k].op = "cancel" \/ queue'[k].st = "CANCELLED"
      <3>1. CASE k = exec.k[1]
        BY <2>1, <2>6, <3>1 DEF Finish, ActionSaved, TaskRow
      <3>2. CASE k # exec.k[1]
        <4>1. queue'[k] = queue[k]
          BY <2>1, <2>6, <3>2 DEF Finish
        <4> QED BY <2>1, <4>1
      <3> QED BY <3>1, <3>2
    <2>7. ASSUME NEW a \in Account, StopRuntime(a) PROVE queue'[k].op = "cancel"
      BY <2>1, <2>7 DEF StopRuntime, TaskRow
    <2>8. ASSUME Crash PROVE queue'[k].op = "cancel"
      BY <2>1, <2>8 DEF Crash, TaskRow
    <2>9. ASSUME NEW b \in Borrower, Leasing(b) PROVE queue' = queue
      BY <2>9 DEF Leasing, Borrow, Register, Validate, Verified, Release, SaveSession
    <2>10. (\E a \in Account : Enable(a)) \/ LoopBegin \/ Exited \/ Choose \/ ProcessQueue \/ FinishStop
             => queue' = queue
      BY DEF Enable, LoopBegin, Exited, Choose, ProcessQueue, FinishStop
    <2>11. UNCHANGED vars => queue' = queue
      BY DEF vars
    <2>12. CASE Administrator
      BY <2>1, <2>2, <2>3, <2>10, <2>12 DEF Administrator
    <2>13. CASE Queueing
      BY <2>2, <2>5, <2>6, <2>10, <2>13 DEF Queueing
    <2>14. CASE Processing
      BY <2>2, <2>7, <2>10, <2>14 DEF Processing
    <2> QED BY <2>2, <2>4, <2>8, <2>9, <2>11, <2>12, <2>13, <2>14 DEF Next
  <1> QED BY <1>1, InvHolds, PTL DEF Spec, CancelPrevails
=============================================================================
