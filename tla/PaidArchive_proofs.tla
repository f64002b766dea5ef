------------------------- MODULE PaidArchive_proofs -------------------------
(***************************************************************************)
(* What is never lost of a payment, for every number of downloads,         *)
(* attempts, accounts, stops and crashes.  The argument: a form that the   *)
(* provider may have acted on belongs to an intent that stands (it is      *)
(* unresolved or confirmed), a download has at most one standing intent of *)
(* its own and its details name it, and the gallery has at most one        *)
(* unresolved intent.                                                      *)
(***************************************************************************)
EXTENDS PaidArchive, FiniteSetTheorems, TLAPS

USE PaidArchiveAssumption

Version == (Account \union {None}) \X Int
Phase == Asking \union {"idle", "chosen", "bound", "reserve", "error", "download", "failed"}
State == {"PENDING", "RUNNING", "STOPPING", "FAILED", "CANCELLED", "DONE", "REMOVED"}
Pools == {{None}} \union SUBSET Version
TaskRow == [st : State, op : {None, "cancel", "replace"}, n : Nat, acct : Version \union {None},
            pool : Pools, tried : SUBSET (Account \union {None}), pin : Id \union {None},
            from : Nat, bound : Account \union {None}, live : BOOLEAN, cut : BOOLEAN]
Request == [ph : Phase, a : Account \union {None}, rev : Int, id : Id \union {None}, submit : BOOLEAN,
            sent : BOOLEAN, refused : BOOLEAN]
Intent == [st : {"NONE", "REQUESTED", "UNKNOWN", "READY", "REJECTED"}, a : Account \union {None}, rev : Int,
           entry : BOOLEAN, cont : BOOLEAN]

Types ==
    /\ acct \in [Account -> [rev : Int, on : BOOLEAN]]
    /\ task \in [Task -> TaskRow]
    /\ request \in [Task -> Request]
    /\ intent \in [Id -> Intent]
    /\ flight \subseteq Id
    /\ bought \subseteq Id \X (Account \union {None})

Own(k) == <<k, task[k].n>>
Recorded(i) == intent[i].st # "NONE"
Standing(i) == intent[i].st \in {"REQUESTED", "UNKNOWN", "READY"}
Unsettled(i) == intent[i].st \in {"REQUESTED", "UNKNOWN"}
Sent(i) == i \in flight \/ Paid(i)

\* An attempt that runs has a number; one that is over has no coroutine.
Attempts(k) ==
    /\ task[k].n <= MaxAttempt[k]
    /\ task[k].live => task[k].n > 0
    /\ ~task[k].live => request[k].ph = "idle"
    /\ task[k].live /\ ~task[k].cut => task[k].st = "RUNNING"

\* Downloads are taken one after the other.
InOrder == \A j, k \in Task : k < j /\ task[j].n > 0 => task[k].st \in {"DONE", "REMOVED"}

\* An attempt meets no intent under its own number until it records it.
Numbered ==
    \A i \in Id : Recorded(i) =>
        /\ i[2] <= task[i[1]].n
        /\ i[2] = task[i[1]].n /\ task[i[1]].live => request[i[1]].ph \notin {"idle", "chosen", "bound", "reserve"}

\* What the coroutine of a request knows of its intent.
Asks(k) ==
    request[k].ph \in Asking \union {"error"} =>
        /\ request[k].id \in Id /\ Recorded(request[k].id)
        /\ request[k].submit => request[k].id = Own(k) /\ Standing(request[k].id)
        /\ request[k].ph = "post" => request[k].submit /\ request[k].sent
        /\ ~request[k].sent => request[k].submit /\ ~Sent(request[k].id)

SentStands == \A i \in Id : Sent(i) => Standing(i)
OneUnsettled == \A i, j \in Id : Unsettled(i) /\ Unsettled(j) => i = j

\* The details of a download, and the choice of an account under way, name its
\* standing intent.
Named ==
    \A i \in Id : Standing(i) =>
        /\ task[i[1]].pin = i
        /\ request[i[1]].ph \in {"chosen", "bound"} => request[i[1]].id = i

\* An intent is recorded only when no earlier one is unresolved.
LastUnsettled == \A i, j \in Id : Recorded(i) /\ Unsettled(j) => i[1] <= j[1]

Inv ==
    /\ Types
    /\ \A k \in Task : Attempts(k)
    /\ InOrder
    /\ Numbered
    /\ \A k \in Task : Asks(k)
    /\ SentStands
    /\ OneUnsettled
    /\ Named
    /\ LastUnsettled

-----------------------------------------------------------------------------
(* What a step does, as far as the invariant can tell: almost all of them only *)
(* move coroutines on and settle intents.                                      *)

Early == {"idle", "chosen", "bound", "reserve"}
Asked == Asking \union {"error"}
Over == {"DONE", "REMOVED"}

\* No standing intent of download k is forgotten by one who names i.
Names(k, i) == \A x \in Id : Standing(x) /\ x[1] = k => i = x

\* A request that continues an intent of somebody else, and one that goes on.
Continues(k) ==
    /\ request'[k].id \in Id /\ Recorded(request'[k].id)
    /\ ~request'[k].submit /\ request'[k].sent /\ request'[k].ph # "post"
GoesOn(k) ==
    /\ request[k].ph \in Asked
    /\ request'[k].id = request[k].id /\ request'[k].submit = request[k].submit
    /\ request'[k].ph = "post" => request[k].ph = "post"
    /\ \/ request'[k].sent = request[k].sent
       \/ request[k].submit /\ ~Sent(request[k].id) /\ request'[k].ph # "post"

TaskGoes(k) ==
    /\ task'[k].n = task[k].n
    /\ task'[k].live => task[k].live
    /\ task'[k].live /\ ~task'[k].cut => task'[k].st = "RUNNING"
    /\ task[k].st \in Over => task'[k].st \in Over
    /\ Names(k, task'[k].pin)
RequestGoes(k) ==
    /\ request'[k].ph \in {"chosen", "bound"} => Names(k, request'[k].id)
    /\ request'[k].ph \in Early /\ task'[k].live => request[k].ph \in Early
    /\ request'[k].ph \in Asked => Continues(k) \/ GoesOn(k)
Goes(k) == TaskGoes(k) /\ RequestGoes(k) /\ (~task'[k].live => request'[k].ph = "idle")

IntentGoes(i) ==
    \/ intent'[i].st = intent[i].st
    \/ Unsettled(i) /\ intent'[i].st \in {"UNKNOWN", "READY"}
    \/ Unsettled(i) /\ intent'[i].st = "REJECTED" /\ ~Sent(i) /\ request'[i[1]].ph = "failed"

Quiet ==
    /\ \A k \in Task : Goes(k)
    /\ \A i \in Id : IntentGoes(i)
    /\ \A i \in Id : Sent(i)' => Sent(i)

Claimed(k) ==
    /\ UNCHANGED <<request, intent, flight, bought>>
    /\ \A j \in Task \ {k} : task'[j] = task[j]
    /\ task[k].n < MaxAttempt[k] /\ ~task[k].live /\ task[k].st = "PENDING"
    /\ task'[k].n = task[k].n + 1 /\ task'[k].live /\ task'[k].st = "RUNNING" /\ task'[k].pin = task[k].pin
    /\ \A j \in Task : j < k => task[j].st \in Over

Recording(k) ==
    /\ UNCHANGED <<flight, bought>>
    /\ Own(k) \in Id /\ Unresolved = {} /\ task[k].st = "RUNNING" /\ task[k].live
    /\ \A i \in Id : Standing(i) => i[1] # k
    /\ \A i \in Id \ {Own(k)} : intent'[i] = intent[i]
    /\ intent[Own(k)].st = "NONE" /\ intent'[Own(k)].st = "REQUESTED"
    /\ \A j \in Task \ {k} : task'[j] = task[j] /\ request'[j] = request[j]
    /\ task'[k].n = task[k].n /\ task'[k].live /\ task'[k].cut = task[k].cut /\ task'[k].st = task[k].st
    /\ task'[k].pin = Own(k)
    /\ request'[k].ph = "locate" /\ request'[k].id = Own(k) /\ request'[k].submit

Posting(k) ==
    /\ UNCHANGED <<task, intent, bought>>
    /\ request[k].ph = "page" /\ request[k].submit
    /\ flight' = flight \union {request[k].id}
    /\ \A j \in Task \ {k} : request'[j] = request[j]
    /\ request'[k].ph = "post" /\ request'[k].id = request[k].id /\ request'[k].submit /\ request'[k].sent

Step == Types' /\ (Quiet \/ \E k \in Task : Claimed(k) \/ Recording(k) \/ Posting(k))

-----------------------------------------------------------------------------
(* The invariant over the shapes. *)

\* An intent is named by its download and the number of the attempt.
LEMMA IdType ==
    /\ \A k \in Task : \A n \in 1..MaxAttempt[k] : <<k, n>> \in Id
    /\ \A i \in Id : i = <<i[1], i[2]>> /\ i[1] \in Task /\ i[2] \in Nat /\ 1 <= i[2] /\ i[2] <= MaxAttempt[i[1]]
  BY DEF Id

\* What arithmetic needs of the types.
LEMMA TypeFacts ==
    ASSUME Types
    PROVE  /\ Task \subseteq Int /\ MaxAttempt \in [Task -> Nat]
           /\ \A k \in Task : task[k].n \in Nat /\ task[k].live \in BOOLEAN
  BY DEF Types, TaskRow

\* Coroutines that go on and verdicts that follow the rules keep the invariant.
LEMMA QuietKeeps ==
    ASSUME Inv, Types', Quiet
    PROVE  Inv'
  <1>1. \A k \in Task : Attempts(k)'
    BY TypeFacts DEF Inv, Quiet, Goes, TaskGoes, Attempts
  <1>2. InOrder'
    BY DEF Inv, InOrder, Quiet, Goes, TaskGoes, Over
  <1>3. \A i \in Id : (Recorded(i)' <=> Recorded(i)) /\ (Unsettled(i)' => Unsettled(i)) /\ (Standing(i)' => Standing(i))
    BY DEF Quiet, IntentGoes, Recorded, Unsettled, Standing
  <1>4. Numbered'
    BY <1>3, IdType DEF Inv, Numbered, Quiet, Goes, TaskGoes, RequestGoes, Early
  <1>5. ASSUME NEW k \in Task PROVE Asks(k)'
    <2>1. Goes(k) /\ Asks(k)
      BY DEF Quiet, Inv
    <2>2. SUFFICES ASSUME request'[k].ph \in Asked PROVE Asks(k)'
      BY DEF Asks, Asked
    <2>3. CASE Continues(k)
      BY <1>3, <2>3 DEF Continues, Asks
    <2>4. CASE GoesOn(k)
      <3>1. /\ request'[k].id = request[k].id /\ request[k].id \in Id /\ Recorded(request[k].id)
            /\ request'[k].submit = request[k].submit
            /\ request[k].submit => request[k].id = Own(k) /\ Standing(request[k].id)
            /\ request'[k].ph = "post" => request'[k].submit /\ request'[k].sent
            /\ ~request'[k].sent => request[k].submit /\ ~Sent(request[k].id)
        BY <2>1, <2>4 DEF GoesOn, Asks, Asked
      <3>2. ~request'[k].sent => ~Sent(request[k].id)'
        BY <3>1 DEF Quiet
      <3>3. Own(k)' = Own(k)
        BY <2>1 DEF Goes, TaskGoes, Own
      <3>4. ASSUME request[k].submit PROVE Standing(request[k].id)'
        <4>1. PICK i \in Id : i = request[k].id
          BY <3>1
        <4>2. IntentGoes(i) /\ i[1] = k /\ Standing(i)
          BY <3>1, <3>4, <4>1 DEF Quiet, Own
        <4>3. request'[i[1]].ph # "failed"
          BY <2>2, <4>2 DEF Asked, Asking
        <4>4. Standing(i)'
          BY <4>2, <4>3 DEF IntentGoes, Standing
        <4> QED BY <3>1, <4>1, <4>4
      <3> QED BY <1>3, <3>1, <3>2, <3>3, <3>4 DEF Asks
    <2> QED BY <2>1, <2>2, <2>3, <2>4 DEF Goes, RequestGoes
  <1>6. SentStands'
    BY DEF Inv, SentStands, Quiet, IntentGoes, Standing
  <1>7. OneUnsettled'
    BY <1>3 DEF Inv, OneUnsettled
  <1>8. Named'
    BY <1>3, IdType DEF Named, Quiet, Goes, TaskGoes, RequestGoes, Names
  <1>9. LastUnsettled'
    BY <1>3 DEF Inv, LastUnsettled
  <1> QED BY <1>1, <1>2, <1>4, <1>5, <1>6, <1>7, <1>8, <1>9 DEF Inv

\* A new attempt has a number under which nothing is recorded.
LEMMA ClaimedKeeps ==
    ASSUME Inv, Types', NEW k \in Task, Claimed(k)
    PROVE  Inv'
  <1>1. \A j \in Task : Attempts(j)'
    BY TypeFacts DEF Inv, Claimed, Attempts
  <1>2. InOrder'
    BY TypeFacts DEF Inv, InOrder, Claimed, Over
  <1>3. \A i \in Id : (Recorded(i)' <=> Recorded(i)) /\ (Unsettled(i)' <=> Unsettled(i))
          /\ (Standing(i)' <=> Standing(i)) /\ (Sent(i)' <=> Sent(i))
    BY DEF Claimed, Recorded, Unsettled, Standing, Sent, Paid
  <1>4. Numbered'
    BY <1>3, IdType, TypeFacts DEF Inv, Numbered, Claimed
  <1>5. ASSUME NEW j \in Task PROVE Asks(j)'
    <2>1. CASE j = k
      BY <2>1 DEF Inv, Claimed, Attempts, Asks, Asking
    <2>2. CASE j # k
      BY <1>3, <2>2 DEF Inv, Claimed, Asks, Own
    <2> QED BY <2>1, <2>2
  <1>6. SentStands'
    BY <1>3 DEF Inv, SentStands
  <1>7. OneUnsettled'
    BY <1>3 DEF Inv, OneUnsettled
  <1>8. Named'
    BY <1>3, IdType DEF Inv, Named, Claimed
  <1>9. LastUnsettled'
    BY <1>3 DEF Inv, LastUnsettled
  <1> QED BY <1>1, <1>2, <1>4, <1>5, <1>6, <1>7, <1>8, <1>9 DEF Inv

\* An intent is recorded when none of the gallery is unresolved and none of the download stands.
LEMMA RecordingKeeps ==
    ASSUME Inv, Types', NEW k \in Task, Recording(k)
    PROVE  Inv'
  <1>1. \A j \in Task : Attempts(j)'
    BY TypeFacts DEF Inv, Recording, Attempts
  <1>2. InOrder'
    BY DEF Inv, InOrder, Recording
  <1>3. /\ \A i \in Id \ {Own(k)} : /\ Recorded(i)' <=> Recorded(i)
                                    /\ Unsettled(i)' <=> Unsettled(i)
                                    /\ Standing(i)' <=> Standing(i)
        /\ \A i \in Id : Sent(i)' <=> Sent(i)
        /\ \A i \in Id : ~Unsettled(i)
        /\ Own(k) \in Id /\ ~Recorded(Own(k)) /\ ~Standing(Own(k)) /\ Recorded(Own(k))' /\ Standing(Own(k))'
    <2>1. \A i \in Id : Sent(i)' <=> Sent(i)
      BY DEF Recording, Sent, Paid
    <2>2. \A i \in Id : ~Unsettled(i)
      BY DEF Recording, Unsettled, Unresolved
    <2>3. \A i \in Id \ {Own(k)} : intent'[i] = intent[i]
      BY DEF Recording
    <2>4. Own(k) \in Id /\ ~Recorded(Own(k)) /\ ~Standing(Own(k)) /\ intent'[Own(k)].st = "REQUESTED"
      BY DEF Recording, Recorded, Standing
    <2>5. Own(k)' = Own(k)
      BY DEF Recording, Own
    <2> QED BY <2>1, <2>2, <2>3, <2>4, <2>5 DEF Recorded, Unsettled, Standing
  <1>4. Own(k) = <<k, task[k].n>> /\ Own(k)' = Own(k)
    BY DEF Own, Recording
  <1>5. Numbered'
    <2> SUFFICES ASSUME NEW i \in Id, Recorded(i)'
                 PROVE  /\ i[2] <= task'[i[1]].n
                        /\ i[2] = task'[i[1]].n /\ task'[i[1]].live =>
                              request'[i[1]].ph \notin {"idle", "chosen", "bound", "reserve"}
      BY DEF Numbered
    <2>1. CASE i = Own(k)
      BY <1>4, <2>1, TypeFacts DEF Inv, Recording
    <2>2. CASE i # Own(k) /\ i[1] = k
      <3>1. i[2] <= task[k].n
        BY <1>3, <2>2 DEF Inv, Numbered
      <3> QED BY <2>2, <3>1 DEF Recording
    <2>3. CASE i[1] # k
      <3>1. i[1] \in Task /\ i # Own(k) /\ Recorded(i)
        BY <1>3, <1>4, <2>3, IdType
      <3>2. task'[i[1]] = task[i[1]] /\ request'[i[1]] = request[i[1]]
        BY <2>3, <3>1 DEF Recording
      <3> QED BY <3>1, <3>2 DEF Inv, Numbered
    <2> QED BY <2>1, <2>2, <2>3
  <1>6. ASSUME NEW j \in Task PROVE Asks(j)'
    <2>1. CASE j = k
      <3>1. ~Sent(Own(k))
        BY <1>3 DEF Inv, SentStands
      <3> QED BY <1>3, <1>4, <2>1, <3>1 DEF Recording, Asks
    <2>2. CASE j # k
      <3>1. request'[j] = request[j] /\ Own(j)' = Own(j)
        BY <2>2 DEF Recording, Own
      <3>2. Asks(j) /\ \A i \in Id : (Recorded(i) => Recorded(i)') /\ (Standing(i) => Standing(i)') /\ (Sent(i)' => Sent(i))
        BY <1>3 DEF Inv
      <3> QED BY <3>1, <3>2 DEF Asks
    <2> QED BY <2>1, <2>2
  <1>7. SentStands'
    BY <1>3 DEF Inv, SentStands
  <1>8. OneUnsettled'
    BY <1>3 DEF Inv, OneUnsettled
  <1>9. Named'
    <2> SUFFICES ASSUME NEW i \in Id, Standing(i)'
                 PROVE  task'[i[1]].pin = i /\ (request'[i[1]].ph \in {"chosen", "bound"} => request'[i[1]].id = i)
      BY DEF Named
    <2>1. CASE i = Own(k)
      BY <1>4, <2>1 DEF Recording
    <2>2. CASE i # Own(k)
      BY <1>3, <2>2, IdType DEF Inv, Named, Recording
    <2> QED BY <2>1, <2>2
  <1>10. LastUnsettled'
    <2>1. \A j \in Task : k < j => task[j].n <= 0
      BY TypeFacts DEF Inv, InOrder, Recording
    <2>2. \A i \in Id : Recorded(i) => i[1] <= k
      BY <2>1, IdType, TypeFacts DEF Inv, Numbered
    <2> QED BY <1>3, <1>4, <2>2 DEF LastUnsettled
  <1> QED BY <1>1, <1>2, <1>5, <1>6, <1>7, <1>8, <1>9, <1>10 DEF Inv

\* The form is posted for the intent that the attempt recorded itself, which stands.
LEMMA PostingKeeps ==
    ASSUME Inv, Types', NEW k \in Task, Posting(k)
    PROVE  Inv'
  <1>1. \A j \in Task : Attempts(j)'
    BY DEF Inv, Posting, Attempts
  <1>2. InOrder'
    BY DEF Inv, InOrder, Posting
  <1>3. request[k].id = Own(k) /\ Own(k) \in Id /\ Standing(Own(k))
    BY DEF Inv, Asks, Asking, Posting
  <1>4. /\ \A i \in Id : (Recorded(i)' <=> Recorded(i)) /\ (Unsettled(i)' <=> Unsettled(i))
             /\ (Standing(i)' <=> Standing(i))
        /\ \A i \in Id : Sent(i)' => Sent(i) \/ i = Own(k)
    BY <1>3 DEF Posting, Recorded, Unsettled, Standing, Sent, Paid
  <1>5. Numbered'
    BY <1>4, IdType DEF Inv, Numbered, Posting
  <1>6. ASSUME NEW j \in Task PROVE Asks(j)'
    <2>1. Asks(j) /\ Own(j)' = Own(j)
      BY DEF Inv, Posting, Own
    <2>2. CASE j = k
      BY <1>3, <1>4, <2>1, <2>2 DEF Posting, Asks, Standing, Recorded
    <2>3. CASE j # k
      <3>1. Own(j) # Own(k)
        BY <2>3 DEF Own
      <3> QED BY <1>4, <2>1, <2>3, <3>1 DEF Posting, Asks
    <2> QED BY <2>2, <2>3
  <1>7. SentStands'
    BY <1>3, <1>4 DEF Inv, SentStands
  <1>8. OneUnsettled'
    BY <1>4 DEF Inv, OneUnsettled
  <1>9. Named'
    BY <1>4, IdType DEF Inv, Named, Posting
  <1>10. LastUnsettled'
    BY <1>4 DEF Inv, LastUnsettled
  <1> QED BY <1>1, <1>2, <1>5, <1>6, <1>7, <1>8, <1>9, <1>10 DEF Inv

-----------------------------------------------------------------------------
(* The parts of steps that many actions share. *)

\* A download that nothing touches goes on in the sense of the shapes.
LEMMA Unmoved ==
    ASSUME Inv, NEW k \in Task, task'[k] = task[k], request'[k] = request[k]
    PROVE  Goes(k)
  <1>1. Names(k, task[k].pin)
    BY DEF Inv, Named, Names
  <1>2. request[k].ph \in {"chosen", "bound"} => Names(k, request[k].id)
    BY DEF Inv, Named, Names
  <1>3. request[k].ph \in Asked => GoesOn(k)
    BY DEF GoesOn
  <1>4. (~task[k].live => request[k].ph = "idle") /\ (task[k].live /\ ~task[k].cut => task[k].st = "RUNNING")
    BY DEF Inv, Attempts
  <1> QED BY <1>1, <1>2, <1>3, <1>4 DEF Goes, TaskGoes, RequestGoes

\* A step of one download leaves the others unmoved.
LEMMA OthersUnmoved ==
    ASSUME Inv, NEW k \in Task, Goes(k), \A j \in Task \ {k} : task'[j] = task[j] /\ request'[j] = request[j]
    PROVE  \A j \in Task : Goes(j)
  BY Unmoved

\* Without a write, no verdict changes and nothing new is sent.
LEMMA NothingSent ==
    ASSUME UNCHANGED <<intent, flight, bought>>
    PROVE  /\ \A i \in Id : IntentGoes(i)
           /\ \A i \in Id : Sent(i)' => Sent(i)
  BY DEF IntentGoes, Sent, Paid

\* One coroutine goes on, and nothing is written.
LEMMA RequestMoves ==
    ASSUME Inv, NEW k \in Task, task[k].live, RequestGoes(k), request' \in [Task -> Request],
           \A j \in Task \ {k} : request'[j] = request[j],
           UNCHANGED <<acct, task, intent, flight, bought>>
    PROVE  Step
  <1>1. TaskGoes(k)
    BY DEF TaskGoes, Inv, Attempts, Named, Names
  <1>2. \A j \in Task : Goes(j)
    BY <1>1, OthersUnmoved DEF Goes
  <1>3. Types'
    BY DEF Inv, Types
  <1> QED BY <1>2, <1>3, NothingSent DEF Step, Quiet

\* Writing one coroutine.
LEMMA RequestPut ==
    ASSUME request \in [Task -> Request], NEW k \in Task, NEW r \in Request, request' = [request EXCEPT ![k] = r]
    PROVE  request' \in [Task -> Request] /\ request'[k] = r /\ \A j \in Task \ {k} : request'[j] = request[j]
  OBVIOUS

\* What To writes.
LEMMA RequestTo ==
    ASSUME Types, NEW k \in Task, NEW ph \in Phase, To(k, ph)
    PROVE  /\ request' \in [Task -> Request]
           /\ \A j \in Task \ {k} : request'[j] = request[j]
           /\ request'[k].ph = ph /\ request'[k].id = request[k].id /\ request'[k].submit = request[k].submit
           /\ request'[k].sent = request[k].sent
  <1>1. request \in [Task -> Request] /\ request' = [request EXCEPT ![k].ph = ph]
    BY DEF Types, To
  <1> QED BY <1>1 DEF Request

\* A request that fails, refused or not.
LEMMA FailedTo ==
    ASSUME request \in [Task -> Request], NEW k \in Task, NEW x \in BOOLEAN,
           request' = [request EXCEPT ![k].ph = "failed", ![k].refused = x]
    PROVE  /\ request' \in [Task -> Request] /\ request'[k].ph = "failed"
           /\ \A j \in Task \ {k} : request'[j] = request[j]
  <1> DEFINE q == request[k]
             new == [q EXCEPT !.ph = "failed", !.refused = x]
  <1>1. q \in Request /\ request' = [request EXCEPT ![k] = new]
    OBVIOUS
  <1>2. "failed" \in Phase
    BY DEF Phase
  <1> HIDE DEF q
  <1>3. new \in Request /\ new.ph = "failed"
    BY <1>1, <1>2 DEF Request
  <1> HIDE DEF new
  <1> QED BY <1>1, <1>3

\* What Stopped writes.
LEMMA StoppedTo ==
    ASSUME Types, NEW k \in Task, Stopped(k)
    PROVE  /\ request' \in [Task -> Request]
           /\ \A j \in Task \ {k} : request'[j] = request[j]
           /\ request'[k].ph = "error" /\ request'[k].id = request[k].id /\ request'[k].submit = request[k].submit
           /\ request'[k].sent = request[k].sent
  <1>1. request \in [Task -> Request] /\ request[k].sent \in BOOLEAN
    BY DEF Types, Request
  <1>2. PICK r \in BOOLEAN : request' = [request EXCEPT ![k].ph = "error", ![k].refused = r]
    BY <1>1 DEF Stopped
  <1> DEFINE q == request[k]
             new == [q EXCEPT !.ph = "error", !.refused = r]
  <1>3. q \in Request
    BY <1>1
  <1>4. request' = [request EXCEPT ![k] = new]
    BY <1>1, <1>2
  <1> HIDE DEF q
  <1>5. new \in Request /\ new.ph = "error" /\ new.id = q.id /\ new.submit = q.submit /\ new.sent = q.sent
    BY <1>3 DEF Request, Phase
  <1> HIDE DEF new
  <1> QED BY <1>1, <1>4, <1>5, RequestPut DEF q

\* A request goes on inside the lease of its account, or leaves it.
LEMMA AskingMoves ==
    ASSUME Inv, NEW k \in Task, request[k].ph \in Asking, request'[k].ph \in (Asked \union {"download"}) \ {"post"},
           request'[k].id = request[k].id, request'[k].submit = request[k].submit, request'[k].sent = request[k].sent
    PROVE  RequestGoes(k)
  BY DEF RequestGoes, GoesOn, Asked, Asking, Early

-----------------------------------------------------------------------------
(* The choice of an account keeps to a standing request of the download. *)

\* A pool holds versions of accounts.
LEMMA PoolType ==
    ASSUME Types, NEW k \in Task
    PROVE  Pool(k) \in SUBSET Version
  <1>1. task[k].pool \in Pools
    BY DEF Types, TaskRow
  <1>2. \A a \in Account : Current(a) \in Version
    BY DEF Types, Current, Version
  <1> QED BY <1>1, <1>2 DEF Pool, Pools

\* A choice is a version and the intent that the details will name.
LEMMA ChoicesType ==
    ASSUME Types, NEW k \in Task, NEW c \in Choices(k)
    PROVE  c = <<c[1], c[2]>> /\ c[1] \in Version /\ c[2] \in Id \union {None}
  <1>1. CASE Pinning(k) # {}
    <2>1. PICK i \in Pinning(k) : c = <<<<intent[i].a, intent[i].rev>>, i>>
      BY <1>1 DEF Choices
    <2>2. i \in Id
      BY DEF Pinning, Unresolved
    <2> QED BY <2>1, <2>2 DEF Types, Intent, Version
  <1>2. CASE Pinning(k) = {}
    <2>1. PICK v \in Pool(k) : c = <<v, task[k].pin>>
      BY <1>2 DEF Choices
    <2>2. v \in Version /\ task[k].pin \in Id \union {None}
      BY PoolType DEF Types, TaskRow
    <2> QED BY <2>1, <2>2
  <1> QED BY <1>1, <1>2

\* No choice forgets a standing intent of the download: an unresolved one is always continued, and a confirmed one is named by the details.
LEMMA ChoicesNamed ==
    ASSUME Inv, NEW k \in Task, task[k].st \notin Over, NEW c \in Choices(k)
    PROVE  Names(k, c[2])
  <1> SUFFICES ASSUME NEW i \in Id, Standing(i), i[1] = k PROVE c[2] = i
    BY DEF Names
  <1>1. task[k].pin = i
    BY DEF Inv, Named
  <1>2. \A j \in Id : Standing(j) /\ j[1] = k => j = i
    BY <1>1 DEF Inv, Named
  <1>3. CASE Unresolved # {}
    <2>1. PICK j \in Unresolved : c[2] = j
      BY <1>3 DEF Choices, Pinning
    <2>2. j \in Id /\ Unsettled(j) /\ Standing(j) /\ Recorded(j) /\ Recorded(i)
      BY DEF Unresolved, Unsettled, Standing, Recorded
    <2>3. k <= j[1] /\ j[1] \in Task
      BY <2>2, IdType DEF Inv, LastUnsettled
    <2>4. task[j[1]].n > 0
      BY <2>2, IdType, TypeFacts DEF Inv, Numbered
    <2>5. ~(k < j[1])
      BY <2>3, <2>4 DEF Inv, InOrder, Over
    <2>6. j[1] = k
      BY <2>3, <2>5, TypeFacts DEF Inv
    <2> QED BY <1>2, <2>1, <2>2, <2>6
  <1>4. CASE Unresolved = {}
    <2>1. intent[i].st = "READY"
      BY <1>4 DEF Unresolved, Standing
    <2>2. i \in Pinning(k)
      BY <1>1, <1>4, <2>1 DEF Pinning
    <2>3. PICK j \in Pinning(k) : c[2] = j
      BY <2>2 DEF Choices
    <2>4. j \in Id /\ intent[j].st = "READY" /\ (j[1] = k \/ task[k].pin = j)
      BY <1>4, <2>3 DEF Pinning
    <2> QED BY <1>1, <1>2, <2>3, <2>4 DEF Standing
  <1> QED BY <1>3, <1>4

-----------------------------------------------------------------------------
(* Every action is one of the steps. *)

\* The scheduler takes the next download.
LEMMA ClaimStep == ASSUME Inv, NEW k \in Task, Claim(k) PROVE Step
  <1>1. task \in [Task -> TaskRow] /\ task[k].n \in Nat
    BY DEF Inv, Types, TaskRow
  <1>2. task' = [task EXCEPT ![k].st = "RUNNING", ![k].live = TRUE, ![k].n = @ + 1, ![k].bound = None]
    BY DEF Claim
  <1> DEFINE q == task[k]
             r == [q EXCEPT !.st = "RUNNING", !.live = TRUE, !.n = @ + 1, !.bound = None]
  <1>2a. task' = [task EXCEPT ![k] = r] /\ q \in TaskRow
    BY <1>1, <1>2
  <1>2b. "RUNNING" \in State /\ None \in Account \union {None} /\ q.n + 1 \in Nat
    BY <1>1 DEF State
  <1> HIDE DEF q
  <1>2c. r \in TaskRow
    BY <1>2a, <1>2b DEF TaskRow
  <1>2d. r.n = q.n + 1 /\ r.live /\ r.st = "RUNNING" /\ r.pin = q.pin
    BY <1>2a DEF TaskRow
  <1> HIDE DEF r
  <1>3. /\ task' \in [Task -> TaskRow]
        /\ \A j \in Task \ {k} : task'[j] = task[j]
        /\ task'[k].n = task[k].n + 1 /\ task'[k].live /\ task'[k].st = "RUNNING" /\ task'[k].pin = task[k].pin
    BY <1>1, <1>2a, <1>2c, <1>2d DEF q
  <1>4. ASSUME NEW j \in Task, j < k PROVE task[j].st \in Over
    <2>1. j \in 1..(k - 1)
      BY <1>4, TypeFacts
    <2> QED BY <2>1 DEF Claim, Over
  <1>5. Claimed(k)
    BY <1>3, <1>4 DEF Claim, Claimed
  <1>6. Types'
    BY <1>3 DEF Inv, Types, Claim
  <1> QED BY <1>5, <1>6 DEF Step

\* The saved version or a choice; both name a standing intent of the download.
LEMMA ChooseStep == ASSUME Inv, NEW k \in Task, Choose(k) PROVE Step
  <1> DEFINE choices == IF task[k].acct # None THEN {<<task[k].acct, task[k].pin>>} ELSE Choices(k)
  <1>1. task[k].live /\ task[k].st \notin Over /\ request[k].ph = "idle" /\ Types
    BY DEF Choose, At, Working, Over, Inv
  <1>2. ASSUME NEW c \in choices
        PROVE  c[1] \in Version /\ c[2] \in Id \union {None} /\ Names(k, c[2])
    <2>1. CASE task[k].acct # None
      <3>1. c = <<task[k].acct, task[k].pin>>
        BY <2>1
      <3>2. task[k].acct \in Version /\ task[k].pin \in Id \union {None}
        BY <2>1 DEF Inv, Types, TaskRow
      <3>3. Names(k, task[k].pin)
        BY DEF Inv, Named, Names
      <3> QED BY <3>1, <3>2, <3>3
    <2>2. CASE task[k].acct = None
      BY <1>1, <2>2, ChoicesType, ChoicesNamed
    <2> QED BY <2>1, <2>2
  <1>3. ASSUME NEW c \in choices,
               request' = [request EXCEPT ![k].ph = "chosen", ![k].a = c[1][1], ![k].rev = c[1][2], ![k].id = c[2]]
        PROVE  Step
    <2>1. c[1][1] \in Account \union {None} /\ c[1][2] \in Int
      BY <1>2, <1>3 DEF Version
    <2>2. /\ request' \in [Task -> Request]
          /\ \A j \in Task \ {k} : request'[j] = request[j]
          /\ request'[k].ph = "chosen" /\ request'[k].id = c[2]
      <3>1. request \in [Task -> Request]
        BY <1>1 DEF Types
      <3> DEFINE q == request[k]  a == c[1][1]  rev == c[1][2]  i == c[2]
                 r == [q EXCEPT !.ph = "chosen", !.a = a, !.rev = rev, !.id = i]
      <3>2. q \in Request /\ a \in Account \union {None} /\ rev \in Int /\ i \in Id \union {None}
        BY <1>2, <2>1, <3>1
      <3>3. request' = [request EXCEPT ![k] = r]
        BY <1>3, <3>1
      <3> HIDE DEF q, a, rev, i
      <3>4. r \in Request /\ r.ph = "chosen" /\ r.id = i
        BY <3>2 DEF Request, Phase
      <3> HIDE DEF r
      <3> QED BY <3>1, <3>3, <3>4, RequestPut DEF i
    <2>3. RequestGoes(k)
      BY <1>1, <1>2, <2>2 DEF RequestGoes, Early, Asked, Asking
    <2> QED BY <1>1, <2>2, <2>3, RequestMoves DEF Choose
  <1>4. ASSUME To(k, "failed") PROVE Step
    <2>1. "failed" \in Phase
      BY DEF Phase
    <2>2. RequestGoes(k)
      BY <1>1, <1>4, <2>1, RequestTo DEF RequestGoes, Early, Asked, Asking
    <2> QED BY <1>1, <1>4, <2>1, <2>2, RequestTo, RequestMoves DEF Choose
  <1> QED BY <1>3, <1>4 DEF Choose

\* Writing one row.
LEMMA TaskPut ==
    ASSUME task \in [Task -> TaskRow], NEW k \in Task, NEW r \in TaskRow, task' = [task EXCEPT ![k] = r]
    PROVE  task' \in [Task -> TaskRow] /\ task'[k] = r /\ \A j \in Task \ {k} : task'[j] = task[j]
  OBVIOUS

\* A row with another bound account.
LEMMA BoundRow ==
    ASSUME NEW r \in TaskRow, NEW a \in Account \union {None}
    PROVE  LET s == [r EXCEPT !.bound = a]
           IN  s \in TaskRow /\ s.n = r.n /\ s.live = r.live /\ s.cut = r.cut /\ s.pin = r.pin /\ s.st = r.st
  BY DEF TaskRow

\* The lease is granted or refused.
LEMMA LeaseStep == ASSUME Inv, NEW k \in Task, Lease(k) PROVE Step
  <1>1. Types /\ task[k].live /\ task[k].st = "RUNNING" /\ task[k].st \notin Over /\ request[k].ph = "chosen"
    BY DEF Lease, At, Working, Over, Inv
  <1>2. Names(k, request[k].id) /\ Names(k, task[k].pin)
    BY <1>1 DEF Inv, Named, Names
  <1>3. CASE Usable(<<request[k].a, request[k].rev>>)
    <2>1. request[k].a \in Account \union {None}
      BY <1>1 DEF Types, Request
    <2>2. task' = [task EXCEPT ![k].bound = request[k].a] /\ To(k, "bound")
      BY <1>3 DEF Lease
    <2>3. /\ task' \in [Task -> TaskRow]
          /\ \A j \in Task \ {k} : task'[j] = task[j]
          /\ task'[k].n = task[k].n /\ task'[k].live = task[k].live /\ task'[k].cut = task[k].cut
               /\ task'[k].pin = task[k].pin /\ task'[k].st = task[k].st
      <3> DEFINE a == request[k].a
      <3>1. a \in Account \union {None} /\ task \in [Task -> TaskRow] /\ task' = [task EXCEPT ![k].bound = a]
        BY <1>1, <2>1, <2>2 DEF Types
      <3> HIDE DEF a
      <3> QED BY <3>1, BoundRow, TaskPut
    <2>4. "bound" \in Phase
      BY DEF Phase
    <2>5. Goes(k)
      BY <1>1, <1>2, <2>2, <2>3, <2>4, RequestTo DEF Goes, TaskGoes, RequestGoes, Early, Asked, Asking
    <2>6. Types'
      BY <1>1, <2>2, <2>3, <2>4, RequestTo DEF Types, Lease
    <2>7. \A j \in Task : Goes(j)
      BY <1>1, <2>2, <2>3, <2>4, <2>5, OthersUnmoved, RequestTo
    <2> QED BY <2>6, <2>7, NothingSent DEF Step, Quiet, Lease
  <1>4. CASE ~Usable(<<request[k].a, request[k].rev>>)
    <2>1. request' = [request EXCEPT ![k].ph = "failed", ![k].refused = TRUE] /\ UNCHANGED task
      BY <1>4 DEF Lease
    <2>2. /\ request' \in [Task -> Request]
          /\ \A j \in Task \ {k} : request'[j] = request[j]
          /\ request'[k].ph = "failed"
      <3>1. request \in [Task -> Request]
        BY <1>1 DEF Types
      <3> QED BY <2>1, <3>1, FailedTo
    <2>3. RequestGoes(k)
      BY <2>2 DEF RequestGoes, Early, Asked, Asking
    <2> QED BY <1>1, <2>1, <2>2, <2>3, RequestMoves DEF Lease
  <1> QED BY <1>3, <1>4

\* The choice is saved in the details.
LEMMA SaveSelectionStep == ASSUME Inv, NEW k \in Task, SaveSelection(k) PROVE Step
  <1>1. Types /\ task[k].live /\ task[k].st = "RUNNING" /\ task[k].st \notin Over /\ request[k].ph = "bound"
    BY DEF SaveSelection, At, Working, Over, Inv
  <1>2. Names(k, request[k].id)
    BY <1>1 DEF Inv, Named, Names
  <1>3. "reserve" \in Phase /\ To(k, "reserve")
    BY DEF Phase, SaveSelection
  <1>4. <<request[k].a, request[k].rev>> \in Version /\ request[k].id \in Id \union {None}
    BY <1>1 DEF Types, Request, Version
  <1>5. Pool(k) \in Pools
    BY <1>1, PoolType DEF Pools
  <1>6. /\ task' \in [Task -> TaskRow]
        /\ \A j \in Task \ {k} : task'[j] = task[j]
        /\ task'[k].n = task[k].n /\ task'[k].live = task[k].live /\ task'[k].cut = task[k].cut
             /\ task'[k].pin = request[k].id /\ task'[k].st = task[k].st
    <2> DEFINE v == <<request[k].a, request[k].rev>>
               p == Pool(k)
               i == request[k].id
    <2>1. task' = [task EXCEPT ![k].acct = v, ![k].pool = p, ![k].pin = i]
      BY DEF SaveSelection
    <2>2. v \in Version /\ p \in Pools /\ i \in Id \union {None}
      BY <1>4, <1>5
    <2>3. task \in [Task -> TaskRow]
      BY <1>1 DEF Types
    <2> HIDE DEF v, p, i
    <2>4. task[k] \in TaskRow
      BY <2>3
    <2> DEFINE q == task[k]  r == [q EXCEPT !.acct = v, !.pool = p, !.pin = i]
    <2>5. task' = [task EXCEPT ![k] = r]
      BY <2>1, <2>3
    <2> HIDE DEF q
    <2>6. r \in TaskRow /\ r.n = q.n /\ r.live = q.live /\ r.cut = q.cut /\ r.pin = i /\ r.st = q.st
      BY <2>2, <2>4 DEF TaskRow, q
    <2> HIDE DEF r
    <2> QED BY <2>3, <2>5, <2>6, TaskPut DEF i, q
  <1>7. Goes(k)
    BY <1>1, <1>2, <1>3, <1>6, RequestTo DEF Goes, TaskGoes, RequestGoes, Early, Asked, Asking
  <1>8. Types'
    BY <1>1, <1>3, <1>6, RequestTo DEF Types, SaveSelection
  <1>9. \A j \in Task : Goes(j)
    BY <1>1, <1>3, <1>6, <1>7, OthersUnmoved, RequestTo
  <1> QED BY <1>8, <1>9, NothingSent DEF Step, Quiet, SaveSelection

\* An intent is written without its verdict being touched.
LEMMA IntentPut ==
    ASSUME intent \in [Id -> Intent], NEW i \in Id, NEW r \in Intent, intent' = [intent EXCEPT ![i] = r]
    PROVE  intent' \in [Id -> Intent] /\ intent'[i] = r /\ \A j \in Id \ {i} : intent'[j] = intent[j]
  OBVIOUS

\* A coroutine goes on and writes to intents.
LEMMA RequestWrites ==
    ASSUME Inv, NEW k \in Task, task[k].live, RequestGoes(k), request' \in [Task -> Request],
           \A j \in Task \ {k} : request'[j] = request[j],
           intent' \in [Id -> Intent], \A i \in Id : IntentGoes(i),
           UNCHANGED <<acct, task, flight, bought>>
    PROVE  Step
  <1>1. TaskGoes(k)
    BY DEF TaskGoes, Inv, Attempts, Named, Names
  <1>2. \A j \in Task : Goes(j)
    BY <1>1, OthersUnmoved DEF Goes
  <1>3. Types'
    BY DEF Inv, Types
  <1>4. \A i \in Id : Sent(i)' => Sent(i)
    BY DEF Sent, Paid
  <1> QED BY <1>2, <1>3, <1>4 DEF Step, Quiet

\* An intent is recorded, or that of somebody else continued.
LEMMA ReserveStep == ASSUME Inv, NEW k \in Task, Reserve(k) PROVE Step
  <1> DEFINE own == <<k, task[k].n>>  at == <<request[k].a, request[k].rev>>
  <1>1. /\ Types /\ task[k].live /\ task[k].st = "RUNNING" /\ request[k].ph = "reserve"
        /\ UNCHANGED <<acct, flight, bought>>
    BY DEF Reserve, At, Working, Inv
  <1>2. CASE Pinned(k) = {}
    <2>1. /\ intent' = [intent EXCEPT ![own] = [NoIntent EXCEPT !.st = "REQUESTED", !.a = at[1], !.rev = at[2]]]
          /\ task' = [task EXCEPT ![k].pin = own]
          /\ request' = [request EXCEPT ![k].ph = "locate", ![k].id = own, ![k].submit = TRUE, ![k].sent = FALSE]
      BY <1>2 DEF Reserve
    <2>2. own \in Id
      <3>1. task[k].n \in Nat /\ task[k].n > 0 /\ task[k].n <= MaxAttempt[k] /\ MaxAttempt[k] \in Nat
        BY <1>1, TypeFacts DEF Inv, Attempts
      <3> QED BY <3>1, IdType
    <2>3. Unresolved = {} /\ \A i \in Id : Standing(i) => i[1] # k
      <3>1. Unresolved = {}
        BY <1>2 DEF Pinned
      <3>2. \A i \in Id : Standing(i) => intent[i].st = "READY"
        BY <3>1 DEF Standing, Unresolved
      <3>3. \A i \in Id : intent[i].st = "READY" => task[k].pin # i
        BY <1>2, <3>1 DEF Pinned
      <3> QED BY <3>1, <3>2, <3>3 DEF Inv, Named
    <2>4. intent[own].st = "NONE"
      BY <1>1, <2>2 DEF Inv, Numbered, Recorded
    <2>5. /\ intent' \in [Id -> Intent]
          /\ \A i \in Id \ {own} : intent'[i] = intent[i]
          /\ intent'[own].st = "REQUESTED"
      <3> DEFINE a == request[k].a  rev == request[k].rev
                 r == [NoIntent EXCEPT !.st = "REQUESTED", !.a = a, !.rev = rev]
      <3>1. a \in Account \union {None} /\ rev \in Int /\ intent \in [Id -> Intent]
        BY <1>1 DEF Types, Request
      <3>2. intent' = [intent EXCEPT ![own] = r]
        BY <2>1
      <3> HIDE DEF a, rev
      <3>3. r \in Intent /\ r.st = "REQUESTED"
        BY <3>1 DEF NoIntent, Intent
      <3> HIDE DEF r, own
      <3> QED BY <2>2, <3>1, <3>2, <3>3, IntentPut
    <2>6. /\ task' \in [Task -> TaskRow]
          /\ \A j \in Task \ {k} : task'[j] = task[j]
          /\ task'[k].n = task[k].n /\ task'[k].live = task[k].live /\ task'[k].cut = task[k].cut
               /\ task'[k].st = task[k].st /\ task'[k].pin = own
      <3> DEFINE q == task[k]  i == own  r == [q EXCEPT !.pin = i]
      <3>1. task \in [Task -> TaskRow] /\ q \in TaskRow /\ i \in Id
        BY <1>1, <2>2 DEF Types
      <3>2. task' = [task EXCEPT ![k] = r]
        BY <2>1, <3>1
      <3> HIDE DEF q, i
      <3>3. r \in TaskRow /\ r.n = q.n /\ r.live = q.live /\ r.cut = q.cut /\ r.st = q.st /\ r.pin = i
        BY <3>1 DEF TaskRow
      <3> HIDE DEF r
      <3> QED BY <3>1, <3>2, <3>3, TaskPut DEF q, i
    <2>7. /\ request' \in [Task -> Request]
          /\ \A j \in Task \ {k} : request'[j] = request[j]
          /\ request'[k].ph = "locate" /\ request'[k].id = own /\ request'[k].submit
      <3> DEFINE q == request[k]  i == own  r == [q EXCEPT !.ph = "locate", !.id = i, !.submit = TRUE, !.sent = FALSE]
      <3>1. request \in [Task -> Request] /\ q \in Request /\ i \in Id
        BY <1>1, <2>2 DEF Types
      <3>2. request' = [request EXCEPT ![k] = r]
        BY <2>1, <3>1
      <3> HIDE DEF q, i
      <3>3. r \in Request /\ r.ph = "locate" /\ r.id = i /\ r.submit
        BY <3>1 DEF Request, Phase, Asking
      <3> HIDE DEF r
      <3> QED BY <3>1, <3>2, <3>3, RequestPut DEF i
    <2>8. Recording(k)
      BY <1>1, <2>2, <2>3, <2>4, <2>5, <2>6, <2>7 DEF Recording, Own
    <2>9. Types'
      BY <1>1, <2>5, <2>6, <2>7 DEF Types
    <2> QED BY <2>8, <2>9 DEF Step
  <1>3. CASE Pinned(k) # {}
    <2>1. /\ UNCHANGED <<intent, task>>
          /\ \E i \in Pinned(k) :
                \/ request' = [request EXCEPT ![k].ph = "failed"]
                \/ request' = [request EXCEPT ![k].ph = "locate", ![k].id = i, ![k].submit = FALSE, ![k].sent = TRUE]
      BY <1>3 DEF Reserve
    <2>2. CASE request' = [request EXCEPT ![k].ph = "failed"]
      <3>1. To(k, "failed") /\ "failed" \in Phase
        BY <2>2 DEF To, Phase
      <3>2. RequestGoes(k)
        BY <1>1, <3>1, RequestTo DEF RequestGoes, Early, Asked, Asking
      <3> QED BY <1>1, <2>1, <3>1, <3>2, RequestTo, RequestMoves
    <2>3. ASSUME NEW i \in Pinned(k),
                 request' = [request EXCEPT ![k].ph = "locate", ![k].id = i, ![k].submit = FALSE, ![k].sent = TRUE]
          PROVE  Step
      <3>1. i \in Id /\ Recorded(i)
        BY DEF Pinned, Unresolved, Recorded
      <3>2. /\ request' \in [Task -> Request]
            /\ \A j \in Task \ {k} : request'[j] = request[j]
            /\ request'[k].ph = "locate" /\ request'[k].id = i /\ ~request'[k].submit /\ request'[k].sent
        <4> DEFINE q == request[k]  r == [q EXCEPT !.ph = "locate", !.id = i, !.submit = FALSE, !.sent = TRUE]
        <4>1. request \in [Task -> Request] /\ q \in Request
          BY <1>1 DEF Types
        <4>2. request' = [request EXCEPT ![k] = r]
          BY <2>3, <4>1
        <4> HIDE DEF q
        <4>3. r \in Request /\ r.ph = "locate" /\ r.id = i /\ ~r.submit /\ r.sent
          BY <3>1, <4>1 DEF Request, Phase, Asking
        <4> HIDE DEF r
        <4> QED BY <4>1, <4>2, <4>3, RequestPut
      <3>3. Continues(k)
        BY <3>1, <3>2 DEF Continues
      <3>4. RequestGoes(k)
        BY <3>2, <3>3 DEF RequestGoes, Early
      <3> QED BY <1>1, <2>1, <3>2, <3>4, RequestMoves
    <2> QED BY <2>1, <2>2, <2>3
  <1> QED BY <1>2, <1>3

\* A request goes on, and intents are written.
LEMMA AskingStep ==
    ASSUME Inv, NEW k \in Task, task[k].live, request[k].ph \in Asking,
           NEW ph \in (Asked \union {"download"}) \ {"post"}, To(k, ph) \/ (ph = "error" /\ Stopped(k)),
           intent' \in [Id -> Intent], \A i \in Id : IntentGoes(i),
           UNCHANGED <<acct, task, flight, bought>>
    PROVE  Step
  <1>1. ph \in Phase /\ Types
    BY DEF Phase, Asked, Inv
  <1>2. /\ request' \in [Task -> Request]
        /\ \A j \in Task \ {k} : request'[j] = request[j]
        /\ request'[k].ph = ph /\ request'[k].id = request[k].id /\ request'[k].submit = request[k].submit
        /\ request'[k].sent = request[k].sent
    BY <1>1, RequestTo, StoppedTo
  <1>3. RequestGoes(k)
    BY <1>2, AskingMoves
  <1> QED BY <1>2, <1>3, RequestWrites

\* Notes on an intent, and its verdict.
LEMMA NoteGoes ==
    ASSUME Types, NEW i \in Id,
           intent' = [intent EXCEPT ![i].entry = TRUE] \/ intent' = [intent EXCEPT ![i].cont = TRUE]
    PROVE  intent' \in [Id -> Intent] /\ \A j \in Id : IntentGoes(j)
  <1>1. intent \in [Id -> Intent]
    BY DEF Types
  <1>2. intent' \in [Id -> Intent] /\ \A j \in Id : intent'[j].st = intent[j].st
    <2>1. CASE intent' = [intent EXCEPT ![i].entry = TRUE]
      BY ZenonT(60), <1>1, <2>1 DEF Intent
    <2>2. CASE intent' = [intent EXCEPT ![i].cont = TRUE]
      BY <1>1, <2>2 DEF Intent
    <2> QED BY <2>1, <2>2
  <1> QED BY <1>2 DEF IntentGoes

\* A verdict is recorded over none but an open one.
LEMMA VerdictGoes ==
    ASSUME Types, NEW i \in Id, NEW st \in {"UNKNOWN", "READY", "REJECTED"}, intent' = Settled(i, st),
           st = "REJECTED" => ~Sent(i) /\ request'[i[1]].ph = "failed"
    PROVE  intent' \in [Id -> Intent] /\ \A j \in Id : IntentGoes(j)
  <1>1. intent \in [Id -> Intent]
    BY DEF Types
  <1>2. CASE i \in Unresolved
    <2>1. intent' = [intent EXCEPT ![i].st = st] /\ Unsettled(i)
      BY <1>2 DEF Settled, Unresolved, Unsettled
    <2>2. /\ intent' \in [Id -> Intent]
          /\ intent'[i].st = st
          /\ \A j \in Id \ {i} : intent'[j] = intent[j]
      BY <1>1, <2>1 DEF Intent
    <2> QED BY <2>1, <2>2 DEF IntentGoes
  <1>3. CASE i \notin Unresolved
    BY <1>1, <1>3 DEF Settled, IntentGoes
  <1> QED BY <1>2, <1>3

\* Intents that are left alone keep their verdicts.
LEMMA StaysGoes == ASSUME Types, UNCHANGED intent PROVE intent' \in [Id -> Intent] /\ \A j \in Id : IntentGoes(j)
  BY DEF Types, IntentGoes

\* The locators are read or noted.
LEMMA LocateStep == ASSUME Inv, NEW k \in Task, Locate(k) PROVE Step
  <1>1. /\ Types /\ task[k].live /\ request[k].ph \in Asking /\ request[k].id \in Id
        /\ UNCHANGED <<acct, task, flight, bought>>
    BY DEF Locate, At, Working, Inv, Asks, Asking
  <1>2. /\ "ready" \in (Asked \union {"download"}) \ {"post"}
        /\ "page" \in (Asked \union {"download"}) \ {"post"}
        /\ "error" \in (Asked \union {"download"}) \ {"post"}
    BY DEF Asked, Asking
  <1>3. \/ To(k, "ready") /\ UNCHANGED intent
        \/ To(k, "page") /\ UNCHANGED intent
        \/ To(k, "page") /\ intent' = [intent EXCEPT ![request[k].id].entry = TRUE]
        \/ Stopped(k) /\ UNCHANGED intent
    BY DEF Locate
  <1>4. intent' \in [Id -> Intent] /\ \A j \in Id : IntentGoes(j)
    BY <1>1, <1>3, NoteGoes, StaysGoes
  <1> QED BY <1>1, <1>2, <1>3, <1>4, AskingStep

\* The page is read, or the form is posted.
LEMMA PageStep == ASSUME Inv, NEW k \in Task, Page(k) PROVE Step
  <1>1. /\ Types /\ task[k].live /\ request[k].ph = "page" /\ request[k].ph \in Asking /\ request[k].id \in Id
        /\ UNCHANGED <<acct, task, intent, bought>>
    BY DEF Page, At, Working, Inv, Asks, Asking
  <1>2. "keep" \in (Asked \union {"download"}) \ {"post"} /\ "error" \in (Asked \union {"download"}) \ {"post"}
    BY DEF Asked, Asking
  <1>3. CASE (Read(k) \/ Stopped(k)) /\ UNCHANGED flight
    BY <1>1, <1>2, <1>3, StaysGoes, AskingStep DEF Read
  <1>4. CASE Post(k) /\ flight' = flight \union {request[k].id}
    <2>1. request[k].submit /\ request' = [request EXCEPT ![k].ph = "post", ![k].sent = TRUE]
      BY <1>4 DEF Post
    <2>2. /\ request' \in [Task -> Request]
          /\ \A j \in Task \ {k} : request'[j] = request[j]
          /\ request'[k].ph = "post" /\ request'[k].id = request[k].id /\ request'[k].submit = request[k].submit
          /\ request'[k].sent
      <3> DEFINE q == request[k]  r == [q EXCEPT !.ph = "post", !.sent = TRUE]
      <3>1. request \in [Task -> Request] /\ q \in Request
        BY <1>1 DEF Types
      <3>2. request' = [request EXCEPT ![k] = r]
        BY <2>1, <3>1
      <3> HIDE DEF q
      <3>3. r \in Request /\ r.ph = "post" /\ r.id = q.id /\ r.submit = q.submit /\ r.sent
        BY <3>1 DEF Request, Phase, Asking
      <3> HIDE DEF r
      <3> QED BY <3>1, <3>2, <3>3, RequestPut DEF q
    <2>3. Posting(k)
      BY <1>1, <1>4, <2>1, <2>2 DEF Posting
    <2>4. Types'
      BY <1>1, <1>4, <2>2 DEF Types
    <2> QED BY <2>3, <2>4 DEF Step
  <1> QED BY <1>3, <1>4 DEF Page

\* The answer of the form; only a proof clears the flag of the form.
LEMMA AnswerStep == ASSUME Inv, NEW k \in Task, Answer(k) PROVE Step
  <1>1. /\ Types /\ task[k].live /\ request[k].ph = "post" /\ request[k].ph \in Asking
        /\ UNCHANGED <<acct, task, intent, flight, bought>>
    BY DEF Answer, At, Working, Inv, Asking
  <1>2. /\ "check" \in (Asked \union {"download"}) \ {"post"}
        /\ "error" \in (Asked \union {"download"}) \ {"post"}
        /\ "keep" \in (Asked \union {"download"}) \ {"post"}
    BY DEF Asked, Asking
  <1>3. CASE To(k, "check") \/ To(k, "error") \/ To(k, "keep")
    BY <1>1, <1>2, <1>3, StaysGoes, AskingStep
  <1>4. CASE /\ request[k].id \notin flight /\ ~Paid(request[k].id)
             /\ request' = [request EXCEPT ![k] = Proven(k)]
    <2>1. request[k].submit /\ ~Sent(request[k].id)
      BY <1>1, <1>4 DEF Inv, Asks, Sent
    <2>2. /\ request' \in [Task -> Request]
          /\ \A j \in Task \ {k} : request'[j] = request[j]
          /\ request'[k].ph = "error" /\ request'[k].id = request[k].id /\ request'[k].submit = request[k].submit
      <3> DEFINE q == request[k]  r == [q EXCEPT !.ph = "error", !.sent = FALSE, !.refused = TRUE]
      <3>1. request \in [Task -> Request] /\ q \in Request
        BY <1>1 DEF Types
      <3>2. request' = [request EXCEPT ![k] = r]
        BY <1>4, <3>1 DEF Proven
      <3> HIDE DEF q
      <3>3. r \in Request /\ r.ph = "error" /\ r.id = q.id /\ r.submit = q.submit
        BY <3>1 DEF Request, Phase, Asking
      <3> HIDE DEF r
      <3> QED BY <3>1, <3>2, <3>3, RequestPut DEF q
    <2>3. GoesOn(k)
      BY <1>1, <2>1, <2>2 DEF GoesOn, Asked
    <2>4. RequestGoes(k)
      BY <2>2, <2>3 DEF RequestGoes, Early
    <2> QED BY <1>1, <2>2, <2>4, RequestMoves
  <1> QED BY <1>3, <1>4 DEF Answer

\* The page is read again.
LEMMA CheckStep == ASSUME Inv, NEW k \in Task, Check(k) PROVE Step
  <1>1. /\ Types /\ task[k].live /\ request[k].ph \in Asking
        /\ UNCHANGED <<acct, task, intent, flight, bought>>
    BY DEF Check, At, Working, Inv, Asking
  <1>2. "keep" \in (Asked \union {"download"}) \ {"post"} /\ "error" \in (Asked \union {"download"}) \ {"post"}
    BY DEF Asked, Asking
  <1>3. To(k, "keep") \/ Stopped(k)
    BY DEF Check, Read
  <1> QED BY <1>1, <1>2, <1>3, StaysGoes, AskingStep

\* The link is noted.
LEMMA KeepStep == ASSUME Inv, NEW k \in Task, Keep(k) PROVE Step
  <1>1. /\ Types /\ task[k].live /\ request[k].ph \in Asking /\ request[k].id \in Id
        /\ UNCHANGED <<acct, task, flight, bought>>
    BY DEF Keep, At, Working, Inv, Asks, Asking
  <1>2. "ready" \in (Asked \union {"download"}) \ {"post"} /\ "error" \in (Asked \union {"download"}) \ {"post"}
    BY DEF Asked, Asking
  <1>3. \/ intent' = [intent EXCEPT ![request[k].id].cont = TRUE] /\ To(k, "ready")
        \/ To(k, "error") /\ UNCHANGED intent
    BY DEF Keep
  <1>4. intent' \in [Id -> Intent] /\ \A j \in Id : IntentGoes(j)
    BY <1>1, <1>3, NoteGoes, StaysGoes
  <1> QED BY <1>1, <1>2, <1>3, <1>4, AskingStep

\* The request is confirmed.
LEMMA ReadyStep == ASSUME Inv, NEW k \in Task, Ready(k) PROVE Step
  <1>1. /\ Types /\ task[k].live /\ request[k].ph \in Asking /\ request[k].id \in Id
        /\ UNCHANGED <<acct, task, flight, bought>>
        /\ intent' = Settled(request[k].id, "READY") /\ To(k, "download")
    BY DEF Ready, At, Working, Inv, Asks, Asking
  <1>2. intent' \in [Id -> Intent] /\ \A j \in Id : IntentGoes(j)
    BY <1>1, VerdictGoes
  <1>3. "download" \in (Asked \union {"download"}) \ {"post"}
    BY DEF Asked, Asking
  <1> QED BY <1>1, <1>2, <1>3, AskingStep

\* A failure is recorded: as a refusal only when the form was not sent.
LEMMA OutcomeStep == ASSUME Inv, NEW k \in Task, Outcome(k) PROVE Step
  <1>1. /\ Types /\ task[k].live /\ request[k].ph = "error" /\ request[k].id \in Id
        /\ UNCHANGED <<acct, task, flight, bought>>
        /\ intent' = Settled(request[k].id, Verdict(k)) /\ To(k, "failed")
        /\ ~request[k].sent => request[k].id = Own(k) /\ ~Sent(request[k].id)
    BY DEF Outcome, At, Inv, Attempts, Asks
  <1>2. "failed" \in Phase
    BY DEF Phase
  <1>3. /\ request' \in [Task -> Request]
        /\ \A j \in Task \ {k} : request'[j] = request[j]
        /\ request'[k].ph = "failed"
    BY <1>1, <1>2, RequestTo
  <1>4. Verdict(k) \in {"UNKNOWN", "REJECTED"} /\ (Verdict(k) = "REJECTED" => ~request[k].sent)
    BY DEF Verdict
  <1>5. intent' \in [Id -> Intent] /\ \A j \in Id : IntentGoes(j)
    <2>1. ~request[k].sent => request[k].id[1] = k
      BY <1>1 DEF Own
    <2> QED BY <1>1, <1>3, <1>4, <2>1, VerdictGoes
  <1>6. RequestGoes(k)
    BY <1>3 DEF RequestGoes, Early, Asked, Asking
  <1> QED BY <1>1, <1>3, <1>5, <1>6, RequestWrites

-----------------------------------------------------------------------------
(* The end of an attempt, and what the operator does. *)

\* The row of one download is written.
LEMMA RowMoves ==
    ASSUME Inv, NEW k \in Task, NEW r \in TaskRow, task' = [task EXCEPT ![k] = r],
           r.n = task[k].n, r.live => task[k].live, r.live /\ ~r.cut => r.st = "RUNNING",
           task[k].st \in Over => r.st \in Over, Names(k, r.pin),
           request' \in [Task -> Request], \A j \in Task \ {k} : request'[j] = request[j],
           RequestGoes(k), ~r.live => request'[k].ph = "idle",
           UNCHANGED <<acct, intent, flight, bought>>
    PROVE  Step
  <1>1. task \in [Task -> TaskRow]
    BY DEF Inv, Types
  <1>2. task' \in [Task -> TaskRow] /\ task'[k] = r /\ \A j \in Task \ {k} : task'[j] = task[j]
    BY <1>1, TaskPut
  <1>3. Goes(k)
    BY <1>2 DEF Goes, TaskGoes
  <1>4. \A j \in Task : Goes(j)
    BY <1>2, <1>3, OthersUnmoved
  <1>5. Types'
    BY <1>2 DEF Inv, Types
  <1> QED BY <1>4, <1>5, NothingSent DEF Step, Quiet

\* A coroutine that is left alone keeps to the rules.
LEMMA RequestStays ==
    ASSUME Inv, NEW k \in Task, request'[k] = request[k]
    PROVE  RequestGoes(k)
  <1>1. request[k].ph \in {"chosen", "bound"} => Names(k, request[k].id)
    BY DEF Inv, Named, Names
  <1>2. request[k].ph \in Asked => GoesOn(k)
    BY DEF GoesOn
  <1> QED BY <1>1, <1>2 DEF RequestGoes

\* The details name a standing intent of the download.
LEMMA PinNamed == ASSUME Inv, NEW k \in Task PROVE Names(k, task[k].pin)
  BY DEF Inv, Named, Names

\* The file arrives or does not.
LEMMA DeliverStep == ASSUME Inv, NEW k \in Task, Deliver(k) PROVE Step
  <1>1. /\ Types /\ task[k].live /\ task[k].st = "RUNNING"
        /\ UNCHANGED <<acct, intent, flight, bought>>
    BY DEF Deliver, At, Working, Inv
  <1>2. CASE To(k, "idle") /\ task' = [task EXCEPT ![k].st = "DONE", ![k].live = FALSE]
    <2> DEFINE q == task[k]  r == [q EXCEPT !.st = "DONE", !.live = FALSE]
    <2>1. task \in [Task -> TaskRow] /\ q \in TaskRow
      BY <1>1 DEF Types
    <2>2. task' = [task EXCEPT ![k] = r]
      BY <1>2, <2>1
    <2> HIDE DEF q
    <2>3. r \in TaskRow /\ r.n = q.n /\ ~r.live /\ r.st = "DONE" /\ r.pin = q.pin
      BY <2>1 DEF TaskRow, State
    <2> HIDE DEF r
    <2>4. task'[k] = r
      BY <2>1, <2>2, <2>3, TaskPut
    <2>5. "idle" \in Phase
      BY DEF Phase
    <2>6. /\ request' \in [Task -> Request] /\ request'[k].ph = "idle"
          /\ \A j \in Task \ {k} : request'[j] = request[j]
      BY <1>1, <1>2, <2>5, RequestTo
    <2>7. RequestGoes(k)
      BY <2>3, <2>4, <2>6 DEF RequestGoes, Asked, Asking
    <2> QED BY <1>1, <2>2, <2>3, <2>6, <2>7, PinNamed, RowMoves DEF Over, q
  <1>3. ASSUME NEW x \in BOOLEAN, request' = [request EXCEPT ![k].ph = "failed", ![k].refused = x], UNCHANGED task
        PROVE  Step
    <2>1. request \in [Task -> Request]
      BY <1>1 DEF Types
    <2>2. request' \in [Task -> Request] /\ request'[k].ph = "failed" /\ \A j \in Task \ {k} : request'[j] = request[j]
      BY <1>3, <2>1, FailedTo
    <2>3. RequestGoes(k)
      BY <2>2 DEF RequestGoes, Early, Asked, Asking
    <2> QED BY <1>1, <1>3, <2>2, <2>3, RequestMoves
  <1> QED BY <1>2, <1>3 DEF Deliver

\* A row that waits for another account.
LEMMA ReplacedRow ==
    ASSUME NEW t \in TaskRow, NEW a \in Account \union {None}
    PROVE  /\ Replaced(t, a) \in TaskRow /\ Replaced(t, a).n = t.n /\ Replaced(t, a).pin = t.pin
           /\ Replaced(t, a).live = t.live /\ Replaced(t, a).cut = t.cut
  <1> DEFINE s == t.tried \union {a}
  <1>1. s \in SUBSET (Account \union {None})
    BY DEF TaskRow
  <1> HIDE DEF s
  <1>2. /\ [t EXCEPT !.st = "STOPPING", !.op = "replace", !.tried = s] \in TaskRow
        /\ [t EXCEPT !.st = "STOPPING", !.op = "replace", !.tried = s].n = t.n
        /\ [t EXCEPT !.st = "STOPPING", !.op = "replace", !.tried = s].pin = t.pin
        /\ [t EXCEPT !.st = "STOPPING", !.op = "replace", !.tried = s].live = t.live
        /\ [t EXCEPT !.st = "STOPPING", !.op = "replace", !.tried = s].cut = t.cut
    BY <1>1 DEF TaskRow, State
  <1> QED BY <1>2 DEF Replaced, s

\* No coroutine.
LEMMA IdleRequest == Idle \in Request
  BY DEF Idle, Request, Phase

\* The coroutine ends, and its row is released.
LEMMA LeaveStep == ASSUME Inv, NEW k \in Task, Leave(k) PROVE Step
  <1>1. /\ Types /\ task[k].live
        /\ UNCHANGED <<acct, intent, flight, bought>>
        /\ request' = [request EXCEPT ![k] = Idle]
    BY DEF Leave, Inv
  <1> DEFINE q == task[k]
             t == IF q.cut THEN q
                  ELSE IF request[k].refused /\ q.pool # {None} THEN Replaced(q, request[k].a)
                  ELSE [q EXCEPT !.st = "FAILED"]
             r == [t EXCEPT !.live = FALSE, !.cut = FALSE]
  <1>2. task \in [Task -> TaskRow] /\ q \in TaskRow /\ request[k].a \in Account \union {None}
    BY <1>1 DEF Types, Request
  <1>3. task' = [task EXCEPT ![k] = r]
    BY <1>2 DEF Leave
  <1>4. q.st \in Over => q.cut
    BY <1>1 DEF Inv, Attempts, Over
  <1>5. t \in TaskRow /\ t.n = q.n /\ t.pin = q.pin /\ (q.st \in Over => t.st \in Over)
    <2>1. CASE q.cut
      BY <1>2, <2>1
    <2>2. CASE ~q.cut /\ (request[k].refused /\ q.pool # {None})
      BY <1>2, <1>4, <2>2, ReplacedRow
    <2>3. CASE ~q.cut /\ ~(request[k].refused /\ q.pool # {None})
      <3>1. t = [q EXCEPT !.st = "FAILED"]
        BY <2>3
      <3>2. q.st \notin Over
        BY <1>4, <2>3
      <3> HIDE DEF q, t
      <3> QED BY <1>2, <3>1, <3>2 DEF TaskRow, State
    <2> QED BY <2>1, <2>2, <2>3
  <1> HIDE DEF t
  <1>6. r \in TaskRow /\ r.n = t.n /\ r.pin = t.pin /\ ~r.live /\ r.st = t.st
    BY <1>5 DEF TaskRow
  <1> HIDE DEF r
  <1>7. request' \in [Task -> Request] /\ request'[k] = Idle /\ \A j \in Task \ {k} : request'[j] = request[j]
    BY <1>1, IdleRequest DEF Types
  <1>8. task'[k] = r /\ request'[k].ph = "idle"
    BY <1>2, <1>3, <1>6, <1>7, TaskPut DEF Idle
  <1>9. RequestGoes(k)
    BY <1>6, <1>8 DEF RequestGoes, Asked, Asking
  <1> QED BY <1>1, <1>3, <1>5, <1>6, <1>7, <1>8, <1>9, PinNamed, RowMoves

\* A coroutine that is cancelled ends, or reaches the handler of its request.
LEMMA CutRow ==
    ASSUME NEW q \in Request
    PROVE  /\ Cut(q) \in Request
           /\ Cut(q).id = q.id /\ Cut(q).submit = q.submit /\ Cut(q).sent = q.sent
           /\ Cut(q).ph = IF q.ph \in Asked THEN "error" ELSE "failed"
  <1> DEFINE p == IF q.ph \in Asking THEN "error" ELSE IF q.ph = "error" THEN q.ph ELSE "failed"
  <1>1. p \in Phase /\ p = IF q.ph \in Asked THEN "error" ELSE "failed"
    BY DEF Phase, Asked
  <1>2. Cut(q) = [q EXCEPT !.ph = p, !.refused = FALSE]
    BY DEF Cut
  <1> HIDE DEF p
  <1>3. /\ [q EXCEPT !.ph = p, !.refused = FALSE] \in Request
        /\ [q EXCEPT !.ph = p, !.refused = FALSE].id = q.id
        /\ [q EXCEPT !.ph = p, !.refused = FALSE].submit = q.submit
        /\ [q EXCEPT !.ph = p, !.refused = FALSE].sent = q.sent
        /\ [q EXCEPT !.ph = p, !.refused = FALSE].ph = p
    BY <1>1 DEF Request
  <1> QED BY <1>1, <1>2, <1>3

\* A cancelled coroutine still knows whether its form was sent.
LEMMA CutGoes ==
    ASSUME Inv, NEW k \in Task, request'[k] = Cut(request[k])
    PROVE  RequestGoes(k)
  <1>1. request[k] \in Request
    BY DEF Inv, Types
  <1>2. /\ request'[k].id = request[k].id /\ request'[k].submit = request[k].submit
             /\ request'[k].sent = request[k].sent
        /\ request'[k].ph = IF request[k].ph \in Asked THEN "error" ELSE "failed"
    BY <1>1, CutRow
  <1> QED BY <1>2 DEF RequestGoes, GoesOn, Asked, Asking, Early

\* Some downloads are stopped, and their coroutines cancelled.
LEMMA InterruptStep ==
    ASSUME Inv, NEW ks \in SUBSET Task, NEW t \in [Task -> TaskRow], Interrupt(ks, t),
           acct' \in [Account -> [rev : Int, on : BOOLEAN]],
           \A k \in ks : /\ task[k].st \notin Over
                         /\ t[k].n = task[k].n /\ t[k].pin = task[k].pin /\ t[k].live = task[k].live
    PROVE  Step
  <1>1. /\ task \in [Task -> TaskRow] /\ request \in [Task -> Request]
        /\ UNCHANGED <<intent, flight, bought>>
    BY DEF Interrupt, Inv, Types
  <1>2. ASSUME NEW k \in Task
        PROVE  LET r == [t[k] EXCEPT !.cut = task[k].live]
               IN  /\ r \in TaskRow /\ r.n = t[k].n /\ r.pin = t[k].pin /\ r.live = t[k].live
                   /\ r.cut = task[k].live /\ r.st = t[k].st
    <2> DEFINE q == t[k]  c == task[k].live
    <2>1. q \in TaskRow /\ c \in BOOLEAN
      BY <1>1 DEF TaskRow
    <2> HIDE DEF q, c
    <2>2. LET r == [q EXCEPT !.cut = c]
          IN  /\ r \in TaskRow /\ r.n = q.n /\ r.pin = q.pin /\ r.live = q.live
              /\ r.cut = c /\ r.st = q.st
      BY <2>1 DEF TaskRow
    <2> QED BY <2>2 DEF q, c
  <1>3. task' = [k \in Task |-> IF k \in ks THEN [t[k] EXCEPT !.cut = task[k].live] ELSE task[k]]
    BY DEF Interrupt
  <1>4. request' = [k \in Task |-> IF k \in ks /\ task[k].live THEN Cut(request[k]) ELSE request[k]]
    BY DEF Interrupt
  <1>5. task' \in [Task -> TaskRow]
    <2>1. \A k \in Task : (IF k \in ks THEN [t[k] EXCEPT !.cut = task[k].live] ELSE task[k]) \in TaskRow
      BY <1>1, <1>2, Zenon
    <2> QED BY <1>3, <2>1, Zenon
  <1>6. request' \in [Task -> Request]
    <2>1. \A k \in Task : Cut(request[k]) \in Request /\ request[k] \in Request
      BY <1>1, CutRow
    <2> QED BY <1>4, <2>1
  <1>7. ASSUME NEW k \in Task PROVE Goes(k)
    <2>1. CASE k \notin ks
      <3>1. task'[k] = task[k] /\ request'[k] = request[k]
        BY <1>3, <1>4, <2>1
      <3> QED BY <3>1, Unmoved
    <2>2. CASE k \in ks
      <3>1. task'[k] = [t[k] EXCEPT !.cut = task[k].live]
        BY <1>3, <2>2
      <3>2. /\ task'[k].n = task[k].n /\ task'[k].pin = task[k].pin /\ task'[k].live = task[k].live
            /\ task'[k].cut = task[k].live
        BY <1>2, <2>2, <3>1, Zenon
      <3>3. TaskGoes(k)
        BY <2>2, <3>2, PinNamed DEF TaskGoes
      <3>4. RequestGoes(k)
        <4>1. CASE task[k].live
          BY <1>4, <2>2, <4>1, CutGoes
        <4>2. CASE ~task[k].live
          BY <1>4, <2>2, <4>2, RequestStays
        <4> QED BY <4>1, <4>2
      <3>5. ~task'[k].live => request'[k].ph = "idle"
        BY <1>4, <2>2, <3>2 DEF Inv, Attempts
      <3> QED BY <3>3, <3>4, <3>5 DEF Goes
    <2> QED BY <2>1, <2>2
  <1>8. Types'
    BY <1>1, <1>5, <1>6 DEF Inv, Types
  <1> QED BY <1>1, <1>7, <1>8, NothingSent DEF Step, Quiet

\* A row that is told to stop for a cancellation keeps its attempt and its name.
LEMMA StoppingRow ==
    ASSUME NEW q \in TaskRow
    PROVE  LET r == [q EXCEPT !.st = "STOPPING", !.op = "cancel"]
           IN  r \in TaskRow /\ r.n = q.n /\ r.pin = q.pin /\ r.live = q.live
  <1> DEFINE r == [q EXCEPT !.st = "STOPPING", !.op = "cancel"]
             Op == {None, "cancel", "replace"}
             Accts == Version \union {None}
             Tried == SUBSET (Account \union {None})
             Ids == Id \union {None}
             Bound == Account \union {None}
  <1>1. "STOPPING" \in State /\ "cancel" \in Op
    BY DEF State
  <1>2. TaskRow = [st : State, op : Op, n : Nat, acct : Accts, pool : Pools, tried : Tried, pin : Ids,
                   from : Nat, bound : Bound, live : BOOLEAN, cut : BOOLEAN]
    BY Zenon DEF TaskRow
  <1> HIDE DEF Op, Accts, Tried, Ids, Bound
  <1>3. r \in TaskRow
    BY <1>1, <1>2
  <1>4. r.n = q.n /\ r.pin = q.pin /\ r.live = q.live
    BY <1>2
  <1> QED BY <1>3, <1>4

\* An account is taken out of use.
LEMMA StopAccountStep == ASSUME Inv, NEW a \in Account, StopAccount(a) PROVE Step
  <1> DEFINE ks == {k \in Task : task[k].st = "RUNNING" /\ task[k].bound = a}
             t == [k \in Task |-> IF task[k].pool # {None} THEN Replaced(task[k], a)
                                  ELSE [task[k] EXCEPT !.st = "STOPPING", !.op = "cancel"]]
  <1>1. task \in [Task -> TaskRow]
    BY DEF Inv, Types
  <1>2. ASSUME NEW k \in Task
        PROVE  t[k] \in TaskRow /\ t[k].n = task[k].n /\ t[k].pin = task[k].pin /\ t[k].live = task[k].live
    <2> DEFINE q == task[k]
    <2>1. q \in TaskRow /\ a \in Account \union {None}
      BY <1>1
    <2>2. t[k] = IF q.pool # {None} THEN Replaced(q, a) ELSE [q EXCEPT !.st = "STOPPING", !.op = "cancel"]
      OBVIOUS
    <2> HIDE DEF q, t
    <2>3. LET r == [q EXCEPT !.st = "STOPPING", !.op = "cancel"]
          IN  r \in TaskRow /\ r.n = q.n /\ r.pin = q.pin /\ r.live = q.live
      BY <2>1, StoppingRow
    <2>4. t[k] \in TaskRow /\ t[k].n = q.n /\ t[k].pin = q.pin /\ t[k].live = q.live
      <3>1. CASE q.pool # {None}
        BY <2>1, <2>2, <3>1, ReplacedRow
      <3>2. CASE q.pool = {None}
        BY <2>2, <2>3, <3>2, Zenon
      <3> QED BY <3>1, <3>2
    <2> QED BY <2>4 DEF q
  <1>3. t \in [Task -> TaskRow]
    BY <1>2
  <1>4. acct' \in [Account -> [rev : Int, on : BOOLEAN]]
    BY DEF Inv, Types, StopAccount
  <1>5. Interrupt(ks, t)
    BY DEF StopAccount
  <1>6. \A k \in ks : task[k].st \notin Over
    BY DEF Over
  <1>7. ks \in SUBSET Task
    OBVIOUS
  <1> HIDE DEF ks, t
  <1>8. \A k \in ks : /\ task[k].st \notin Over
                     /\ t[k].n = task[k].n /\ t[k].pin = task[k].pin /\ t[k].live = task[k].live
    BY <1>2, <1>6, <1>7
  <1> QED BY ONLY Inv, <1>3, <1>4, <1>5, <1>7, <1>8, InterruptStep

\* The operator writes a row of a download whose attempt is left alone.
LEMMA ControlStep ==
    ASSUME Inv, NEW k \in Task, NEW r \in TaskRow, task' = [task EXCEPT ![k] = r],
           r.n = task[k].n, r.live = task[k].live, r.live /\ ~r.cut => r.st = "RUNNING",
           task[k].st \in Over => r.st \in Over, Names(k, r.pin),
           UNCHANGED <<acct, request, intent, flight, bought>>
    PROVE  Step
  <1>1. request' \in [Task -> Request] /\ request'[k] = request[k]
    BY DEF Inv, Types
  <1>2. ~r.live => request'[k].ph = "idle"
    BY <1>1 DEF Inv, Attempts
  <1>3. RequestGoes(k)
    BY <1>1, RequestStays
  <1> QED BY <1>1, <1>2, <1>3, RowMoves

\* The operator cancels a download.
LEMMA CancelStep == ASSUME Inv, NEW k \in Task, Cancel(k) PROVE Step
  <1>1. task \in [Task -> TaskRow]
    BY DEF Inv, Types
  <1> DEFINE q == task[k]
  <1>2. q \in TaskRow /\ q.st \notin Over
    BY <1>1 DEF Cancel, Over
  <1>3. CASE q.st = "RUNNING"
    <2> DEFINE t == [task EXCEPT ![k].st = "STOPPING", ![k].op = "cancel"]
               r == [q EXCEPT !.st = "STOPPING", !.op = "cancel"]
    <2>1. t = [task EXCEPT ![k] = r]
      BY <1>1
    <2>2. Interrupt({k}, t) /\ UNCHANGED acct
      BY <1>3 DEF Cancel
    <2> HIDE DEF q, t
    <2>3. r \in TaskRow /\ r.n = q.n /\ r.pin = q.pin /\ r.live = q.live
      BY <1>2, StoppingRow
    <2> HIDE DEF r
    <2>4. t \in [Task -> TaskRow] /\ t[k] = r
      BY <1>1, <2>1, <2>3
    <2>5. acct' \in [Account -> [rev : Int, on : BOOLEAN]]
      BY <2>2 DEF Inv, Types
    <2> DEFINE ks == {k}
    <2>6. \A j \in ks : /\ task[j].st \notin Over
                       /\ t[j].n = task[j].n /\ t[j].pin = task[j].pin /\ t[j].live = task[j].live
      BY <1>2, <2>3, <2>4 DEF q
    <2>7. ks \in SUBSET Task /\ Interrupt(ks, t)
      BY <2>2
    <2> HIDE DEF ks
    <2> QED BY ONLY Inv, <2>4, <2>5, <2>6, <2>7, InterruptStep
  <1>4. CASE q.st # "RUNNING"
    <2> DEFINE r == IF q.st = "PENDING" THEN [q EXCEPT !.st = "CANCELLED"] ELSE [q EXCEPT !.op = "cancel"]
    <2>1. task' = [task EXCEPT ![k] = r] /\ UNCHANGED <<acct, request, intent, flight, bought>>
      BY <1>4 DEF Cancel
    <2>2. q.live /\ ~q.cut => q.st = "RUNNING"
      BY DEF Inv, Attempts
    <2> HIDE DEF q
    <2>3. r \in TaskRow /\ r.n = q.n /\ r.pin = q.pin /\ r.live = q.live /\ r.cut = q.cut
      <3>1. CASE q.st = "PENDING"
        BY <1>2, <3>1 DEF TaskRow, State
      <3>2. CASE q.st # "PENDING"
        BY <1>2, <3>2 DEF TaskRow
      <3> QED BY <3>1, <3>2
    <2> HIDE DEF r
    <2> QED BY <1>2, <1>4, <2>1, <2>2, <2>3, PinNamed, ControlStep DEF q
  <1> QED BY <1>3, <1>4

\* The operator removes the work.
LEMMA RemoveStep == ASSUME Inv, NEW k \in Task, Remove(k) PROVE Step
  <1> DEFINE q == task[k]  c == q.live
             r == [q EXCEPT !.st = "REMOVED", !.op = None, !.cut = c]
  <1>1. task \in [Task -> TaskRow] /\ q \in TaskRow /\ request \in [Task -> Request]
    BY DEF Inv, Types
  <1>2. /\ task' = [task EXCEPT ![k] = r]
        /\ request' = IF q.live THEN [request EXCEPT ![k] = Cut(@)] ELSE request
        /\ UNCHANGED <<acct, intent, flight, bought>>
    BY <1>1 DEF Remove
  <1>3. ~q.live => request[k].ph = "idle"
    BY DEF Inv, Attempts
  <1>4. c \in BOOLEAN
    BY <1>1 DEF TaskRow
  <1>5. CASE q.live
    <2>1. request' = [request EXCEPT ![k] = Cut(request[k])]
      BY <1>2, <1>5
    <2>2. Cut(request[k]) \in Request
      BY <1>1, CutRow
    <2>3. request' \in [Task -> Request] /\ request'[k] = Cut(request[k])
            /\ \A j \in Task \ {k} : request'[j] = request[j]
      BY <1>1, <2>1, <2>2, RequestPut
    <2>4. RequestGoes(k)
      BY <2>3, CutGoes
    <2> HIDE DEF q, c
    <2>5. r \in TaskRow /\ r.n = q.n /\ r.pin = q.pin /\ r.live = q.live /\ r.cut = c /\ r.st = "REMOVED"
      BY <1>1, <1>4 DEF TaskRow, State
    <2> HIDE DEF r
    <2> QED BY <1>2, <1>5, <2>3, <2>4, <2>5, PinNamed, RowMoves DEF q, c, Over
  <1>6. CASE ~q.live
    <2>1. UNCHANGED request
      BY <1>2, <1>6
    <2> HIDE DEF q, c
    <2>2. r \in TaskRow /\ r.n = q.n /\ r.pin = q.pin /\ r.live = q.live /\ r.cut = c /\ r.st = "REMOVED"
      BY <1>1, <1>4 DEF TaskRow, State
    <2> HIDE DEF r
    <2> QED BY <1>2, <1>6, <2>1, <2>2, PinNamed, ControlStep DEF q, c, Over
  <1> QED BY <1>5, <1>6

\* The operation finishes once the coroutine has ended.
LEMMA FinishStep == ASSUME Inv, NEW k \in Task, Finish(k) PROVE Step
  <1> DEFINE q == task[k]
  <1>1. task \in [Task -> TaskRow] /\ q \in TaskRow /\ Types
    BY DEF Inv, Types
  <1>2. q.st = "STOPPING" /\ ~q.live /\ q.st \notin Over /\ UNCHANGED <<acct, request, intent, flight, bought>>
    BY DEF Finish, Over
  <1>3. ASSUME NEW st \in {"CANCELLED", "FAILED"}, task' = [task EXCEPT ![k].st = st, ![k].op = None]
        PROVE  Step
    <2> DEFINE r == [q EXCEPT !.st = st, !.op = None]
    <2>1. task' = [task EXCEPT ![k] = r]
      BY <1>1, <1>3
    <2> HIDE DEF q
    <2>2. r \in TaskRow /\ r.n = q.n /\ r.pin = q.pin /\ r.live = q.live
      BY <1>1 DEF TaskRow, State
    <2> HIDE DEF r
    <2> QED BY <1>2, <2>1, <2>2, PinNamed, ControlStep DEF q
  <1>4. ASSUME NEW c \in Choices(k),
               task' = [task EXCEPT ![k].st = "PENDING", ![k].op = None, ![k].acct = c[1], ![k].pin = c[2]]
        PROVE  Step
    <2> DEFINE v == c[1]  i == c[2]
               r == [q EXCEPT !.st = "PENDING", !.op = None, !.acct = v, !.pin = i]
    <2>1. v \in Version /\ i \in Id \union {None}
      BY <1>1, ChoicesType
    <2>2. Names(k, i)
      BY <1>2, ChoicesNamed
    <2>3. task' = [task EXCEPT ![k] = r]
      BY <1>1, <1>4
    <2> HIDE DEF q, v, i
    <2>4. r \in TaskRow /\ r.n = q.n /\ r.pin = i /\ r.live = q.live
      BY <1>1, <2>1 DEF TaskRow, State
    <2> HIDE DEF r
    <2> QED BY <1>2, <2>2, <2>3, <2>4, ControlStep DEF q
  <1> QED BY <1>3, <1>4 DEF Finish

\* A row whose process was lost is queued again.
LEMMA ReclaimStep == ASSUME Inv, NEW k \in Task, Reclaim(k) PROVE Step
  <1> DEFINE q == task[k]  r == [q EXCEPT !.st = "PENDING"]
  <1>1. task \in [Task -> TaskRow] /\ q \in TaskRow
    BY DEF Inv, Types
  <1>2. /\ ~q.live /\ q.st \notin Over /\ UNCHANGED <<acct, request, intent, flight, bought>>
        /\ task' = [task EXCEPT ![k] = r]
    BY <1>1 DEF Reclaim, Over
  <1> HIDE DEF q
  <1>3. r \in TaskRow /\ r.n = q.n /\ r.pin = q.pin /\ r.live = q.live
    BY <1>1 DEF TaskRow, State
  <1> HIDE DEF r
  <1> QED BY <1>2, <1>3, PinNamed, ControlStep DEF q

\* A new round keeps the recorded request.
LEMMA RetryStep == ASSUME Inv, NEW k \in Task, Retry(k) PROVE Step
  <1> DEFINE q == task[k]  m == q.n
             r == [q EXCEPT !.st = "PENDING", !.acct = None, !.tried = {}, !.pool = {None}, !.from = m]
  <1>1. task \in [Task -> TaskRow] /\ q \in TaskRow
    BY DEF Inv, Types
  <1>2. /\ q.st \notin Over /\ q.st # "RUNNING" /\ UNCHANGED <<acct, request, intent, flight, bought>>
        /\ task' = [task EXCEPT ![k] = r]
    BY <1>1 DEF Retry, Over
  <1>3. m \in Nat /\ {None} \in Pools
    BY <1>1 DEF TaskRow, Pools
  <1>4. q.live => q.cut
    BY <1>2 DEF Inv, Attempts
  <1> HIDE DEF q, m
  <1>5. r \in TaskRow /\ r.n = q.n /\ r.pin = q.pin /\ r.live = q.live /\ r.cut = q.cut
    BY <1>1, <1>3 DEF TaskRow, State
  <1> HIDE DEF r
  <1> QED BY <1>2, <1>4, <1>5, PinNamed, ControlStep DEF q

\* No row and no coroutine is touched.
LEMMA AsideStep ==
    ASSUME Inv, acct' \in [Account -> [rev : Int, on : BOOLEAN]], UNCHANGED <<task, request, intent>>,
           flight' \subseteq flight, bought' \subseteq Id \X (Account \union {None}),
           \A i \in Id : Sent(i)' => Sent(i)
    PROVE  Step
  <1>1. \A k \in Task : Goes(k)
    BY Unmoved
  <1>2. Types'
    BY DEF Inv, Types
  <1> QED BY <1>1, <1>2 DEF Step, Quiet, IntentGoes

\* An account is used again.
LEMMA EnableStep == ASSUME Inv, NEW a \in Account, Enable(a) PROVE Step
  <1>1. UNCHANGED <<task, request, intent, flight, bought>>
    BY DEF Enable
  <1>2. PICK e \in {0, 1} : acct' = [acct EXCEPT ![a] = [on |-> TRUE, rev |-> acct[a].rev + e]]
    BY DEF Enable
  <1>3. acct' \in [Account -> [rev : Int, on : BOOLEAN]]
    BY <1>2 DEF Inv, Types
  <1> QED BY <1>1, <1>3, AsideStep DEF Inv, Types, Sent, Paid

\* The provider acts on a form that was sent before.
LEMMA ProviderStep == ASSUME Inv, Provider PROVE Step
  <1>1. UNCHANGED <<acct, task, request, intent>>
    BY DEF Provider
  <1>2. PICK i \in flight : flight' = flight \ {i} /\ (bought' = bought \union {<<i, intent[i].a>>} \/ UNCHANGED bought)
    BY DEF Provider
  <1>3. i \in Id /\ intent[i].a \in Account \union {None} /\ bought \subseteq Id \X (Account \union {None})
    BY DEF Inv, Types, Intent
  <1>4. bought' \subseteq Id \X (Account \union {None})
    BY <1>2, <1>3
  <1>5. \A j \in Id : Sent(j)' => Sent(j)
    BY <1>2 DEF Sent, Paid
  <1>6. acct' \in [Account -> [rev : Int, on : BOOLEAN]]
    BY <1>1 DEF Inv, Types
  <1> QED BY <1>1, <1>2, <1>4, <1>5, <1>6, AsideStep

\* The process is lost, and every coroutine with it.
LEMMA CrashStep == ASSUME Inv, Crash PROVE Step
  <1>1. task \in [Task -> TaskRow] /\ UNCHANGED <<acct, intent, flight, bought>>
    BY DEF Inv, Types, Crash
  <1>2. ASSUME NEW k \in Task
        PROVE  LET r == [task[k] EXCEPT !.live = FALSE, !.cut = FALSE]
               IN  r \in TaskRow /\ r.n = task[k].n /\ r.pin = task[k].pin /\ ~r.live /\ r.st = task[k].st
    <2> DEFINE q == task[k]
    <2>1. q \in TaskRow
      BY <1>1
    <2> HIDE DEF q
    <2>2. LET r == [q EXCEPT !.live = FALSE, !.cut = FALSE]
          IN  r \in TaskRow /\ r.n = q.n /\ r.pin = q.pin /\ ~r.live /\ r.st = q.st
      BY <2>1 DEF TaskRow
    <2> QED BY <2>2 DEF q
  <1>3. task' = [k \in Task |-> [task[k] EXCEPT !.live = FALSE, !.cut = FALSE]]
    BY DEF Crash
  <1>4. task' \in [Task -> TaskRow]
    BY <1>2, <1>3, Zenon
  <1>5. \A k \in Task : task'[k].n = task[k].n /\ task'[k].pin = task[k].pin /\ ~task'[k].live
          /\ task'[k].st = task[k].st
    BY <1>2, <1>3, Zenon
  <1>6. request' = [k \in Task |-> Idle]
    BY DEF Crash
  <1>7. request' \in [Task -> Request] /\ \A k \in Task : request'[k].ph = "idle"
    BY <1>6, IdleRequest DEF Idle
  <1>8. \A k \in Task : Goes(k)
    BY <1>5, <1>7, PinNamed DEF Goes, TaskGoes, RequestGoes, Asked, Asking
  <1>9. Types'
    BY <1>1, <1>4, <1>7 DEF Inv, Types
  <1> QED BY <1>1, <1>8, <1>9, NothingSent DEF Step, Quiet

\* Every step of the specification has one of the shapes.
LEMMA NextStep == ASSUME Inv, Next PROVE Step
  <1>1. ASSUME NEW k \in Task, Attempt(k) PROVE Step
    BY <1>1, ClaimStep, ChooseStep, LeaseStep, SaveSelectionStep, ReserveStep, LocateStep, PageStep, AnswerStep,
       CheckStep, KeepStep, ReadyStep, OutcomeStep, DeliverStep, LeaveStep DEF Attempt
  <1>2. ASSUME NEW k \in Task, Control(k) PROVE Step
    BY <1>2, CancelStep, RemoveStep, FinishStep, ReclaimStep, RetryStep DEF Control
  <1> QED BY <1>1, <1>2, StopAccountStep, EnableStep, ProviderStep, CrashStep DEF Next

-----------------------------------------------------------------------------
(* The theorems. *)

\* Nothing is recorded at the start.
LEMMA InitInv == Init => Inv
  <1> SUFFICES ASSUME Init PROVE Inv
    OBVIOUS
  <1>1. /\ \A k \in Task : task[k].n = 0 /\ ~task[k].live /\ task[k].st = "PENDING"
        /\ \A k \in Task : request[k] = Idle
        /\ \A i \in Id : intent[i] = NoIntent
        /\ flight = {} /\ bought = {}
    BY DEF Init
  <1>2. NoIntent \in Intent /\ NoIntent.st = "NONE" /\ Idle.ph = "idle"
    BY DEF NoIntent, Intent, Idle
  <1>3. \A i \in Id : ~Recorded(i) /\ ~Standing(i) /\ ~Unsettled(i) /\ ~Sent(i)
    BY <1>1, <1>2 DEF Recorded, Standing, Unsettled, Sent, Paid
  <1>4. Types
    <2>1. task \in [Task -> TaskRow]
      <3>1. {None} \in Pools
        BY DEF Pools
      <3> QED BY <3>1 DEF Init, TaskRow, State
    <2>2. acct \in [Account -> [rev : Int, on : BOOLEAN]] /\ request \in [Task -> Request] /\ intent \in [Id -> Intent]
      BY <1>2, IdleRequest DEF Init
    <2> QED BY <1>1, <2>1, <2>2 DEF Types
  <1>5. \A k \in Task : Attempts(k)
    BY <1>1, <1>2, TypeFacts, <1>4 DEF Attempts
  <1>6. \A k \in Task : Asks(k)
    BY <1>1, <1>2 DEF Asks, Asking
  <1>7. InOrder
    BY <1>1 DEF InOrder
  <1> QED BY <1>3, <1>4, <1>5, <1>6, <1>7 DEF Inv, Numbered, SentStands, OneUnsettled, Named, LastUnsettled

\* The recorded requests, the coroutines and the provider stay in step with one another.
THEOREM InvHolds == Spec => []Inv
  <1>1. Inv /\ [Next]_vars => Inv'
    <2> SUFFICES ASSUME Inv, [Next]_vars PROVE Inv'
      OBVIOUS
    <2>1. CASE Next
      BY <2>1, NextStep, QuietKeeps, ClaimedKeeps, RecordingKeeps, PostingKeeps DEF Step
    <2>2. CASE UNCHANGED vars
      <3>1. UNCHANGED <<acct, task, request, intent, flight, bought>>
        BY <2>2 DEF vars
      <3>2. Step
        BY <3>1, AsideStep DEF Inv, Types, Sent, Paid
      <3> QED BY <3>1, <3>2, NextStep, QuietKeeps, ClaimedKeeps, RecordingKeeps, PostingKeeps DEF Step
    <2> QED BY <2>1, <2>2
  <1> QED BY <1>1, InitInv, PTL DEF Spec

\* Types and shapes: one unresolved intent of the gallery at a time, a request under way
\* has a recorded intent, and nothing is bought without one.
THEOREM TypesHold == Spec => []TypeOK
  <1>1. Inv => TypeOK
    <2> SUFFICES ASSUME Inv PROVE TypeOK
      OBVIOUS
    <2>1. \A i \in Id : intent[i].st \in {"NONE", "REQUESTED", "UNKNOWN", "READY", "REJECTED"}
      BY DEF Inv, Types, Intent
    <2>2. Cardinality(Unresolved) <= 1
      <3>1. \A i, j \in Unresolved : i = j
        BY DEF Inv, OneUnsettled, Unresolved, Unsettled
      <3>2. CASE Unresolved = {}
        BY <3>2, FS_EmptySet
      <3>3. ASSUME NEW i \in Unresolved PROVE Cardinality(Unresolved) <= 1
        <4>1. Unresolved = {i}
          BY <3>1, <3>3
        <4>2. Cardinality({i}) = 1
          BY FS_Singleton
        <4> QED BY <4>1, <4>2
      <3> QED BY <3>2, <3>3
    <2>3. \A k \in Task : request[k].ph \in Asking => request[k].id \in Id /\ intent[request[k].id].st # "NONE"
      BY DEF Inv, Asks, Recorded
    <2>4. \A p \in bought : p[1] \in Id /\ intent[p[1]].st # "NONE"
      BY DEF Inv, Types, SentStands, Sent, Paid, Standing
    <2> QED BY <2>1, <2>2, <2>3, <2>4 DEF TypeOK
  <1> QED BY <1>1, InvHolds, PTL

\* A payment that the provider took is never on record as a refusal.
THEOREM NoChargeForgotten == Spec => []ChargeRemembered
  <1>1. Inv => ChargeRemembered
    BY DEF Inv, Types, SentStands, Sent, Paid, Standing, ChargeRemembered
  <1> QED BY <1>1, InvHolds, PTL

\* One download pays for the gallery at most once, whatever is lost, retried, stopped or
\* taken over, and another one only when the first payment is confirmed.
THEOREM NoDoublePayment == Spec => []PaidOnce
  <1>1. Inv => PaidOnce
    <2> SUFFICES ASSUME Inv, NEW p \in bought, NEW q \in bought, p[1] # q[1]
                 PROVE  p[1][1] # q[1][1] /\ "READY" \in {intent[p[1]].st, intent[q[1]].st}
      BY DEF PaidOnce
    <2>1. p[1] \in Id /\ q[1] \in Id /\ Standing(p[1]) /\ Standing(q[1])
      BY DEF Inv, Types, SentStands, Sent, Paid
    <2>2. p[1][1] # q[1][1]
      BY <2>1 DEF Inv, Named
    <2>3. ~Unsettled(p[1]) \/ ~Unsettled(q[1])
      BY <2>1 DEF Inv, OneUnsettled
    <2> QED BY <2>1, <2>2, <2>3 DEF Standing, Unsettled
  <1> QED BY <1>1, InvHolds, PTL
=============================================================================
