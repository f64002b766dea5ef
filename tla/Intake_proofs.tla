---------------------------- MODULE Intake_proofs ----------------------------
(***************************************************************************)
(* What the transactions of the intake keep, for every number of messages, *)
(* accounts, galleries, works, attempts and edits.  Sound(d) says what a   *)
(* database is like between two transactions; every operator of Intake     *)
(* that a transaction is made of gets a lemma: from a sound database it    *)
(* makes a sound one.  SoundBut(d, X) is what holds in the middle of an    *)
(* edit, before the posts X have their new text.  Since(d, e) relates two  *)
(* databases: what a processor was given at d is still right at e, unless  *)
(* its revision says that it is stale.                                     *)
(***************************************************************************)
EXTENDS Intake, SequenceTheorems, TLAPS

State == {"PENDING", "PROCESSING", "LINKED", "IGNORED", "REMOVED", "MERGED", "BLOCKED"}
Entry == [st : State, gen : Nat \ {0}, input : Post \union {None}, owner : Worker \union {None},
          live : BOOLEAN, wait : BOOLEAN, attempts : 0 .. MaxAttempts, work : Work \union {None},
          removed : BOOLEAN, before : SUBSET Message]
Observation == [on : Key \union {None}, gen : Nat, active : BOOLEAN, ok : BOOLEAN,
                text : Text \union {None}, rev : Nat]
Found  == [is : BOOLEAN, gid : Gallery \union {None}, run : {"none", "active", "stopping", "kept"}]
Change == [st : {"NONE", "PENDING", "COMPLETED", "FAILED"}, text : Text \union {None},
           work : Work \union {None}, rev : Nat]
Update == [text : Text, edit : BOOLEAN]
Claim  == [key : Key \union {None}, gen : Nat, input : Post \union {None}, rev : Nat,
           text : Text \union Key \union {None}, post : Post \union {None}]

Tables == [entry : [Key -> Entry], obs : [Post -> Observation], work : [Work -> Found],
           link : SUBSET (Work \X Post), change : [Post -> Change]]

-----------------------------------------------------------------------------
(* The parts of the invariant, of a database d. *)

\* An entry: who holds it, which work it stands for.
Shaped(d) == \A k \in Key :
    /\ (d.entry[k].st = "PROCESSING") = (d.entry[k].owner # None)
    /\ d.entry[k].live => d.entry[k].st = "PROCESSING"
    /\ d.entry[k].work # None => d.entry[k].st \in {"LINKED", "MERGED"} /\ d.work[d.entry[k].work].is
    /\ d.entry[k].st = "LINKED" => d.entry[k].work # None
    /\ d.entry[k].st = "MERGED" /\ d.entry[k].work # None => d.work[d.entry[k].work].gid # None
    /\ d.entry[k].st = "LINKED" /\ k \in Gallery => d.work[d.entry[k].work].gid = k
    /\ d.entry[k].input # None => Known(d, d.entry[k].input)

\* A removed identity comes back in another generation only.
Reborn(d) == \A k \in Key :
    /\ d.entry[k].st = "REMOVED" => d.entry[k].removed
    /\ d.entry[k].removed /\ d.entry[k].st # "REMOVED" => d.entry[k].gen > 1
    /\ d.entry[k].before # {} => d.entry[k].removed

\* An observation belongs to a generation that has begun; those of a channel message are its copies.
Dated(d) == \A p \in Post :
    /\ Known(d, p) => /\ d.obs[p].gen <= d.entry[d.obs[p].on].gen
                      /\ d.obs[p].rev > 0
                      /\ d.obs[p].on \in Message => d.obs[p].on = p[1]
    /\ ~Known(d, p) => d.obs[p].rev = 0

\* What may be judged under a gallery names it.
Named(d, X) == \A p \in Post \ X :
    /\ Known(d, p) /\ d.obs[p].on \in Gallery /\ d.obs[p].gen = d.entry[d.obs[p].on].gen
    /\ d.entry[d.obs[p].on].st \notin {"LINKED", "REMOVED"}
    => d.obs[p].text = d.obs[p].on

Unique(d) == \A b, c \in Work :
    d.work[b].is /\ d.work[c].is /\ d.work[b].gid = d.work[c].gid /\ d.work[b].gid # None => b = c

Linked(d) == \A l \in d.link :
    /\ Known(d, l[2]) /\ d.work[l[1]].is /\ d.obs[l[2]].active
    /\ d.entry[d.obs[l[2]].on].st = "LINKED" /\ d.entry[d.obs[l[2]].on].work = l[1]
    /\ d.entry[d.obs[l[2]].on].gen = d.obs[l[2]].gen

Kept(d, X) == \A k \in Key :
    d.entry[k].st = "LINKED" /\ (\A x \in X : d.obs[x].on # k)
        => \A p \in Sources(d, k) : <<d.entry[k].work, p>> \in d.link

Unedited(d, m) == \A q \in Post : q[1] = m => d.obs[q].rev <= 1

\* An unedited post of before the removal is behind its entry.
Late(d, X) == \A p \in Post :
    /\ Known(d, p) /\ Unedited(d, p[1]) /\ (\A x \in X : x[1] # p[1])
    /\ p[1] \in d.entry[d.obs[p].on].before
    => d.entry[d.obs[p].on].st = "REMOVED" \/ d.obs[p].gen < d.entry[d.obs[p].on].gen

(* X: the posts an edit is about to rewrite. *)
SoundBut(d, X) ==
    /\ d \in Tables /\ Shaped(d) /\ Reborn(d) /\ Dated(d) /\ Named(d, X)
    /\ Unique(d) /\ Linked(d) /\ Kept(d, X) /\ Late(d, X)
Sound(d) == SoundBut(d, {})

\* Later than d: texts change with their revisions only.
Since(d, e) == \A p \in Post : Known(d, p) =>
    /\ Known(e, p) /\ e.obs[p].rev >= d.obs[p].rev
    /\ e.obs[p].rev = d.obs[p].rev => e.obs[p].text = d.obs[p].text

-----------------------------------------------------------------------------
(* Rows. *)

\* What the rows of a database are made of.
LEMMA RowTypes ==
    ASSUME NEW d, d \in Tables
    PROVE  /\ \A k \in Key : /\ d.entry[k] \in Entry /\ d.entry[k].gen \in Nat \ {0}
                             /\ d.entry[k].work \in Work \union {None} /\ d.entry[k].input \in Post \union {None}
           /\ \A p \in Post : /\ d.obs[p] \in Observation /\ d.obs[p].on \in Key \union {None}
                              /\ d.obs[p].gen \in Nat /\ d.obs[p].rev \in Nat
                              /\ Known(d, p) => d.obs[p].on \in Key
           /\ \A l \in d.link : l[1] \in Work /\ l[2] \in Post
           /\ \A c \in Work : d.work[c] \in Found /\ d.work[c].is \in BOOLEAN
<1>1. \A k \in Key : d.entry[k] \in Entry
  BY DEF Tables
<1>2. \A k \in Key : /\ d.entry[k].gen \in Nat \ {0} /\ d.entry[k].work \in Work \union {None}
                     /\ d.entry[k].input \in Post \union {None}
  BY <1>1 DEF Entry
<1>3. \A p \in Post : d.obs[p] \in Observation
  BY DEF Tables
<1>4. \A p \in Post : d.obs[p].on \in Key \union {None} /\ d.obs[p].gen \in Nat /\ d.obs[p].rev \in Nat
  BY <1>3 DEF Observation
<1>5. \A p \in Post : Known(d, p) => d.obs[p].on \in Key
  BY <1>4 DEF Known
<1>6. \A l \in d.link : l[1] \in Work /\ l[2] \in Post
  BY DEF Tables
<1>7. \A c \in Work : d.work[c] \in Found
  BY DEF Tables
<1>8. \A c \in Work : d.work[c].is \in BOOLEAN
  BY <1>7 DEF Found
<1> QED  BY <1>1, <1>2, <1>3, <1>4, <1>5, <1>6, <1>7, <1>8

\* What a released entry keeps, and what it gives up.
LEMMA ReleasedRow ==
    ASSUME NEW e \in Entry, NEW st \in State
    PROVE  LET r == Released(e, st)
           IN  /\ r \in Entry /\ r.st = st /\ r.owner = None /\ r.live = FALSE /\ r.wait = FALSE
               /\ r.gen = e.gen /\ r.input = e.input /\ r.work = e.work
               /\ r.removed = e.removed /\ r.before = e.before
<1> DEFINE r == Released(e, st)
<1>1. PICK f \in BOOLEAN : f = FALSE
  OBVIOUS
<1>2. r = [e EXCEPT !.st = st, !.owner = None, !.live = f, !.wait = f]
  BY <1>1 DEF Released
<1> HIDE DEF r
<1>3. r \in Entry
  BY <1>2 DEF Entry
<1>4. r.st = st /\ r.owner = None /\ r.live = f /\ r.wait = f
  BY <1>2 DEF Entry
<1>5. /\ r.gen = e.gen /\ r.input = e.input /\ r.work = e.work
      /\ r.removed = e.removed /\ r.before = e.before
  BY <1>2 DEF Entry
<1> QED  BY <1>1, <1>3, <1>4, <1>5 DEF r

\* The same for an entry that is linked as it is released.
ReleasedWith(e, st, c) == [Released(e, st) EXCEPT !.work = c]
LEMMA ReleasedTo ==
    ASSUME NEW e \in Entry, NEW st \in State, NEW c \in Work
    PROVE  LET r == ReleasedWith(e, st, c)
           IN  /\ r \in Entry /\ r.st = st /\ r.owner = None /\ r.live = FALSE /\ r.work = c
               /\ r.gen = e.gen /\ r.input = e.input /\ r.removed = e.removed /\ r.before = e.before
<1> DEFINE q == Released(e, st)
           r == [q EXCEPT !.work = c]
<1>1. /\ q \in Entry /\ q.st = st /\ q.owner = None /\ q.live = FALSE
      /\ q.gen = e.gen /\ q.input = e.input /\ q.removed = e.removed /\ q.before = e.before
  BY ReleasedRow
<1> HIDE DEF q
<1>2. r \in Entry
  BY <1>1 DEF Entry
<1>3. /\ r.st = q.st /\ r.owner = q.owner /\ r.live = q.live /\ r.work = c
      /\ r.gen = q.gen /\ r.input = q.input /\ r.removed = q.removed /\ r.before = q.before
  BY <1>1 DEF Entry
<1> HIDE DEF r
<1>4. ReleasedWith(e, st, c) = r
  BY DEF ReleasedWith, r, q
<1> QED  BY <1>1, <1>2, <1>3, <1>4

-----------------------------------------------------------------------------
(* One entry moves. *)
Open == {"PENDING", "PROCESSING", "IGNORED", "BLOCKED"}

\* An entry between the states that are not final changes its claim or its input; gen, work and
\* history stay.
LEMMA EntryMoves ==
    ASSUME NEW d, NEW X \in SUBSET Post, SoundBut(d, X), NEW k \in Key, NEW e \in Entry,
           e.gen = d.entry[k].gen, e.removed = d.entry[k].removed, e.before = d.entry[k].before,
           e.work = d.entry[k].work,
           e.st = d.entry[k].st \/ (e.st \in Open /\ d.entry[k].st \in Open),
           (e.st = "PROCESSING") = (e.owner # None), e.live => e.st = "PROCESSING",
           e.input # None => Known(d, e.input)
    PROVE  SoundBut([d EXCEPT !.entry[k] = e], X) /\ Since(d, [d EXCEPT !.entry[k] = e])
<1> DEFINE f == [d EXCEPT !.entry[k] = e]
<1>1. /\ f.obs = d.obs /\ f.work = d.work /\ f.link = d.link /\ f.change = d.change
      /\ f.entry = [d.entry EXCEPT ![k] = e] /\ f \in Tables
      /\ d \in Tables
  BY DEF SoundBut, Tables
<1> HIDE DEF f
<1>2. \A i \in Key : f.entry[i] = IF i = k THEN e ELSE d.entry[i]
  BY <1>1 DEF Tables
<1>3. Shaped(f)
  BY <1>1, <1>2 DEF SoundBut, Shaped, Known, Open
<1>4. Reborn(f)
  BY <1>1, <1>2 DEF SoundBut, Reborn, Open
<1>5. \A p \in Post : Known(f, p) = Known(d, p) /\ (Known(d, p) => d.obs[p].on \in Key)
  BY <1>1 DEF Known, Tables, Observation
<1>6. Dated(f)
  BY <1>1, <1>2, <1>5 DEF SoundBut, Dated
<1>7. Named(f, X)
  BY <1>1, <1>2, <1>5 DEF SoundBut, Named, Open
<1>8. Unique(f)
  BY <1>1 DEF SoundBut, Unique
<1>9. Linked(f)
  BY <1>1, <1>2, <1>5 DEF SoundBut, Linked, Open, Tables
<1>10. Kept(f, X)
  BY <1>1, <1>2, <1>5 DEF SoundBut, Kept, Sources, Open
<1>11. Late(f, X)
  BY <1>1, <1>2, <1>5 DEF SoundBut, Late, Unedited, Open
<1>12. Since(d, f)
  BY <1>1, <1>5 DEF Since, SoundBut, Tables, Observation
<1> QED
  BY <1>1, <1>3, <1>4, <1>6, <1>7, <1>8, <1>9, <1>10, <1>11, <1>12 DEF SoundBut, f

(* Entries that no claim, and no link, depends on: Released, Claimed, ... *)
LEMMA ReleasedIsSound ==
    ASSUME NEW d, NEW X \in SUBSET Post, SoundBut(d, X), NEW k \in Key,
           NEW st \in Open \ {"PROCESSING"}, d.entry[k].st \in Open
    PROVE  /\ SoundBut([d EXCEPT !.entry[k] = Released(@, st)], X)
           /\ Since(d, [d EXCEPT !.entry[k] = Released(@, st)])
<1> DEFINE e == Released(d.entry[k], st)
<1>1. d \in Tables /\ d.entry[k] \in Entry /\ None \notin Worker
  BY IntakeConstants DEF SoundBut, Tables, Worker
<1>2. /\ e \in Entry /\ e.gen = d.entry[k].gen /\ e.removed = d.entry[k].removed /\ e.before = d.entry[k].before
      /\ e.work = d.entry[k].work /\ e.st = st /\ e.owner = None /\ e.live = FALSE
      /\ e.input = d.entry[k].input
  BY <1>1 DEF Entry, Released, Open, State
<1>3. d.entry[k].input # None => Known(d, d.entry[k].input)
  BY DEF SoundBut, Shaped
<1>4. [d EXCEPT !.entry[k] = Released(@, st)] = [d EXCEPT !.entry[k] = e]
  OBVIOUS
<1> HIDE DEF e
<1>5. SoundBut([d EXCEPT !.entry[k] = e], X) /\ Since(d, [d EXCEPT !.entry[k] = e])
  BY <1>2, <1>3, EntryMoves
<1> QED  BY <1>4, <1>5

\* Linking every source of a linked entry makes good what was missing for this entry.
LEMMA TakeLinks ==
    ASSUME NEW d, NEW k \in Key, d \in Tables, Shaped(d), Reborn(d), Dated(d), Named(d, {}), Unique(d),
           Linked(d),
           \A i \in Key \ {k} : d.entry[i].st = "LINKED" =>
              \A p \in Sources(d, i) : <<d.entry[i].work, p>> \in d.link,
           Late(d, {}), d.entry[k].st = "LINKED"
    PROVE  Sound(LinkSources(d, k)) /\ Since(d, LinkSources(d, k))
<1> DEFINE f == LinkSources(d, k)
           new == {<<d.entry[k].work, p>> : p \in Sources(d, k)}
<1>1. /\ f.obs = d.obs /\ f.work = d.work /\ f.change = d.change /\ f.entry = d.entry
      /\ f.link = d.link \union new
  BY DEF LinkSources, Tables
<1>2. /\ d.entry[k].work \in Work /\ d.work[d.entry[k].work].is
      /\ new \subseteq Work \X Post
  BY DEF Tables, Entry, Shaped, Sources
<1>3. f \in Tables
  BY <1>2 DEF LinkSources, Tables
<1> HIDE DEF f
<1>4. Shaped(f) /\ Reborn(f) /\ Dated(f) /\ Named(f, {}) /\ Unique(f) /\ Late(f, {})
  <2>1. Shaped(f)
    BY <1>1 DEF Shaped, Known
  <2>2. Reborn(f) /\ Unique(f)
    BY <1>1 DEF Reborn, Unique
  <2>3. Dated(f) /\ Named(f, {})
    BY <1>1 DEF Dated, Named, Known
  <2>4. Late(f, {})
    BY <1>1 DEF Late, Known, Unedited
  <2> QED  BY <2>1, <2>2, <2>3, <2>4
<1>5. \A l \in new : /\ l[1] = d.entry[k].work /\ l[2] \in Post /\ d.obs[l[2]].on = k
                     /\ d.obs[l[2]].gen = d.entry[k].gen /\ d.obs[l[2]].active
  BY DEF Sources
<1>6. Linked(f)
  <2> SUFFICES ASSUME NEW l \in f.link
               PROVE  /\ Known(d, l[2]) /\ d.work[l[1]].is /\ d.obs[l[2]].active
                      /\ d.entry[d.obs[l[2]].on].st = "LINKED" /\ d.entry[d.obs[l[2]].on].work = l[1]
                      /\ d.entry[d.obs[l[2]].on].gen = d.obs[l[2]].gen
    BY <1>1 DEF Linked, Known
  <2>1. CASE l \in d.link
    BY <2>1 DEF Linked
  <2>2. CASE l \in new
    BY <1>2, <1>5, <2>2, IntakeConstants DEF Known, Key
  <2> QED  BY <1>1, <2>1, <2>2
<1>7. Kept(f, {})
  BY <1>1 DEF Kept, Sources
<1>8. Since(d, f)
  BY <1>1 DEF Since, Known, Tables, Observation
<1> QED
  BY <1>3, <1>4, <1>6, <1>7, <1>8 DEF Sound, SoundBut, f

\* Since is transitive.
LEMMA SinceTwice ==
    ASSUME NEW d, NEW e, NEW f, d \in Tables, e \in Tables, f \in Tables, Since(d, e), Since(e, f)
    PROVE  Since(d, f)
<1>1. \A p \in Post : d.obs[p].rev \in Nat /\ e.obs[p].rev \in Nat /\ f.obs[p].rev \in Nat
  BY DEF Tables, Observation
<1> QED  BY <1>1 DEF Since

\* finish_claim: the entry is judged, and its sources are linked to the work it stands for.
LEMMA FinishIsSound ==
    ASSUME NEW d, Sound(d), NEW k \in Key, d.entry[k].st \in Open, NEW c \in Work \union {None},
           c # None => d.work[c].is /\ (k \in Gallery => d.work[c].gid = k)
    PROVE  Sound(Finish(d, k, c)) /\ Since(d, Finish(d, k, c))
<1>1. d \in Tables /\ d.entry[k] \in Entry /\ None \notin Worker /\ None \notin Work
  BY IntakeConstants DEF Sound, SoundBut, Tables, Worker
<1>2. d.entry[k].work = None /\ (d.entry[k].input # None => Known(d, d.entry[k].input))
  BY DEF Sound, SoundBut, Shaped, Open
<1>3. CASE c = None
  <2> DEFINE e == [Released(d.entry[k], "IGNORED") EXCEPT !.work = None]
  <2>1. /\ e \in Entry /\ e.gen = d.entry[k].gen /\ e.removed = d.entry[k].removed /\ e.before = d.entry[k].before
        /\ e.work = d.entry[k].work /\ e.st = "IGNORED" /\ e.owner = None /\ e.live = FALSE
        /\ e.input = d.entry[k].input
    BY <1>1, <1>2 DEF Entry, Released, State
  <2>2. Finish(d, k, c) = [d EXCEPT !.entry[k] = e]
    BY <1>3 DEF Finish
  <2> HIDE DEF e
  <2>3. SoundBut([d EXCEPT !.entry[k] = e], {}) /\ Since(d, [d EXCEPT !.entry[k] = e])
    BY <1>2, <2>1, EntryMoves DEF Sound, Open
  <2> QED  BY <2>2, <2>3 DEF Sound
<1>4. CASE c # None
  <2> DEFINE e == [Released(d.entry[k], "LINKED") EXCEPT !.work = c]
             f == [d EXCEPT !.entry[k] = e]
  <2>1. /\ e \in Entry /\ e.gen = d.entry[k].gen /\ e.removed = d.entry[k].removed /\ e.before = d.entry[k].before
        /\ e.work = c /\ e.st = "LINKED" /\ e.owner = None /\ e.live = FALSE
        /\ e.input = d.entry[k].input
    BY <1>1, <1>2 DEF Entry, Released, State
  <2>2. Finish(d, k, c) = LinkSources(f, k)
    BY <1>4 DEF Finish
  <2> HIDE DEF e
  <2>3. /\ f.obs = d.obs /\ f.work = d.work /\ f.link = d.link /\ f.change = d.change
        /\ f.entry = [d.entry EXCEPT ![k] = e] /\ f \in Tables
    BY <1>1, <2>1 DEF Tables
  <2> HIDE DEF f
  <2>4. \A i \in Key : f.entry[i] = IF i = k THEN e ELSE d.entry[i]
    BY <1>1, <2>3 DEF Tables
  <2>5. \A p \in Post : Known(f, p) = Known(d, p) /\ (Known(d, p) => d.obs[p].on \in Key)
    BY <1>1, <2>3 DEF Known, Tables, Observation
  <2>6. Shaped(f)
    BY <1>1, <1>2, <1>4, <2>1, <2>3, <2>4 DEF Sound, SoundBut, Shaped, Known
  <2>7. Reborn(f)
    BY <2>1, <2>4 DEF Sound, SoundBut, Reborn, Open
  <2>8. Dated(f) /\ Named(f, {})
    BY <2>1, <2>3, <2>4, <2>5 DEF Sound, SoundBut, Dated, Named
  <2>9. Unique(f)
    BY <2>3 DEF Sound, SoundBut, Unique
  <2>10. Linked(f)
    BY <1>1, <2>3, <2>4, <2>5 DEF Sound, SoundBut, Linked, Tables, Open
  <2>11. \A i \in Key \ {k} : f.entry[i].st = "LINKED" =>
              \A p \in Sources(f, i) : <<f.entry[i].work, p>> \in f.link
    BY <2>3, <2>4 DEF Sound, SoundBut, Kept, Sources
  <2>12. Late(f, {})
    BY <2>1, <2>3, <2>4, <2>5 DEF Sound, SoundBut, Late, Unedited, Open
  <2>13. Sound(LinkSources(f, k)) /\ Since(f, LinkSources(f, k))
    BY <2>1, <2>3, <2>4, <2>6, <2>7, <2>8, <2>9, <2>10, <2>11, <2>12, TakeLinks
  <2>14. Since(d, f)
    BY <1>1, <2>3, <2>5 DEF Since, Tables, Observation
  <2>15. Since(d, LinkSources(f, k))
    BY <1>1, <2>3, <2>13, <2>14, SinceTwice DEF Sound, SoundBut
  <2> QED  BY <2>2, <2>13, <2>15
<1> QED  BY <1>3, <1>4

\* A deletion with its trigger leaves the entries of the work removed and the links of others
\* alone.
LEMMA DeleteIsSound ==
    ASSUME NEW d, NEW X \in SUBSET Post, SoundBut(d, X), NEW c \in Work, written \subseteq Message
    PROVE  SoundBut(Delete(d, c), X) /\ Delete(d, c).obs = d.obs
<1> DEFINE f == Delete(d, c)
           e(k) == IF d.entry[k].work = c
                   THEN [d.entry[k] EXCEPT !.st = "REMOVED", !.work = None, !.owner = None, !.wait = FALSE,
                                           !.live = FALSE, !.removed = TRUE, !.before = written]
                   ELSE d.entry[k]
<1>1. d \in Tables /\ None \notin Worker /\ None \notin Work /\ None \notin Gallery
  BY IntakeConstants DEF SoundBut, Worker
<1>2. ASSUME NEW k \in Key
      PROVE  /\ e(k) \in Entry
             /\ d.entry[k].work # c => e(k) = d.entry[k]
             /\ d.entry[k].work = c =>
                   /\ e(k).st = "REMOVED" /\ e(k).work = None /\ e(k).owner = None
                   /\ e(k).live = FALSE /\ e(k).removed /\ e(k).gen = d.entry[k].gen
                   /\ e(k).input = d.entry[k].input
  <2>1. d.entry[k] \in Entry
    BY <1>1 DEF Tables
  <2> DEFINE r == [d.entry[k] EXCEPT !.st = "REMOVED", !.work = None, !.owner = None, !.wait = FALSE,
                                     !.live = FALSE, !.removed = TRUE, !.before = written]
  <2>2. /\ r \in Entry
        /\ r.st = "REMOVED" /\ r.work = None /\ r.owner = None /\ r.live = FALSE /\ r.removed
        /\ r.gen = d.entry[k].gen /\ r.input = d.entry[k].input
    BY <2>1 DEF Entry, State
  <2>3. e(k) = IF d.entry[k].work = c THEN r ELSE d.entry[k]
    OBVIOUS
  <2> HIDE DEF r, e
  <2> QED  BY <2>1, <2>2, <2>3
<1>3. f.entry = [k \in Key |-> e(k)]
  BY <1>1 DEF Delete, Tables
<1>4. /\ f.obs = d.obs /\ f.change = d.change /\ f.link = {l \in d.link : l[1] # c}
      /\ f.work = [d.work EXCEPT ![c] = NoWork]
  BY <1>1 DEF Delete, Tables
<1>5. f.work \in [Work -> Found]
  BY <1>1, <1>4 DEF Tables, Found, NoWork
<1>6. f \in Tables
  BY <1>1, <1>2, <1>3, <1>4, <1>5 DEF Tables, Delete
<1>7. \A k \in Key :
        /\ d.entry[k].work # c => f.entry[k] = d.entry[k]
        /\ d.entry[k].work = c =>
              /\ f.entry[k].st = "REMOVED" /\ f.entry[k].work = None /\ f.entry[k].owner = None
              /\ f.entry[k].live = FALSE /\ f.entry[k].removed /\ f.entry[k].gen = d.entry[k].gen
              /\ f.entry[k].input = d.entry[k].input
  <2> SUFFICES ASSUME NEW k \in Key
               PROVE  /\ d.entry[k].work # c => f.entry[k] = d.entry[k]
                      /\ d.entry[k].work = c =>
                            /\ f.entry[k].st = "REMOVED" /\ f.entry[k].work = None /\ f.entry[k].owner = None
                            /\ f.entry[k].live = FALSE /\ f.entry[k].removed /\ f.entry[k].gen = d.entry[k].gen
                            /\ f.entry[k].input = d.entry[k].input
    OBVIOUS
  <2> HIDE DEF f, e
  <2>1. f.entry[k] = e(k)
    BY <1>3
  <2>2. /\ d.entry[k].work # c => e(k) = d.entry[k]
        /\ d.entry[k].work = c =>
              /\ e(k).st = "REMOVED" /\ e(k).work = None /\ e(k).owner = None
              /\ e(k).live = FALSE /\ e(k).removed /\ e(k).gen = d.entry[k].gen
              /\ e(k).input = d.entry[k].input
    BY <1>2
  <2> QED  BY <2>1, <2>2
<1>8. \A b \in Work : f.work[b] = IF b = c THEN NoWork ELSE d.work[b]
  BY <1>1, <1>4 DEF Tables
<1> HIDE DEF f, e
<1>9. \A p \in Post : Known(f, p) = Known(d, p) /\ (Known(d, p) => d.obs[p].on \in Key)
  BY <1>1, <1>4 DEF Known, Tables, Observation
<1>10. \A k \in Key : d.entry[k].work \in Work \union {None} /\ (d.entry[k].input # None => Known(f, d.entry[k].input))
  BY <1>1, <1>4 DEF Tables, Entry, SoundBut, Shaped, Known
<1>11. Shaped(f)
  BY <1>1, <1>7, <1>8, <1>10 DEF SoundBut, Shaped
<1>12. Reborn(f)
  BY <1>7 DEF SoundBut, Reborn
<1>13. Dated(f) /\ Named(f, X)
  BY <1>4, <1>7, <1>9 DEF SoundBut, Dated, Named
<1>14. Unique(f)
  BY <1>1, <1>8 DEF SoundBut, Unique, NoWork
<1>15. Linked(f)
  BY <1>1, <1>4, <1>7, <1>8, <1>9 DEF SoundBut, Linked, Tables
<1>16. Kept(f, X)
  <2> SUFFICES ASSUME NEW k \in Key, f.entry[k].st = "LINKED", \A x \in X : f.obs[x].on # k, NEW p \in Sources(f, k)
               PROVE  <<f.entry[k].work, p>> \in f.link
    BY DEF Kept
  <2>1. f.entry[k] = d.entry[k] /\ d.entry[k].work # c
    BY <1>7
  <2>2. <<d.entry[k].work, p>> \in d.link
    BY <1>4, <2>1 DEF SoundBut, Kept, Sources
  <2> QED  BY <1>4, <2>1, <2>2
<1>17. Late(f, X)
  BY <1>1, <1>4, <1>7, <1>9 DEF SoundBut, Late, Unedited
<1> QED
  BY <1>4, <1>6, <1>11, <1>12, <1>13, <1>14, <1>15, <1>16, <1>17 DEF SoundBut, f

\* A claim of an entry with attempts left.
LEMMA ClaimedIsSound ==
    ASSUME NEW d, Sound(d), NEW k \in Key, d.entry[k].st \in {"PENDING", "PROCESSING"},
           d.entry[k].attempts < MaxAttempts, NEW w \in Worker
    PROVE  /\ Sound(Claimed(d, k, w)) /\ Since(d, Claimed(d, k, w))
           /\ Claimed(d, k, w).obs = d.obs /\ Claimed(d, k, w).entry[k].input = d.entry[k].input
<1> DEFINE e == [d.entry[k] EXCEPT !.st = "PROCESSING", !.owner = w, !.live = TRUE, !.wait = FALSE,
                                   !.attempts = @ + 1]
<1>1. d \in Tables /\ d.entry[k] \in Entry /\ None \notin Worker /\ MaxAttempts \in Nat
  BY IntakeConstants DEF Sound, SoundBut, Tables, Worker
<1>2. /\ e \in Entry /\ e.gen = d.entry[k].gen /\ e.removed = d.entry[k].removed /\ e.before = d.entry[k].before
      /\ e.work = d.entry[k].work /\ e.st = "PROCESSING" /\ e.owner = w /\ e.input = d.entry[k].input
  <2>1. d.entry[k].attempts + 1 \in 0 .. MaxAttempts
    BY <1>1 DEF Entry
  <2>2. "PROCESSING" \in State
    BY DEF State
  <2> QED  BY <1>1, <2>1, <2>2 DEF Entry
<1>3. Claimed(d, k, w) = [d EXCEPT !.entry[k] = e]
  BY DEF Claimed
<1>4. d.entry[k].input # None => Known(d, d.entry[k].input)
  BY DEF Sound, SoundBut, Shaped
<1> HIDE DEF e
<1>5. SoundBut([d EXCEPT !.entry[k] = e], {}) /\ Since(d, [d EXCEPT !.entry[k] = e])
  BY <1>1, <1>2, <1>4, EntryMoves DEF Sound, Open
<1>6. [d EXCEPT !.entry[k] = e].obs = d.obs /\ [d EXCEPT !.entry[k] = e].entry[k] = e
  BY <1>1 DEF Tables
<1> QED  BY <1>2, <1>3, <1>5, <1>6 DEF Sound

\* An entry whose claim, wait or lease alone changes.
LEMMA HoldChanges ==
    ASSUME NEW d, NEW X \in SUBSET Post, SoundBut(d, X), NEW k \in Key, NEW live \in BOOLEAN, NEW wait \in BOOLEAN,
           live => d.entry[k].st = "PROCESSING"
    PROVE  LET f == [d EXCEPT !.entry[k].live = live, !.entry[k].wait = wait]
           IN  SoundBut(f, X) /\ Since(d, f)
<1> DEFINE e == [d.entry[k] EXCEPT !.live = live, !.wait = wait]
<1>1. d \in Tables /\ d.entry[k] \in Entry
  BY DEF SoundBut, Tables
<1>2. /\ e \in Entry /\ e.gen = d.entry[k].gen /\ e.removed = d.entry[k].removed /\ e.before = d.entry[k].before
      /\ e.work = d.entry[k].work /\ e.st = d.entry[k].st /\ e.owner = d.entry[k].owner
      /\ e.input = d.entry[k].input /\ e.live = live
  BY <1>1 DEF Entry
<1>3. [d EXCEPT !.entry[k].live = live, !.entry[k].wait = wait] = [d EXCEPT !.entry[k] = e]
  BY <1>1 DEF Tables, Entry
<1>4. (d.entry[k].input # None => Known(d, d.entry[k].input)) /\ (d.entry[k].st = "PROCESSING") = (d.entry[k].owner # None)
  BY DEF SoundBut, Shaped
<1> HIDE DEF e
<1>5. SoundBut([d EXCEPT !.entry[k] = e], X) /\ Since(d, [d EXCEPT !.entry[k] = e])
  BY <1>2, <1>4, EntryMoves
<1> QED  BY <1>3, <1>5

\* Since is reflexive.
LEMMA SinceItself ==
    ASSUME NEW d, d \in Tables
    PROVE  Since(d, d)
  BY DEF Since, Tables, Observation

\* A claim is revoked for a pending edit.
LEMMA RevokedIsSound ==
    ASSUME NEW d, Sound(d), NEW k \in Key
    PROVE  Sound(Revoked(d, k)) /\ Since(d, Revoked(d, k))
  BY ReleasedIsSound, SinceItself DEF Revoked, Sound, SoundBut, Open

\* An entry whose attempts are used up is blocked.
LEMMA BlockedIsSound ==
    ASSUME NEW d, Sound(d), NEW k \in Key, d.entry[k].st \in {"PENDING", "PROCESSING"}
    PROVE  Sound(Blocked(d, k)) /\ Since(d, Blocked(d, k))
  BY ReleasedIsSound DEF Blocked, Sound, Open

\* The claim of w on its entry, if it still holds it, is given back.
LEMMA FailIsSound ==
    ASSUME NEW w \in Worker, Sound(db), worker[w].key \in Key, NEW retry \in BOOLEAN
    PROVE  Sound(Fail(db, w, retry)) /\ Since(db, Fail(db, w, retry))
<1> DEFINE k == worker[w].key
           r == [db EXCEPT !.entry[k] = Released(@, "PENDING")]
<1>1. CASE Holds(db, w)
  <2>1. db.entry[k].st = "PROCESSING" /\ db \in Tables
    BY <1>1 DEF Holds, Sound, SoundBut
  <2>2. SoundBut(r, {}) /\ Since(db, r)
    BY <2>1, ReleasedIsSound DEF Sound, Open
  <2>3. r.entry[k] = Released(db.entry[k], "PENDING") /\ r.entry[k].live = FALSE
    <3>1. db.entry[k] \in Entry /\ "PENDING" \in State /\ k \in Key
      BY <2>1, RowTypes DEF State
    <3>2. Released(db.entry[k], "PENDING").live = FALSE
      BY <3>1, ReleasedRow
    <3>3. r.entry[k] = Released(db.entry[k], "PENDING")
      BY <2>1, <3>1 DEF Tables
    <3> QED  BY <3>2, <3>3
  <2>4. Fail(db, w, retry) = [r EXCEPT !.entry[k].live = FALSE, !.entry[k].wait = retry]
    BY <1>1, <2>1, <2>3 DEF Fail, Tables, Entry, Released
  <2> HIDE DEF r
  <2>5. SoundBut([r EXCEPT !.entry[k].live = FALSE, !.entry[k].wait = retry], {})
        /\ Since(r, [r EXCEPT !.entry[k].live = FALSE, !.entry[k].wait = retry])
    BY <2>2, HoldChanges
  <2> QED  BY <2>1, <2>2, <2>4, <2>5, SinceTwice DEF Sound, SoundBut
<1>2. CASE ~Holds(db, w)
  BY <1>2, SinceItself DEF Fail, Sound, SoundBut
<1> QED  BY <1>1, <1>2

\* Another eligible source becomes the input; whichever it is, it is of this entry and this
\* generation.
LEMMA ReselectIsSound ==
    ASSUME NEW d, Sound(d), NEW k \in Key, NEW f \in Reselect(d, k)
    PROVE  Sound(f) /\ Since(d, f) /\ f.obs = d.obs
<1> DEFINE e == IF d.entry[k].st = "PROCESSING" /\ ~d.entry[k].live
                THEN Released(d.entry[k], "PENDING") ELSE d.entry[k]
           g == [d EXCEPT !.entry[k] = e]
           others == {p \in Sources(d, k) : Eligible(d, p)}
           n(p) == [g EXCEPT !.entry[k].input = p, !.entry[k].attempts = 0, !.entry[k].wait = FALSE]
<1>1. d \in Tables /\ d.entry[k] \in Entry /\ None \notin Worker
  BY IntakeConstants DEF Sound, SoundBut, Tables, Worker
<1>2. /\ e \in Entry /\ e.gen = d.entry[k].gen /\ e.removed = d.entry[k].removed /\ e.before = d.entry[k].before
      /\ e.work = d.entry[k].work /\ e.input = d.entry[k].input
      /\ e.st = d.entry[k].st \/ (e.st = "PENDING" /\ d.entry[k].st = "PROCESSING")
      /\ (e.st = "PROCESSING") = (e.owner # None) /\ (e.live => e.st = "PROCESSING")
  BY <1>1 DEF Entry, Released, Sound, SoundBut, Shaped, State
<1>3. d.entry[k].input # None => Known(d, d.entry[k].input)
  BY DEF Sound, SoundBut, Shaped
<1>4. /\ \/ f = g
         \/ \E p \in others : e.st = "PENDING" /\ f = n(p)
      /\ others \subseteq Sources(d, k)
  BY DEF Reselect
<1> HIDE DEF e, others
<1>5. SoundBut(g, {}) /\ Since(d, g)
  BY <1>2, <1>3, EntryMoves DEF Sound, Open
<1>6. g.obs = d.obs /\ g \in Tables /\ g.entry[k] = e
  BY <1>1, <1>2 DEF Tables
<1>7. CASE f = g
  BY <1>5, <1>6, <1>7 DEF Sound
<1>8. ASSUME NEW p \in others, e.st = "PENDING", f = n(p)
      PROVE  Sound(f) /\ Since(d, f) /\ f.obs = d.obs
  <2> DEFINE h == [e EXCEPT !.input = p, !.attempts = 0, !.wait = FALSE]
  <2>1. p \in Post /\ p # None /\ Known(g, p) /\ MaxAttempts \in Nat
    BY ZenonT(60), <1>4, <1>6, <1>8, IntakeConstants DEF Sources, Known, Key
  <2>2. /\ h \in Entry /\ h.gen = e.gen /\ h.removed = e.removed /\ h.before = e.before
        /\ h.work = e.work /\ h.input = p /\ h.st = e.st /\ h.owner = e.owner /\ h.live = e.live
    <3>1. 0 \in 0 .. MaxAttempts
      BY <2>1
    <3> QED  BY <1>2, <2>1, <3>1 DEF Entry
  <2> HIDE DEF g
  <2>3. f = [g EXCEPT !.entry[k] = h]
    BY <1>6, <1>8 DEF Tables, Entry
  <2> HIDE DEF h
  <2>4. SoundBut([g EXCEPT !.entry[k] = h], {}) /\ Since(g, [g EXCEPT !.entry[k] = h])
    BY <1>2, <1>5, <1>6, <2>1, <2>2, EntryMoves
  <2>5. [g EXCEPT !.entry[k] = h].obs = d.obs
    BY <1>6
  <2> QED  BY <1>1, <1>5, <1>6, <2>3, <2>4, <2>5, SinceTwice DEF Sound, SoundBut
<1> QED  BY <1>4, <1>7, <1>8

-----------------------------------------------------------------------------
(* A new observation. *)

\* The generation a new observation gets: begun, or the next one of a removed identity; an old post
\* stays behind.
LEMMA GenerationFits ==
    ASSUME NEW d, Sound(d), NEW p \in Post, NEW k \in Key, NEW edit \in BOOLEAN
    PROVE  LET g == Generation(d, p, k, edit)
               e == d.entry[k]
           IN  /\ g \in Nat
               /\ g <= e.gen \/ (e.st = "REMOVED" /\ g = e.gen + 1 /\ p[1] \notin e.before)
               /\ p[1] \in e.before /\ Unedited(d, p[1]) => e.st = "REMOVED" \/ g < e.gen
<1> DEFINE e == d.entry[k]
           new == ~edit /\ p[1] \in Direct /\ p[1] \notin e.before
           q == CHOOSE x \in SameMessage(d, p, k) : TRUE
           g == Generation(d, p, k, edit)
<1>1. d \in Tables /\ e \in Entry /\ e.gen \in Nat \ {0}
  BY DEF Sound, SoundBut, Tables, Entry
<1>2. /\ e.st = "REMOVED" => e.removed
      /\ e.removed /\ e.st # "REMOVED" => e.gen > 1
      /\ p[1] \in e.before => e.removed
  BY DEF Sound, SoundBut, Reborn
<1>3. g = CASE ~e.removed -> e.gen
            [] e.removed /\ SameMessage(d, p, k) # {} -> d.obs[q].gen
            [] OTHER -> IF e.st = "REMOVED" THEN (IF new THEN e.gen + 1 ELSE e.gen)
                        ELSE IF new THEN e.gen ELSE IF e.gen = 1 THEN 1 ELSE e.gen - 1
  BY DEF Generation
<1> HIDE DEF g
<1>4. CASE ~e.removed
  BY <1>1, <1>2, <1>3, <1>4 DEF g
<1>5. CASE e.removed /\ SameMessage(d, p, k) # {}
  <2>1. q \in Post /\ q[1] = p[1] /\ d.obs[q].on = k
    BY <1>5 DEF SameMessage
  <2> HIDE DEF q
  <2>2. Known(d, q) /\ d.obs[q].gen \in Nat
    BY <1>1, <2>1, IntakeConstants DEF Known, Key, Tables, Observation
  <2>3. d.obs[q].gen <= e.gen
    BY <2>1, <2>2 DEF Sound, SoundBut, Dated
  <2>4. p[1] \in e.before /\ Unedited(d, p[1]) => e.st = "REMOVED" \/ d.obs[q].gen < e.gen
    BY <2>1, <2>2 DEF Sound, SoundBut, Late
  <2>5. g = d.obs[q].gen
    BY <1>3, <1>5
  <2> QED  BY <2>2, <2>3, <2>4, <2>5 DEF g
<1>6. CASE e.removed /\ SameMessage(d, p, k) = {}
  <2>1. g = IF e.st = "REMOVED" THEN (IF new THEN e.gen + 1 ELSE e.gen)
            ELSE IF new THEN e.gen ELSE IF e.gen = 1 THEN 1 ELSE e.gen - 1
    BY <1>3, <1>6
  <2> QED  BY <1>1, <1>2, <1>6, <2>1 DEF g
<1> QED  BY <1>4, <1>5, <1>6

\* A first observation of a post, which may revive a removed entry or join a linked one.
LEMMA InsertIsSound ==
    ASSUME NEW d, Sound(d), NEW p \in Post, ~Known(d, p), NEW t \in Text, NEW edit \in BOOLEAN
    PROVE  /\ Sound(Insert(d, p, t, edit)) /\ Since(d, Insert(d, p, t, edit))
           /\ Insert(d, p, t, edit).obs[p].on = KeyOf(p, t)
<1> DEFINE k == KeyOf(p, t)
           g == Generation(d, p, k, edit)
           o == [on |-> k, gen |-> g, active |-> TRUE, ok |-> TRUE, text |-> t, rev |-> 1]
           e == IF d.entry[k].st = "REMOVED" /\ g > d.entry[k].gen
                THEN [d.entry[k] EXCEPT !.st = "PENDING", !.gen = g, !.input = None, !.attempts = 0]
                ELSE d.entry[k]
           h == IF e.input = None /\ g = e.gen THEN [e EXCEPT !.input = p] ELSE e
           f == [d EXCEPT !.obs[p] = o, !.entry[k] = h]
           r == [f EXCEPT !.link = @ \union {<<e.work, p>>}]
<1>1. d \in Tables /\ k \in Key /\ None \notin Post /\ None \notin Key /\ None \notin Work /\ MaxAttempts \in Nat
      /\ (k \in Gallery => t = k) /\ (k \in Message => k = p[1]) /\ p[1] \in Message
  BY IntakeConstants DEF Sound, SoundBut, KeyOf, Key
<1>2. d.entry[k] \in Entry /\ d.entry[k].gen \in Nat \ {0}
  BY <1>1 DEF Tables, Entry
<1>3. /\ g \in Nat
      /\ g <= d.entry[k].gen \/ (d.entry[k].st = "REMOVED" /\ g = d.entry[k].gen + 1 /\ p[1] \notin d.entry[k].before)
      /\ p[1] \in d.entry[k].before /\ Unedited(d, p[1]) => d.entry[k].st = "REMOVED" \/ g < d.entry[k].gen
  BY <1>1, GenerationFits
<1>4. Insert(d, p, t, edit) = IF e.st = "LINKED" /\ g = e.gen THEN r ELSE f
  BY DEF Insert
<1> HIDE DEF g, k
<1>5. o \in Observation
  BY <1>1, <1>3 DEF Observation, Text
<1>6. /\ h \in Entry
      /\ \/ h.gen = d.entry[k].gen /\ h.st = d.entry[k].st
         \/ d.entry[k].st = "REMOVED" /\ h.st = "PENDING" /\ h.gen = d.entry[k].gen + 1 /\ p[1] \notin h.before
      /\ h.removed = d.entry[k].removed /\ h.before = d.entry[k].before /\ h.work = d.entry[k].work
      /\ h.owner = d.entry[k].owner /\ h.live = d.entry[k].live
      /\ h.input \in {None, p, d.entry[k].input}
      /\ g <= h.gen /\ h.st = e.st /\ h.gen = e.gen /\ h.work = e.work /\ h.gen \in Nat \ {0}
  <2>1. 0 \in 0 .. MaxAttempts
    BY <1>1
  <2>2. /\ e \in Entry
        /\ \/ e.gen = d.entry[k].gen /\ e.st = d.entry[k].st
           \/ d.entry[k].st = "REMOVED" /\ e.st = "PENDING" /\ e.gen = d.entry[k].gen + 1 /\ p[1] \notin e.before
        /\ e.removed = d.entry[k].removed /\ e.before = d.entry[k].before /\ e.work = d.entry[k].work
        /\ e.owner = d.entry[k].owner /\ e.live = d.entry[k].live
        /\ e.input \in {None, d.entry[k].input} /\ g <= e.gen /\ e.gen \in Nat \ {0}
    <3>1. CASE d.entry[k].st = "REMOVED" /\ g > d.entry[k].gen
      <4>1. e = [d.entry[k] EXCEPT !.st = "PENDING", !.gen = g, !.input = None, !.attempts = 0]
        BY <3>1
      <4>2. g = d.entry[k].gen + 1 /\ g \in Nat \ {0} /\ p[1] \notin d.entry[k].before
        BY <1>2, <1>3, <3>1
      <4>3. "PENDING" \in State
        BY DEF State
      <4> HIDE DEF e
      <4>4. /\ e \in Entry /\ e.st = "PENDING" /\ e.gen = g /\ e.input = None
            /\ e.removed = d.entry[k].removed /\ e.before = d.entry[k].before /\ e.work = d.entry[k].work
            /\ e.owner = d.entry[k].owner /\ e.live = d.entry[k].live
        BY <1>2, <2>1, <4>1, <4>2, <4>3 DEF Entry
      <4> QED  BY <3>1, <4>2, <4>4
    <3>2. CASE ~(d.entry[k].st = "REMOVED" /\ g > d.entry[k].gen)
      <4>1. e = d.entry[k]
        BY <3>2
      <4>2. g <= d.entry[k].gen
        BY <1>2, <1>3, <3>2
      <4> QED  BY <1>2, <4>1, <4>2
    <3> QED  BY <3>1, <3>2
  <2> HIDE DEF e
  <2>3. CASE h = e
    BY <2>2, <2>3
  <2>4. CASE h = [e EXCEPT !.input = p]
    <3> HIDE DEF h
    <3> QED  BY <2>2, <2>4 DEF Entry
  <2> QED  BY <2>3, <2>4
<1> HIDE DEF h, o
<1>7. /\ f.obs = [d.obs EXCEPT ![p] = o] /\ f.work = d.work /\ f.change = d.change /\ f.link = d.link
      /\ f.entry = [d.entry EXCEPT ![k] = h] /\ f \in Tables
  BY <1>1, <1>5, <1>6 DEF Tables
<1> HIDE DEF f
<1>8. /\ \A i \in Key : f.entry[i] = IF i = k THEN h ELSE d.entry[i]
      /\ \A i \in Post : f.obs[i] = IF i = p THEN o ELSE d.obs[i]
      /\ o.on = k /\ o.gen = g /\ o.active /\ o.text = t /\ o.rev = 1
  BY <1>1, <1>7 DEF Tables, o
<1>9. /\ \A i \in Post : Known(d, i) => i # p /\ d.obs[i].on \in Key
      /\ \A i \in Post : Known(f, i) <=> (i = p \/ Known(d, i))
  BY <1>1, <1>8 DEF Known, Tables, Observation
<1>10. /\ (d.entry[k].st = "PROCESSING") = (d.entry[k].owner # None) /\ (d.entry[k].live => d.entry[k].st = "PROCESSING")
       /\ d.entry[k].work # None => d.entry[k].st \in {"LINKED", "MERGED"}
  BY <1>1 DEF Sound, SoundBut, Shaped
<1>11. Shaped(f)
  <2>1. \A i \in Key : f.entry[i].input # None => Known(f, f.entry[i].input)
    <3>1. \A i \in Key : d.entry[i].input \in Post \union {None} /\ (d.entry[i].input # None => Known(d, d.entry[i].input))
      BY <1>1 DEF Sound, SoundBut, Shaped, Tables, Entry
    <3> QED  BY <1>1, <1>6, <1>8, <1>9, <3>1
  <2> SUFFICES ASSUME NEW i \in Key
               PROVE  /\ (f.entry[i].st = "PROCESSING") = (f.entry[i].owner # None)
                      /\ f.entry[i].live => f.entry[i].st = "PROCESSING"
                      /\ f.entry[i].work # None => f.entry[i].st \in {"LINKED", "MERGED"} /\ d.work[f.entry[i].work].is
                      /\ f.entry[i].st = "LINKED" => f.entry[i].work # None
                      /\ f.entry[i].st = "MERGED" /\ f.entry[i].work # None => d.work[f.entry[i].work].gid # None
                      /\ f.entry[i].st = "LINKED" /\ i \in Gallery => d.work[f.entry[i].work].gid = i
    BY <1>7, <2>1 DEF Shaped
  <2>2. /\ f.entry[i].work = d.entry[i].work /\ f.entry[i].owner = d.entry[i].owner /\ f.entry[i].live = d.entry[i].live
        /\ \/ f.entry[i].st = d.entry[i].st
           \/ f.entry[i].st = "PENDING" /\ d.entry[i].st = "REMOVED"
    BY <1>1, <1>6, <1>8
  <2>3. /\ (d.entry[i].st = "PROCESSING") = (d.entry[i].owner # None)
        /\ d.entry[i].live => d.entry[i].st = "PROCESSING"
        /\ d.entry[i].work # None => d.entry[i].st \in {"LINKED", "MERGED"} /\ d.work[d.entry[i].work].is
        /\ d.entry[i].st = "LINKED" => d.entry[i].work # None
        /\ d.entry[i].st = "MERGED" /\ d.entry[i].work # None => d.work[d.entry[i].work].gid # None
        /\ d.entry[i].st = "LINKED" /\ i \in Gallery => d.work[d.entry[i].work].gid = i
    BY DEF Sound, SoundBut, Shaped
  <2> QED  BY <2>2, <2>3
<1>12. Reborn(f)
  BY <1>2, <1>6, <1>8 DEF Sound, SoundBut, Reborn
<1>13. Dated(f)
  <2> SUFFICES ASSUME NEW i \in Post
               PROVE  /\ Known(f, i) => /\ f.obs[i].gen <= f.entry[f.obs[i].on].gen
                                        /\ f.obs[i].rev > 0
                                        /\ f.obs[i].on \in Message => f.obs[i].on = i[1]
                      /\ ~Known(f, i) => f.obs[i].rev = 0
    BY DEF Dated
  <2>1. CASE i = p
    BY <1>1, <1>6, <1>8, <1>9, <2>1
  <2>2. CASE i # p
    <3>1. /\ Known(d, i) => /\ d.obs[i].gen <= d.entry[d.obs[i].on].gen /\ d.obs[i].rev > 0 /\ d.obs[i].on \in Key
                            /\ d.obs[i].on \in Message => d.obs[i].on = i[1]
          /\ ~Known(d, i) => d.obs[i].rev = 0
          /\ d.obs[i].gen \in Nat
      BY <1>1, <1>9 DEF Sound, SoundBut, Dated, Tables, Observation
    <3> QED  BY <1>2, <1>6, <1>8, <1>9, <2>2, <3>1
  <2> QED  BY <2>1, <2>2
<1>14. Named(f, {})
  <2> SUFFICES ASSUME NEW i \in Post, Known(f, i), f.obs[i].on \in Gallery,
                      f.obs[i].gen = f.entry[f.obs[i].on].gen, f.entry[f.obs[i].on].st \notin {"LINKED", "REMOVED"}
               PROVE  f.obs[i].text = f.obs[i].on
    BY DEF Named
  <2>1. CASE i = p
    BY <1>1, <1>8, <2>1
  <2>2. CASE i # p
    <3>1. Known(d, i) /\ d.obs[i].gen <= d.entry[d.obs[i].on].gen /\ d.obs[i].on \in Key /\ d.obs[i].gen \in Nat
      BY <1>1, <1>9, <2>2 DEF Sound, SoundBut, Dated, Tables, Observation
    <3>2. d.obs[i].gen = d.entry[d.obs[i].on].gen /\ d.entry[d.obs[i].on].st \notin {"LINKED", "REMOVED"}
      BY <1>2, <1>6, <1>8, <2>2, <3>1
    <3> QED  BY <1>8, <2>2, <3>1, <3>2 DEF Sound, SoundBut, Named
  <2> QED  BY <2>1, <2>2
<1>15. Unique(f)
  BY <1>7 DEF Sound, SoundBut, Unique
<1>16. Linked(f)
  <2> SUFFICES ASSUME NEW l \in d.link
               PROVE  /\ Known(f, l[2]) /\ d.work[l[1]].is /\ f.obs[l[2]].active
                      /\ f.entry[f.obs[l[2]].on].st = "LINKED" /\ f.entry[f.obs[l[2]].on].work = l[1]
                      /\ f.entry[f.obs[l[2]].on].gen = f.obs[l[2]].gen
    BY <1>7 DEF Linked
  <2>1. /\ Known(d, l[2]) /\ d.work[l[1]].is /\ d.obs[l[2]].active
        /\ d.entry[d.obs[l[2]].on].st = "LINKED" /\ d.entry[d.obs[l[2]].on].work = l[1]
        /\ d.entry[d.obs[l[2]].on].gen = d.obs[l[2]].gen
    BY DEF Sound, SoundBut, Linked
  <2>2. l[2] \in Post
    BY <1>1, RowTypes
  <2>3. Known(f, l[2]) /\ f.obs[l[2]] = d.obs[l[2]] /\ d.obs[l[2]].on \in Key
    BY <1>8, <1>9, <2>1, <2>2
  <2>4. CASE d.obs[l[2]].on = k
    BY <1>1, <1>6, <1>8, <2>1, <2>3, <2>4
  <2>5. CASE d.obs[l[2]].on # k
    BY <1>8, <2>1, <2>3, <2>5
  <2> QED  BY <2>4, <2>5
<1>17. \A i \in Key \ {k} : f.entry[i].st = "LINKED" =>
          \A x \in Sources(f, i) : <<f.entry[i].work, x>> \in f.link
  BY <1>7, <1>8 DEF Sound, SoundBut, Kept, Sources
<1>18. Unedited(f, p[1]) => Unedited(d, p[1])
  BY <1>8, <1>1 DEF Unedited, Sound, SoundBut, Dated
<1>19. Late(f, {})
  <2> SUFFICES ASSUME NEW i \in Post, Known(f, i), Unedited(f, i[1]), i[1] \in f.entry[f.obs[i].on].before
               PROVE  f.entry[f.obs[i].on].st = "REMOVED" \/ f.obs[i].gen < f.entry[f.obs[i].on].gen
    BY DEF Late
  <2>1. CASE i = p
    BY <1>1, <1>2, <1>3, <1>6, <1>8, <1>18, <2>1
  <2>2. CASE i # p
    <3>1. /\ Known(d, i) /\ d.obs[i].on \in Key /\ d.obs[i].gen \in Nat /\ d.obs[i].gen <= d.entry[d.obs[i].on].gen
      BY <1>1, <1>9, <2>2 DEF Sound, SoundBut, Dated, Tables, Observation
    <3>2. Unedited(d, i[1])
      BY <1>1, <1>8, <1>18 DEF Unedited, Sound, SoundBut, Dated
    <3>3. d.entry[d.obs[i].on].st = "REMOVED" \/ d.obs[i].gen < d.entry[d.obs[i].on].gen
      <4>1. i[1] \in d.entry[d.obs[i].on].before
        BY <1>6, <1>8, <2>2, <3>1
      <4>2. Late(d, {})
        BY DEF Sound, SoundBut
      <4> QED  BY ONLY <3>1, <3>2, <4>1, <4>2 DEF Late
    <3> QED  BY <1>2, <1>6, <1>8, <2>2, <3>1, <3>3
  <2> QED  BY <2>1, <2>2
<1>20. Since(d, f)
  BY <1>1, <1>8, <1>9 DEF Since, Tables, Observation
<1>21. f.obs[p].on = KeyOf(p, t)
  BY <1>8 DEF k
<1>22. CASE e.st = "LINKED" /\ g = e.gen
  <2>1. h.st = "LINKED" /\ h.gen = g
    BY <1>6, <1>22
  <2>2. d.entry[k].st = "LINKED" /\ h.st = d.entry[k].st /\ h.gen = d.entry[k].gen
    BY <1>6, <2>1
  <2>3. {<<h.work, x>> : x \in Sources(f, k)} \subseteq f.link \union {<<e.work, p>>}
    <3>1. h.work = e.work /\ h.work = d.entry[k].work
      BY <1>6
    <3>2. \A x \in Sources(f, k) : x = p \/ x \in Sources(d, k)
      BY <1>1, <1>8, <2>2 DEF Sources
    <3>3. \A x \in Sources(d, k) : <<d.entry[k].work, x>> \in d.link
      BY <1>1, <2>2 DEF Sound, SoundBut, Kept
    <3> QED  BY <1>7, <3>1, <3>2, <3>3
  <2>4. p \in Sources(f, k)
    BY <1>1, <1>8, <2>1 DEF Sources, o
  <2>5. r = LinkSources(f, k)
    <3>1. f.entry[k].work = e.work /\ f.entry[k].work = h.work
      BY <1>1, <1>6, <1>8
    <3>2. f.link \union {<<f.entry[k].work, x>> : x \in Sources(f, k)} = f.link \union {<<e.work, p>>}
      BY <2>3, <2>4, <3>1
    <3> HIDE DEF e
    <3> QED  BY <3>2 DEF LinkSources
  <2>6. f.entry[k].st = "LINKED"
    BY <1>1, <1>8, <2>1
  <2>7. Sound(LinkSources(f, k)) /\ Since(f, LinkSources(f, k))
    BY <1>1, <1>7, <1>11, <1>12, <1>13, <1>14, <1>15, <1>16, <1>17, <1>19, <2>6, TakeLinks
  <2>8. Since(d, LinkSources(f, k))
    BY <1>1, <1>7, <1>20, <2>7, SinceTwice DEF Sound, SoundBut
  <2>9. LinkSources(f, k).obs = f.obs
    BY <1>7 DEF LinkSources, Tables
  <2> QED  BY <1>4, <1>21, <1>22, <2>5, <2>7, <2>8, <2>9
<1>23. CASE ~(e.st = "LINKED" /\ g = e.gen)
  <2>1. Kept(f, {})
    <3> SUFFICES ASSUME NEW i \in Key, f.entry[i].st = "LINKED", NEW x \in Sources(f, i)
                 PROVE  <<f.entry[i].work, x>> \in f.link
      BY DEF Kept
    <3>1. CASE i # k
      BY <1>17, <3>1
    <3>2. CASE i = k
      <4>1. h.st = "LINKED" /\ h.gen # g
        BY <1>1, <1>6, <1>8, <1>23, <3>2
      <4>2. x # p /\ x \in Sources(d, k)
        BY <1>1, <1>6, <1>8, <3>2, <4>1 DEF Sources
      <4> QED  BY <1>1, <1>6, <1>7, <1>8, <3>2, <4>1, <4>2 DEF Sound, SoundBut, Kept
    <3> QED  BY <3>1, <3>2
  <2> QED
    BY <1>4, <1>7, <1>11, <1>12, <1>13, <1>14, <1>15, <1>16, <1>19, <1>20, <1>21, <1>23, <2>1 DEF Sound, SoundBut
<1> QED  BY <1>22, <1>23

-----------------------------------------------------------------------------
(* Edits. *)

\* The text of p is replaced; p was the only post that did not yet fit its entry.
LEMMA RewriteIsSound ==
    ASSUME NEW d, NEW p \in Post, SoundBut(d, {p}), Known(d, p), NEW t \in Text \union {None},
           KeyOf(p, t) = d.obs[p].on
    PROVE  Sound(Rewrite(d, p, t)) /\ Since(d, Rewrite(d, p, t))
<1> DEFINE k == d.obs[p].on
           e == d.entry[k]
           o == [d.obs[p] EXCEPT !.text = t, !.rev = d.obs[p].rev + 1, !.active = TRUE, !.ok = TRUE]
           h == IF e.st \in {"IGNORED", "BLOCKED"}
                THEN [e EXCEPT !.st = "PENDING", !.attempts = 0, !.wait = FALSE, !.input = p]
                ELSE IF e.input = None THEN [e EXCEPT !.input = p] ELSE e
           f == [d EXCEPT !.obs[p] = o, !.entry[k] = h]
<1>1. d \in Tables /\ k \in Key /\ None \notin Post /\ None \notin Key /\ MaxAttempts \in Nat
      /\ (k \in Gallery => t = k) /\ p[1] \in Message
  BY IntakeConstants DEF SoundBut, Tables, Observation, Known, KeyOf, Key
<1>2. e \in Entry /\ e.gen \in Nat \ {0} /\ d.obs[p] \in Observation /\ d.obs[p].rev \in Nat \ {0}
  BY <1>1 DEF Tables, Entry, Observation, SoundBut, Dated
<1>3. Rewrite(d, p, t) = IF e.st = "LINKED" THEN LinkSources(f, k) ELSE f
  BY DEF Rewrite
<1>4. /\ o \in Observation /\ o.on = k /\ o.gen = d.obs[p].gen /\ o.active /\ o.text = t
      /\ o.rev = d.obs[p].rev + 1
  <2>1. d.obs[p].rev + 1 \in Nat
    BY <1>2
  <2> QED  BY <1>2, <2>1 DEF Observation
<1>5. /\ h \in Entry /\ h.gen = e.gen /\ h.removed = e.removed /\ h.before = e.before /\ h.work = e.work
      /\ h.owner = e.owner /\ h.live = e.live /\ h.input \in {p, e.input} /\ h.gen \in Nat \ {0}
      /\ h.st = e.st \/ (h.st = "PENDING" /\ e.st \in {"IGNORED", "BLOCKED"})
  <2>1. 0 \in 0 .. MaxAttempts /\ "PENDING" \in State
    BY <1>1 DEF State
  <2>2. CASE e.st \in {"IGNORED", "BLOCKED"}
    <3>1. h = [e EXCEPT !.st = "PENDING", !.attempts = 0, !.wait = FALSE, !.input = p]
      BY <2>2
    <3> HIDE DEF h, e
    <3> QED  BY <1>2, <2>1, <2>2, <3>1 DEF Entry
  <2>3. CASE e.st \notin {"IGNORED", "BLOCKED"} /\ e.input = None
    <3>1. h = [e EXCEPT !.input = p]
      BY <2>3
    <3> HIDE DEF h, e
    <3> QED  BY <1>2, <3>1 DEF Entry
  <2>4. CASE e.st \notin {"IGNORED", "BLOCKED"} /\ e.input # None
    <3>1. h = e
      BY <2>4
    <3> HIDE DEF h, e
    <3> QED  BY <1>2, <3>1
  <2> QED  BY <2>2, <2>3, <2>4
<1> HIDE DEF h, o
<1>6. /\ f.obs = [d.obs EXCEPT ![p] = o] /\ f.work = d.work /\ f.change = d.change /\ f.link = d.link
      /\ f.entry = [d.entry EXCEPT ![k] = h] /\ f \in Tables
  BY <1>1, <1>4, <1>5 DEF Tables
<1> HIDE DEF f
<1>7. /\ \A i \in Key : f.entry[i] = IF i = k THEN h ELSE d.entry[i]
      /\ \A i \in Post : f.obs[i] = IF i = p THEN o ELSE d.obs[i]
  BY <1>1, <1>6 DEF Tables
<1>8. /\ \A i \in Post : Known(d, i) => d.obs[i].on \in Key
      /\ \A i \in Post : Known(f, i) <=> Known(d, i)
  BY <1>1, <1>4, <1>7 DEF Known, Tables, Observation
<1>9. /\ (e.st = "PROCESSING") = (e.owner # None) /\ (e.live => e.st = "PROCESSING")
      /\ e.work # None => e.st \in {"LINKED", "MERGED"}
  BY <1>1 DEF SoundBut, Shaped
<1>10. Shaped(f)
  <2>1. \A i \in Key : f.entry[i].input # None => Known(f, f.entry[i].input)
    <3>1. \A i \in Key : d.entry[i].input \in Post \union {None} /\ (d.entry[i].input # None => Known(d, d.entry[i].input))
      BY <1>1 DEF SoundBut, Shaped, Tables, Entry
    <3> QED  BY <1>1, <1>5, <1>7, <1>8, <3>1
  <2> SUFFICES ASSUME NEW i \in Key
               PROVE  /\ (f.entry[i].st = "PROCESSING") = (f.entry[i].owner # None)
                      /\ f.entry[i].live => f.entry[i].st = "PROCESSING"
                      /\ f.entry[i].work # None => f.entry[i].st \in {"LINKED", "MERGED"} /\ f.work[f.entry[i].work].is
                      /\ f.entry[i].st = "LINKED" => f.entry[i].work # None
                      /\ f.entry[i].st = "MERGED" /\ f.entry[i].work # None => f.work[f.entry[i].work].gid # None
                      /\ f.entry[i].st = "LINKED" /\ i \in Gallery => f.work[f.entry[i].work].gid = i
    BY <2>1 DEF Shaped
  <2>2. /\ f.entry[i].work = d.entry[i].work /\ f.entry[i].owner = d.entry[i].owner /\ f.entry[i].live = d.entry[i].live
        /\ \/ f.entry[i].st = d.entry[i].st
           \/ f.entry[i].st = "PENDING" /\ d.entry[i].st \in {"IGNORED", "BLOCKED"}
    BY <1>1, <1>5, <1>7
  <2>3. /\ (d.entry[i].st = "PROCESSING") = (d.entry[i].owner # None)
        /\ d.entry[i].live => d.entry[i].st = "PROCESSING"
        /\ d.entry[i].work # None => d.entry[i].st \in {"LINKED", "MERGED"} /\ d.work[d.entry[i].work].is
        /\ d.entry[i].st = "LINKED" => d.entry[i].work # None
        /\ d.entry[i].st = "MERGED" /\ d.entry[i].work # None => d.work[d.entry[i].work].gid # None
        /\ d.entry[i].st = "LINKED" /\ i \in Gallery => d.work[d.entry[i].work].gid = i
    BY DEF SoundBut, Shaped
  <2> QED  BY <1>6, <2>2, <2>3
<1>11. Reborn(f)
  <2> SUFFICES ASSUME NEW i \in Key
               PROVE  /\ f.entry[i].st = "REMOVED" => f.entry[i].removed
                      /\ f.entry[i].removed /\ f.entry[i].st # "REMOVED" => f.entry[i].gen > 1
                      /\ f.entry[i].before # {} => f.entry[i].removed
    BY DEF Reborn
  <2>1. /\ d.entry[i].st = "REMOVED" => d.entry[i].removed
        /\ d.entry[i].removed /\ d.entry[i].st # "REMOVED" => d.entry[i].gen > 1
        /\ d.entry[i].before # {} => d.entry[i].removed
    BY DEF SoundBut, Reborn
  <2>2. /\ f.entry[i].removed = d.entry[i].removed /\ f.entry[i].before = d.entry[i].before
        /\ f.entry[i].gen = d.entry[i].gen
        /\ \/ f.entry[i].st = d.entry[i].st
           \/ f.entry[i].st = "PENDING" /\ d.entry[i].st \in {"IGNORED", "BLOCKED"}
    BY <1>1, <1>5, <1>7
  <2> QED  BY ONLY <2>1, <2>2
<1>12. Dated(f)
  <2>1. \A i \in Key : f.entry[i].gen = d.entry[i].gen
    BY <1>1, <1>5, <1>7
  <2>2. \A i \in Post : /\ f.obs[i].on = d.obs[i].on /\ f.obs[i].gen = d.obs[i].gen
                        /\ d.obs[i].rev > 0 => f.obs[i].rev > 0
                        /\ i # p => f.obs[i].rev = d.obs[i].rev
    BY <1>2, <1>4, <1>7
  <2> QED  BY <1>8, <2>1, <2>2 DEF SoundBut, Dated
<1>13. Named(f, {})
  <2> SUFFICES ASSUME NEW i \in Post, Known(f, i), f.obs[i].on \in Gallery,
                      f.obs[i].gen = f.entry[f.obs[i].on].gen, f.entry[f.obs[i].on].st \notin {"LINKED", "REMOVED"}
               PROVE  f.obs[i].text = f.obs[i].on
    BY DEF Named
  <2>1. CASE i = p
    BY <1>1, <1>4, <1>7, <2>1
  <2>2. CASE i # p
    <3>1. Known(d, i) /\ d.obs[i].on \in Key /\ f.obs[i] = d.obs[i]
      BY <1>7, <1>8, <2>2
    <3>2. d.obs[i].gen = d.entry[d.obs[i].on].gen /\ d.entry[d.obs[i].on].st \notin {"LINKED", "REMOVED"}
      BY <1>5, <1>7, <3>1
    <3> QED  BY <2>2, <3>1, <3>2 DEF SoundBut, Named
  <2> QED  BY <2>1, <2>2
<1>14. Unique(f)
  BY <1>6 DEF SoundBut, Unique
<1>15. Linked(f)
  <2> SUFFICES ASSUME NEW l \in d.link
               PROVE  /\ Known(f, l[2]) /\ d.work[l[1]].is /\ f.obs[l[2]].active
                      /\ f.entry[f.obs[l[2]].on].st = "LINKED" /\ f.entry[f.obs[l[2]].on].work = l[1]
                      /\ f.entry[f.obs[l[2]].on].gen = f.obs[l[2]].gen
    BY <1>6 DEF Linked
  <2>1. /\ Known(d, l[2]) /\ d.work[l[1]].is /\ d.obs[l[2]].active
        /\ d.entry[d.obs[l[2]].on].st = "LINKED" /\ d.entry[d.obs[l[2]].on].work = l[1]
        /\ d.entry[d.obs[l[2]].on].gen = d.obs[l[2]].gen
    BY DEF SoundBut, Linked
  <2>2. l[2] \in Post
    BY <1>1, RowTypes
  <2>3. /\ Known(f, l[2]) /\ d.obs[l[2]].on \in Key
        /\ f.obs[l[2]].on = d.obs[l[2]].on /\ f.obs[l[2]].gen = d.obs[l[2]].gen /\ f.obs[l[2]].active
    BY <1>4, <1>7, <1>8, <2>1, <2>2
  <2>4. CASE d.obs[l[2]].on = k
    <3>1. f.entry[d.obs[l[2]].on] = h
      BY <1>1, <1>7, <2>4
    <3>2. h.st = "LINKED" /\ h.work = l[1] /\ h.gen = d.obs[l[2]].gen
      BY <1>5, <2>1, <2>4
    <3> QED  BY ONLY <2>1, <2>3, <3>1, <3>2
  <2>5. CASE d.obs[l[2]].on # k
    BY <1>7, <2>1, <2>3, <2>5
  <2> QED  BY <2>4, <2>5
<1>16. \A i \in Key \ {k} : f.entry[i].st = "LINKED" =>
          \A x \in Sources(f, i) : <<f.entry[i].work, x>> \in f.link
  BY <1>1, <1>4, <1>6, <1>7 DEF SoundBut, Kept, Sources
<1>17. Late(f, {})
  <2> SUFFICES ASSUME NEW i \in Post, Known(f, i), Unedited(f, i[1]), i[1] \in f.entry[f.obs[i].on].before
               PROVE  f.entry[f.obs[i].on].st = "REMOVED" \/ f.obs[i].gen < f.entry[f.obs[i].on].gen
    BY DEF Late
  <2>1. i[1] # p[1]
    BY <1>2, <1>4, <1>7 DEF Unedited
  <2>2. Unedited(d, i[1]) /\ f.obs[i] = d.obs[i]
    BY <1>7, <2>1 DEF Unedited
  <2>3. Known(d, i) /\ d.obs[i].on \in Key
    BY <1>8
  <2>4. d.entry[d.obs[i].on].st = "REMOVED" \/ d.obs[i].gen < d.entry[d.obs[i].on].gen
    <3>1. i[1] \in d.entry[d.obs[i].on].before
      BY <1>5, <1>7, <2>2, <2>3
    <3>2. \A x \in {p} : x[1] # i[1]
      BY <2>1
    <3>3. Late(d, {p})
      BY DEF SoundBut
    <3> QED  BY ONLY <2>2, <2>3, <3>1, <3>2, <3>3 DEF Late
  <2>5. /\ f.entry[d.obs[i].on].gen = d.entry[d.obs[i].on].gen
        /\ d.entry[d.obs[i].on].st = "REMOVED" => f.entry[d.obs[i].on].st = "REMOVED"
    BY <1>5, <1>7, <2>3
  <2> QED  BY ONLY <2>2, <2>4, <2>5
<1>18. Since(d, f)
  BY <1>1, <1>2, <1>4, <1>7, <1>8 DEF Since, Tables, Observation
<1>19. CASE e.st = "LINKED"
  <2>1. f.entry[k].st = "LINKED"
    BY <1>1, <1>5, <1>7, <1>19
  <2>2. Sound(LinkSources(f, k)) /\ Since(f, LinkSources(f, k))
    BY <1>1, <1>6, <1>10, <1>11, <1>12, <1>13, <1>14, <1>15, <1>16, <1>17, <2>1, TakeLinks
  <2> QED
    BY <1>1, <1>3, <1>6, <1>18, <1>19, <2>2, SinceTwice DEF Sound, SoundBut
<1>20. CASE e.st # "LINKED"
  <2>1. Kept(f, {})
    BY <1>1, <1>5, <1>7, <1>16, <1>20 DEF Kept
  <2> QED
    BY <1>3, <1>6, <1>10, <1>11, <1>12, <1>13, <1>14, <1>15, <1>17, <1>18, <1>20, <2>1 DEF Sound, SoundBut
<1> QED  BY <1>19, <1>20

\* A work without sources goes, or nothing happens; the observations stay in both cases.
LEMMA DeleteUnusedIsSound ==
    ASSUME NEW d, NEW X \in SUBSET Post, SoundBut(d, X), NEW cs \in SUBSET Work, written \subseteq Message
    PROVE  /\ SoundBut(DeleteUnused(d, cs), X) /\ DeleteUnused(d, cs).obs = d.obs
           /\ DeleteUnused(d, cs) = d \/ \E c \in cs : DeleteUnused(d, cs) = Delete(d, c)
<1> DEFINE unused == {c \in cs : /\ d.work[c].is /\ d.work[c].run = "none"
                                 /\ \A l \in d.link : l[1] # c}
           c == CHOOSE x \in unused : TRUE
<1>1. DeleteUnused(d, cs) = IF unused = {} THEN d ELSE Delete(d, c)
  BY DEF DeleteUnused
<1>2. unused # {} => c \in cs /\ c \in Work
  BY DEF unused
<1> HIDE DEF unused, c
<1> QED  BY <1>1, <1>2, DeleteIsSound

(* The observation p leaves its identity for k; what remains is to rewrite it. *)
LEMMA MoveIsSound ==
    ASSUME NEW d, Sound(d), NEW p \in Post, Known(d, p), NEW k \in Key, k \in Message => k = p[1],
           written \subseteq Message
    PROVE  /\ SoundBut(Move(d, p, k), {p}) /\ Since(d, Move(d, p, k))
           /\ Known(Move(d, p, k), p) /\ Move(d, p, k).obs[p].on = k
<1> DEFINE o == [d.obs[p] EXCEPT !.on = k, !.gen = d.entry[k].gen]
           f == [d EXCEPT !.link = {l \in @ : l[2] # p}, !.obs[p] = o]
           c == d.entry[d.obs[p].on].work
<1>1. d \in Tables /\ None \notin Post /\ None \notin Key /\ None \notin Work
      /\ d.obs[p].on \in Key /\ d.obs[p] \in Observation
  BY IntakeConstants DEF Sound, SoundBut, Tables, Observation, Known, Key
<1>2. d.entry[k].gen \in Nat \ {0} /\ c \in Work \union {None}
  BY <1>1 DEF Tables, Entry
<1>3. Move(d, p, k) = DeleteUnused(f, {c} \ {None})
  BY <1>1 DEF Move, Tables, Observation
<1>4. /\ o \in Observation /\ o.on = k /\ o.gen = d.entry[k].gen /\ o.rev = d.obs[p].rev /\ o.text = d.obs[p].text
  BY <1>1, <1>2 DEF Observation
<1> HIDE DEF o
<1>5. /\ f.obs = [d.obs EXCEPT ![p] = o] /\ f.work = d.work /\ f.change = d.change /\ f.entry = d.entry
      /\ f.link = {l \in d.link : l[2] # p} /\ f \in Tables
  BY <1>1, <1>4 DEF Tables
<1> HIDE DEF f, c
<1>6. \A i \in Post : f.obs[i] = IF i = p THEN o ELSE d.obs[i]
  BY <1>1, <1>5 DEF Tables
<1>7. /\ \A i \in Post : Known(d, i) => d.obs[i].on \in Key
      /\ \A i \in Post : Known(f, i) <=> Known(d, i)
  BY <1>1, <1>4, <1>6 DEF Known, Tables, Observation
<1>8. Shaped(f)
  <2>1. \A i \in Key : d.entry[i].input \in Post \union {None}
    BY <1>1 DEF Tables, Entry
  <2> QED  BY <1>5, <1>7, <2>1 DEF Sound, SoundBut, Shaped
<1>9. Reborn(f) /\ Unique(f)
  BY <1>5 DEF Sound, SoundBut, Reborn, Unique
<1>10. Dated(f)
  BY <1>1, <1>2, <1>4, <1>5, <1>6, <1>7 DEF Sound, SoundBut, Dated
<1>11. Named(f, {p})
  BY <1>5, <1>6, <1>7 DEF Sound, SoundBut, Named
<1>12. Linked(f)
  BY <1>5, <1>6, <1>7 DEF Sound, SoundBut, Linked, Tables
<1>13. Kept(f, {p})
  <2> SUFFICES ASSUME NEW i \in Key, f.entry[i].st = "LINKED", f.obs[p].on # i, NEW x \in Sources(f, i)
               PROVE  <<f.entry[i].work, x>> \in f.link
    BY DEF Kept
  <2>1. x # p /\ x \in Sources(d, i)
    BY <1>5, <1>6 DEF Sources
  <2> QED  BY <1>5, <2>1 DEF Sound, SoundBut, Kept
<1>14. Late(f, {p})
  BY <1>5, <1>6, <1>7, <1>4 DEF Sound, SoundBut, Late, Unedited
<1>15. Since(d, f)
  BY <1>1, <1>4, <1>6, <1>7 DEF Since, Tables, Observation
<1>16. SoundBut(f, {p})
  BY <1>5, <1>8, <1>9, <1>10, <1>11, <1>12, <1>13, <1>14 DEF SoundBut
<1>17. SoundBut(Move(d, p, k), {p}) /\ Move(d, p, k).obs = f.obs
  BY <1>2, <1>3, <1>16, DeleteUnusedIsSound
<1> QED
  BY <1>1, <1>4, <1>6, <1>15, <1>17 DEF Since, Known

(* Two works turn out to be one; the one that goes has no gallery. *)
LEMMA MergeIsSound ==
    ASSUME NEW d, Sound(d), NEW c \in Work, NEW x \in Work, d.work[c].is, d.work[x].is, d.work[c].gid = None
    PROVE  LET f == MergeInto(d, c, x)
           IN  /\ Sound(f) /\ f.obs = d.obs
               /\ \A i \in Key : /\ f.entry[i].st = d.entry[i].st /\ f.entry[i].gen = d.entry[i].gen
                                 /\ f.entry[i].work = IF d.entry[i].work = c THEN x ELSE d.entry[i].work
               /\ \A b \in Work : f.work[b].is <=> (d.work[b].is /\ (b # c \/ c = x))
               /\ \A b \in Work : f.work[b].is => f.work[b].gid = d.work[b].gid
<1> DEFINE f == MergeInto(d, c, x)
           e(i) == IF d.entry[i].work = c THEN [d.entry[i] EXCEPT !.work = x] ELSE d.entry[i]
           n(i) == IF d.change[i].st = "PENDING" /\ d.change[i].work = c
                   THEN [d.change[i] EXCEPT !.work = x] ELSE d.change[i]
           r == [d.work[x] EXCEPT !.run = IF d.work[x].run = "none" THEN d.work[c].run ELSE d.work[x].run]
<1>1. d \in Tables /\ None \notin Work
  BY IntakeConstants DEF Sound, SoundBut
<1>2. CASE c = x
  <2>1. f = d
    BY <1>2 DEF MergeInto
  <2>2. \A i \in Key : d.entry[i].work = IF d.entry[i].work = c THEN x ELSE d.entry[i].work
    BY <1>2
  <2>3. \A b \in Work : d.work[b].is \in BOOLEAN
    BY <1>1 DEF Tables, Found
  <2> HIDE DEF f
  <2>4. \A b \in Work : d.work[b].is <=> (d.work[b].is /\ (b # c \/ c = x))
    BY <1>2, <2>3
  <2> QED  BY <2>1, <2>2, <2>4 DEF f
<1>3. CASE c # x
  <2>1. /\ f.obs = d.obs
        /\ f.entry = [i \in Key |-> e(i)]
        /\ f.change = [i \in Post |-> n(i)]
        /\ f.link = {<<IF l[1] = c THEN x ELSE l[1], l[2]>> : l \in d.link}
        /\ f.work = [[d.work EXCEPT ![x] = r] EXCEPT ![c] = NoWork]
        /\ f = [entry |-> f.entry, obs |-> f.obs, work |-> f.work, link |-> f.link, change |-> f.change]
    BY <1>1, <1>3 DEF MergeInto, Tables
  <2>2. ASSUME NEW i \in Key
        PROVE  /\ e(i) \in Entry /\ e(i).st = d.entry[i].st /\ e(i).gen = d.entry[i].gen
               /\ e(i).owner = d.entry[i].owner /\ e(i).live = d.entry[i].live /\ e(i).input = d.entry[i].input
               /\ e(i).removed = d.entry[i].removed /\ e(i).before = d.entry[i].before
               /\ e(i).work = IF d.entry[i].work = c THEN x ELSE d.entry[i].work
    <3>1. d.entry[i] \in Entry
      BY <1>1 DEF Tables
    <3> QED  BY <3>1 DEF Entry
  <2>3. ASSUME NEW i \in Post
        PROVE  n(i) \in Change
    <3>1. d.change[i] \in Change
      BY <1>1 DEF Tables
    <3> QED  BY <3>1 DEF Change
  <2>4. r \in Found /\ r.is /\ r.gid = d.work[x].gid
    BY <1>1 DEF Tables, Found
  <2> HIDE DEF f, e, n, r
  <2>5. f.link \subseteq Work \X Post
    BY <1>1, <2>1 DEF Tables
  <2>6. f.work \in [Work -> Found]
    BY <1>1, <2>1, <2>4 DEF Tables, Found, NoWork
  <2>7. f \in Tables
    <3>1. f.entry \in [Key -> Entry] /\ f.change \in [Post -> Change]
      BY <2>1, <2>2, <2>3
    <3>2. f.obs \in [Post -> Observation]
      BY <1>1, <2>1 DEF Tables
    <3> QED  BY <2>1, <2>5, <2>6, <3>1, <3>2 DEF Tables
  <2>8. \A b \in Work : f.work[b] = IF b = c THEN NoWork ELSE IF b = x THEN r ELSE d.work[b]
    BY <1>1, <1>3, <2>1 DEF Tables
  <2>9. ASSUME NEW i \in Key
        PROVE  /\ f.entry[i].st = d.entry[i].st /\ f.entry[i].gen = d.entry[i].gen
               /\ f.entry[i].owner = d.entry[i].owner /\ f.entry[i].live = d.entry[i].live
               /\ f.entry[i].input = d.entry[i].input
               /\ f.entry[i].removed = d.entry[i].removed /\ f.entry[i].before = d.entry[i].before
               /\ f.entry[i].work = IF d.entry[i].work = c THEN x ELSE d.entry[i].work
    <3>1. f.entry[i] = e(i)
      BY <2>1
    <3> QED  BY <2>2, <3>1
  <2>10. /\ \A b \in Work : f.work[b].is <=> (d.work[b].is /\ b # c)
         /\ \A b \in Work : f.work[b].is => f.work[b].gid = d.work[b].gid
    BY <1>1, <1>3, <2>4, <2>8 DEF NoWork, Tables, Found
  <2>11. /\ \A i \in Post : Known(d, i) => d.obs[i].on \in Key
         /\ \A i \in Post : Known(f, i) <=> Known(d, i)
    BY <1>1, <2>1 DEF Known, Tables, Observation
  <2>12. \A i \in Key : d.entry[i].work \in Work \union {None} /\ d.entry[i].input \in Post \union {None}
    BY <1>1 DEF Tables, Entry
  <2>13. ASSUME NEW i \in Key, d.entry[i].work = c
         PROVE  d.entry[i].st = "LINKED" /\ i \notin Gallery
    BY <1>1, <2>12, <2>13, IntakeConstants DEF Sound, SoundBut, Shaped
  <2>14. Shaped(f)
    <3> SUFFICES ASSUME NEW i \in Key
                 PROVE  /\ (f.entry[i].st = "PROCESSING") = (f.entry[i].owner # None)
                        /\ f.entry[i].live => f.entry[i].st = "PROCESSING"
                        /\ f.entry[i].work # None => f.entry[i].st \in {"LINKED", "MERGED"} /\ f.work[f.entry[i].work].is
                        /\ f.entry[i].st = "LINKED" => f.entry[i].work # None
                        /\ f.entry[i].st = "MERGED" /\ f.entry[i].work # None => f.work[f.entry[i].work].gid # None
                        /\ f.entry[i].st = "LINKED" /\ i \in Gallery => f.work[f.entry[i].work].gid = i
                        /\ f.entry[i].input # None => Known(f, f.entry[i].input)
      BY DEF Shaped
    <3>1. /\ (d.entry[i].st = "PROCESSING") = (d.entry[i].owner # None)
          /\ d.entry[i].live => d.entry[i].st = "PROCESSING"
          /\ d.entry[i].work # None => d.entry[i].st \in {"LINKED", "MERGED"} /\ d.work[d.entry[i].work].is
          /\ d.entry[i].st = "LINKED" => d.entry[i].work # None
          /\ d.entry[i].st = "MERGED" /\ d.entry[i].work # None => d.work[d.entry[i].work].gid # None
          /\ d.entry[i].st = "LINKED" /\ i \in Gallery => d.work[d.entry[i].work].gid = i
          /\ d.entry[i].input # None => Known(d, d.entry[i].input)
      BY DEF Sound, SoundBut, Shaped
    <3>2. CASE d.entry[i].work = c
      <4>1. d.entry[i].st = "LINKED" /\ i \notin Gallery /\ f.entry[i].work = x /\ f.work[x].is /\ x # None
        BY <1>1, <1>3, <2>9, <2>10, <2>13, <3>2
      <4> QED  BY <2>9, <2>11, <2>12, <3>1, <4>1
    <3>3. CASE d.entry[i].work # c
      BY <1>1, <2>9, <2>10, <2>11, <2>12, <3>1, <3>3
    <3> QED  BY <3>2, <3>3
  <2>15. Reborn(f)
    BY <2>9 DEF Sound, SoundBut, Reborn
  <2>16. Dated(f) /\ Named(f, {})
    BY <2>1, <2>9, <2>11 DEF Sound, SoundBut, Dated, Named
  <2>17. Unique(f)
    BY <2>10 DEF Sound, SoundBut, Unique
  <2>18. Linked(f)
    <3> SUFFICES ASSUME NEW l \in f.link
                 PROVE  /\ Known(d, l[2]) /\ f.work[l[1]].is /\ d.obs[l[2]].active
                        /\ f.entry[d.obs[l[2]].on].st = "LINKED" /\ f.entry[d.obs[l[2]].on].work = l[1]
                        /\ f.entry[d.obs[l[2]].on].gen = d.obs[l[2]].gen
      BY <2>1, <2>5, <2>11 DEF Linked, Known
    <3>1. PICK m \in d.link : l = <<IF m[1] = c THEN x ELSE m[1], m[2]>>
      BY <2>1
    <3>2. l[1] = (IF m[1] = c THEN x ELSE m[1]) /\ l[2] = m[2] /\ m[1] \in Work /\ m[2] \in Post
      BY <1>1, <3>1 DEF Tables
    <3>3. /\ Known(d, m[2]) /\ d.work[m[1]].is /\ d.obs[m[2]].active
          /\ d.entry[d.obs[m[2]].on].st = "LINKED" /\ d.entry[d.obs[m[2]].on].work = m[1]
          /\ d.entry[d.obs[m[2]].on].gen = d.obs[m[2]].gen
      BY DEF Sound, SoundBut, Linked
    <3>4. d.obs[m[2]].on \in Key
      BY <2>11, <3>2, <3>3
    <3>5. f.work[l[1]].is
      BY <1>3, <2>10, <3>2, <3>3
    <3> QED  BY <2>9, <3>2, <3>3, <3>4, <3>5
  <2>19. Kept(f, {})
    <3> SUFFICES ASSUME NEW i \in Key, f.entry[i].st = "LINKED", NEW y \in Sources(f, i)
                 PROVE  <<f.entry[i].work, y>> \in f.link
      BY DEF Kept
    <3>1. y \in Sources(d, i) /\ d.entry[i].st = "LINKED"
      BY <2>1, <2>9 DEF Sources
    <3>2. <<d.entry[i].work, y>> \in d.link
      BY <3>1 DEF Sound, SoundBut, Kept
    <3>3. <<IF d.entry[i].work = c THEN x ELSE d.entry[i].work, y>> \in f.link
      BY <2>1, <3>2
    <3> QED  BY <2>9, <3>3
  <2>20. Late(f, {})
    BY <2>1, <2>9, <2>11 DEF Sound, SoundBut, Late, Unedited
  <2>21. Sound(f)
    BY <2>7, <2>14, <2>15, <2>16, <2>17, <2>18, <2>19, <2>20 DEF Sound, SoundBut
  <2>22. \A b \in Work : f.work[b].is <=> (d.work[b].is /\ (b # c \/ c = x))
    BY <1>3, <2>10
  <2> QED  BY <2>1, <2>9, <2>10, <2>21, <2>22 DEF f
<1> QED  BY <1>2, <1>3

(* An unknown work gets its gallery: its observations go to the entry of the *)
(* gallery, and with them their work.                                        *)
LEMMA CompleteIsSound ==
    ASSUME NEW d, Sound(d), NEW p \in Post, Known(d, p), NEW t \in Gallery, d.obs[p].on # t,
           d.obs[p].gen = d.entry[d.obs[p].on].gen, d.entry[d.obs[p].on].work # None,
           d.work[d.entry[d.obs[p].on].work].gid = None, d.entry[t].st # "REMOVED"
    PROVE  /\ SoundBut(Complete(d, p, t), {p}) /\ Since(d, Complete(d, p, t))
           /\ Known(Complete(d, p, t), p) /\ Complete(d, p, t).obs[p].on = t
<1> DEFINE k == d.obs[p].on
           c == d.entry[k].work
           x == IF WorksOf(d, t) = {} THEN c ELSE CHOOSE y \in WorksOf(d, t) : TRUE
           m == MergeInto(d, c, x)
           w == [m.work[x] EXCEPT !.gid = t]
           f == [m EXCEPT !.work[x].gid = t]
           o(q) == IF d.obs[q].on = k /\ d.obs[q].gen = d.entry[k].gen
                   THEN [d.obs[q] EXCEPT !.on = t, !.gen = d.entry[t].gen] ELSE d.obs[q]
           a == Released(m.entry[k], "MERGED")
           b == [Released(m.entry[t], "LINKED") EXCEPT !.work = x]
           r == Complete(d, p, t)
<1>1. /\ d \in Tables /\ None \notin Work /\ None \notin Gallery /\ None \notin Key /\ None \notin Worker
      /\ k \in Key /\ t \in Key /\ t # k /\ c \in Work /\ p[1] \in Message /\ Gallery \intersect Message = {}
  BY IntakeConstants DEF Sound, SoundBut, Tables, Observation, Entry, Known, Key, Worker
<1>2. /\ d.work[c].is /\ d.entry[k].st = "LINKED" /\ k \notin Gallery /\ k = p[1]
  BY <1>1 DEF Sound, SoundBut, Shaped, Dated, Key
<1>3. /\ x \in Work /\ d.work[x].is
      /\ x = c \/ d.work[x].gid = t
      /\ \A y \in Work : d.work[y].is /\ d.work[y].gid = t => y = x
  <2>1. CASE WorksOf(d, t) = {}
    BY <1>1, <1>2, <2>1 DEF WorksOf
  <2>2. CASE WorksOf(d, t) # {}
    <3>1. x \in WorksOf(d, t)
      BY <2>2
    <3> HIDE DEF x
    <3> QED  BY <1>1, <3>1 DEF WorksOf, Sound, SoundBut, Unique
  <2> QED  BY <2>1, <2>2
<1> HIDE DEF c, x
<1>4. /\ Sound(m) /\ m.obs = d.obs
      /\ \A i \in Key : /\ m.entry[i].st = d.entry[i].st /\ m.entry[i].gen = d.entry[i].gen
                        /\ m.entry[i].work = IF d.entry[i].work = c THEN x ELSE d.entry[i].work
      /\ \A y \in Work : m.work[y].is <=> (d.work[y].is /\ (y # c \/ c = x))
      /\ \A y \in Work : m.work[y].is => m.work[y].gid = d.work[y].gid
  <2>1. c \in Work /\ d.work[c].is /\ d.work[c].gid = None
    BY <1>1, <1>2 DEF c
  <2> QED  BY <1>3, <2>1, MergeIsSound
<1>5. r = [f EXCEPT !.obs = [q \in Post |-> o(q)], !.entry[k] = a, !.entry[t] = b]
  <2>1. f.entry = m.entry /\ [f EXCEPT !.obs = [q \in Post |-> o(q)]].entry = m.entry
    BY <1>4 DEF Sound, SoundBut, Tables
  <2>2. t # k /\ m.entry \in [Key -> Entry]
    BY <1>1, <1>4 DEF Sound, SoundBut, Tables
  <2> QED  BY <2>1, <2>2 DEF Complete, c, x
<1>6. m \in Tables /\ m.entry[k] \in Entry /\ m.entry[t] \in Entry /\ d.entry[t].gen \in Nat
      /\ m.work[x] \in Found
  <2>1. m \in Tables
    BY <1>4 DEF Sound, SoundBut
  <2> HIDE DEF m
  <2> QED  BY <1>1, <1>3, <2>1, RowTypes
<1>7. /\ a \in Entry /\ a.st = "MERGED" /\ a.owner = None /\ a.live = FALSE /\ a.gen = d.entry[k].gen /\ a.work = x
      /\ a.input = m.entry[k].input /\ a.removed = m.entry[k].removed /\ a.before = m.entry[k].before
      /\ b \in Entry /\ b.st = "LINKED" /\ b.owner = None /\ b.live = FALSE /\ b.gen = d.entry[t].gen /\ b.work = x
      /\ b.input = m.entry[t].input /\ b.removed = m.entry[t].removed /\ b.before = m.entry[t].before
  <2>1. m.entry[k].work = x /\ m.entry[k].gen = d.entry[k].gen /\ m.entry[t].gen = d.entry[t].gen
    BY <1>1, <1>4 DEF c
  <2>2. {"MERGED", "LINKED"} \subseteq State
    BY DEF State
  <2>3. a \in Entry /\ a.st = "MERGED" /\ a.owner = None /\ a.live = FALSE /\ a.gen = m.entry[k].gen
        /\ a.work = m.entry[k].work
        /\ a.input = m.entry[k].input /\ a.removed = m.entry[k].removed /\ a.before = m.entry[k].before
    BY ZenonT(60), <1>6, <2>2, ReleasedRow
  <2>4. b \in Entry /\ b.st = "LINKED" /\ b.owner = None /\ b.live = FALSE /\ b.gen = m.entry[t].gen /\ b.work = x
        /\ b.input = m.entry[t].input /\ b.removed = m.entry[t].removed /\ b.before = m.entry[t].before
    <3>1. m.entry[t] \in Entry /\ "LINKED" \in State /\ x \in Work
      BY <1>3, <1>6, <2>2
    <3>2. b = ReleasedWith(m.entry[t], "LINKED", x)
      BY DEF ReleasedWith
    <3> HIDE DEF b, m
    <3> QED  BY ZenonT(60), <3>1, <3>2, ReleasedTo
  <2> QED  BY <2>1, <2>3, <2>4
<1>8. ASSUME NEW q \in Post
      PROVE  /\ o(q) \in Observation /\ o(q).rev = d.obs[q].rev /\ o(q).text = d.obs[q].text
             /\ o(q).active = d.obs[q].active /\ o(q).ok = d.obs[q].ok
             /\ IF d.obs[q].on = k /\ d.obs[q].gen = d.entry[k].gen
                THEN o(q).on = t /\ o(q).gen = d.entry[t].gen
                ELSE o(q).on = d.obs[q].on /\ o(q).gen = d.obs[q].gen
  <2>1. d.obs[q] \in Observation
    BY <1>1 DEF Tables
  <2> QED  BY <1>1, <1>6, <2>1 DEF Observation
<1>9. w \in Found /\ w.is = m.work[x].is /\ w.gid = t
  BY <1>6 DEF Found
<1> HIDE DEF a, b, m, o, w
<1>10. /\ r.obs = [q \in Post |-> o(q)] /\ r.link = m.link /\ r.change = m.change
       /\ r.entry = [[m.entry EXCEPT ![k] = a] EXCEPT ![t] = b]
       /\ r.work = [m.work EXCEPT ![x] = w] /\ r \in Tables
  <2>1. f = [m EXCEPT !.work[x] = w]
    BY DEF w
  <2>2. /\ f.work = [m.work EXCEPT ![x] = w] /\ f.link = m.link /\ f.change = m.change /\ f.entry = m.entry
        /\ f \in Tables
    BY <1>3, <1>6, <1>9, <2>1 DEF Tables
  <2>3. [q \in Post |-> o(q)] \in [Post -> Observation]
    BY <1>8
  <2> HIDE DEF f, r
  <2> QED  BY <1>1, <1>5, <1>7, <2>2, <2>3 DEF Tables
<1> HIDE DEF r, f
<1>11. /\ \A i \in Key : r.entry[i] = IF i = t THEN b ELSE IF i = k THEN a ELSE m.entry[i]
       /\ \A y \in Work : r.work[y] = IF y = x THEN w ELSE m.work[y]
       /\ \A q \in Post : r.obs[q] = o(q)
  BY <1>1, <1>3, <1>6, <1>10 DEF Tables
<1>25. ASSUME NEW q \in Post
       PROVE  /\ r.obs[q] = o(q) /\ r.obs[q].rev = d.obs[q].rev /\ r.obs[q].text = d.obs[q].text
              /\ r.obs[q].active = d.obs[q].active /\ r.obs[q].ok = d.obs[q].ok
              /\ IF d.obs[q].on = k /\ d.obs[q].gen = d.entry[k].gen
                 THEN r.obs[q].on = t /\ r.obs[q].gen = d.entry[t].gen
                 ELSE r.obs[q].on = d.obs[q].on /\ r.obs[q].gen = d.obs[q].gen
  <2>1. r.obs[q] = o(q)
    BY <1>11
  <2>2. /\ o(q).rev = d.obs[q].rev /\ o(q).text = d.obs[q].text
        /\ o(q).active = d.obs[q].active /\ o(q).ok = d.obs[q].ok
        /\ IF d.obs[q].on = k /\ d.obs[q].gen = d.entry[k].gen
           THEN o(q).on = t /\ o(q).gen = d.entry[t].gen
           ELSE o(q).on = d.obs[q].on /\ o(q).gen = d.obs[q].gen
    BY <1>8
  <2> QED  BY ONLY <2>1, <2>2
<1>12. ASSUME NEW i \in Key
       PROVE  /\ r.entry[i].gen = d.entry[i].gen /\ r.entry[i].input = m.entry[i].input
              /\ r.entry[i].removed = m.entry[i].removed /\ r.entry[i].before = m.entry[i].before
              /\ d.entry[i].gen \in Nat
  <2>1. d.entry[i].gen \in Nat /\ m.entry[i].gen = d.entry[i].gen
    BY <1>1, <1>4, RowTypes
  <2>2. CASE i = t
    <3>1. r.entry[i] = b
      BY <1>11, <2>2
    <3> QED  BY <1>7, <2>1, <2>2, <3>1
  <2>3. CASE i = k
    <3>1. r.entry[i] = a
      BY <1>1, <1>11, <2>3
    <3> QED  BY <1>7, <2>1, <2>3, <3>1
  <2>4. CASE i # t /\ i # k
    <3>1. r.entry[i] = m.entry[i]
      BY <1>11, <2>4
    <3> QED  BY <2>1, <3>1
  <2> QED  BY <2>2, <2>3, <2>4
<1>13. ASSUME NEW y \in Work
       PROVE  /\ r.work[y].is <=> (d.work[y].is /\ (y # c \/ c = x))
              /\ r.work[y].is /\ y # x => r.work[y].gid = d.work[y].gid
              /\ r.work[x].is /\ r.work[x].gid = t
  <2>1. /\ m.work[y].is <=> (d.work[y].is /\ (y # c \/ c = x))
        /\ m.work[y].is => m.work[y].gid = d.work[y].gid
    BY <1>4
  <2>2. m.work[x].is /\ r.work[x] = w
    BY <1>3, <1>4, <1>11
  <2>3. y # x => r.work[y] = m.work[y]
    BY <1>11
  <2>4. y = x => (r.work[y].is <=> m.work[y].is)
    BY <1>9, <2>2
  <2>5. r.work[x].is /\ r.work[x].gid = t
    BY <1>9, <2>2
  <2> QED  BY <2>1, <2>3, <2>4, <2>5
<1>14. /\ \A q \in Post : Known(d, q) => d.obs[q].on \in Key /\ d.obs[q].gen \in Nat
       /\ \A q \in Post : Known(r, q) <=> Known(d, q)
  BY <1>1, <1>8, <1>11 DEF Known, Tables, Observation
<1>15. Shaped(r)
  <2> SUFFICES ASSUME NEW i \in Key
               PROVE  /\ (r.entry[i].st = "PROCESSING") = (r.entry[i].owner # None)
                      /\ r.entry[i].live => r.entry[i].st = "PROCESSING"
                      /\ r.entry[i].work # None => r.entry[i].st \in {"LINKED", "MERGED"} /\ r.work[r.entry[i].work].is
                      /\ r.entry[i].st = "LINKED" => r.entry[i].work # None
                      /\ r.entry[i].st = "MERGED" /\ r.entry[i].work # None => r.work[r.entry[i].work].gid # None
                      /\ r.entry[i].st = "LINKED" /\ i \in Gallery => r.work[r.entry[i].work].gid = i
                      /\ r.entry[i].input # None => Known(r, r.entry[i].input)
    BY DEF Shaped
  <2>1. /\ (m.entry[i].st = "PROCESSING") = (m.entry[i].owner # None)
        /\ m.entry[i].live => m.entry[i].st = "PROCESSING"
        /\ m.entry[i].work # None => m.entry[i].st \in {"LINKED", "MERGED"} /\ m.work[m.entry[i].work].is
        /\ m.entry[i].st = "LINKED" => m.entry[i].work # None
        /\ m.entry[i].st = "MERGED" /\ m.entry[i].work # None => m.work[m.entry[i].work].gid # None
        /\ m.entry[i].st = "LINKED" /\ i \in Gallery => m.work[m.entry[i].work].gid = i
        /\ m.entry[i].input # None => Known(m, m.entry[i].input)
    BY <1>4 DEF Sound, SoundBut, Shaped
  <2>2. r.entry[i].input # None => Known(r, r.entry[i].input)
    <3>1. m.entry[i].input \in Post \union {None}
      BY <1>6 DEF Tables, Entry
    <3>2. Known(m, m.entry[i].input) => Known(d, m.entry[i].input)
      BY <1>4 DEF Known
    <3> QED  BY <1>12, <1>14, <2>1, <3>1, <3>2
  <2>3. CASE i = t
    <3>1. r.entry[i] = b /\ r.work[x].is /\ r.work[x].gid = t /\ x # None
      BY <1>1, <1>3, <1>11, <1>13, <2>3
    <3> QED  BY <1>7, <2>2, <2>3, <3>1
  <2>4. CASE i = k
    <3>1. r.entry[i] = a /\ r.work[x].is /\ r.work[x].gid = t /\ x # None /\ t # None
      BY <1>1, <1>3, <1>11, <1>13, <2>4
    <3> QED  BY <1>7, <2>2, <3>1
  <2>5. CASE i # k /\ i # t
    <3>1. r.entry[i] = m.entry[i] /\ m.entry[i].work \in Work \union {None}
      BY <1>6, <1>11, <2>5 DEF Tables, Entry
    <3>2. ASSUME m.entry[i].work # None
          PROVE  /\ r.work[m.entry[i].work].is
                 /\ m.work[m.entry[i].work].gid # None => r.work[m.entry[i].work].gid = m.work[m.entry[i].work].gid
      <4>1. m.work[m.entry[i].work].is /\ m.entry[i].work \in Work
        BY <2>1, <3>1, <3>2
      <4>2. m.work[x].gid \in {None, t}
        <5>1. m.work[x].gid = d.work[x].gid
          BY <1>3, <1>4
        <5>2. x = c => d.work[x].gid = None
          BY DEF c
        <5> QED  BY <1>3, <5>1, <5>2
      <4> QED  BY <1>4, <1>9, <1>11, <4>1, <4>2
    <3> QED  BY <1>1, <2>1, <2>2, <3>1, <3>2
  <2> QED  BY <2>3, <2>4, <2>5
<1>16. Reborn(r)
  <2>1. \A i \in Key : r.entry[i].st = "REMOVED" <=> m.entry[i].st = "REMOVED"
    BY <1>1, <1>2, <1>4, <1>7, <1>11
  <2>2. ASSUME NEW i \in Key
        PROVE  /\ m.entry[i].st = "REMOVED" => m.entry[i].removed
               /\ m.entry[i].removed /\ m.entry[i].st # "REMOVED" => m.entry[i].gen > 1
               /\ m.entry[i].before # {} => m.entry[i].removed
               /\ m.entry[i].gen = r.entry[i].gen
    BY <1>4, <1>12 DEF Sound, SoundBut, Reborn
  <2>3. ASSUME NEW i \in Key
        PROVE  r.entry[i].removed = m.entry[i].removed /\ r.entry[i].before = m.entry[i].before
    BY <1>12
  <2>4. ASSUME NEW i \in Key
        PROVE  /\ r.entry[i].st = "REMOVED" => r.entry[i].removed
               /\ r.entry[i].removed /\ r.entry[i].st # "REMOVED" => r.entry[i].gen > 1
               /\ r.entry[i].before # {} => r.entry[i].removed
    BY <2>1, <2>2, <2>3
  <2> QED  BY ONLY <2>4 DEF Reborn
<1>17. Dated(r)
  <2> SUFFICES ASSUME NEW q \in Post
               PROVE  /\ Known(r, q) => /\ r.obs[q].gen <= r.entry[r.obs[q].on].gen
                                        /\ r.obs[q].rev > 0
                                        /\ r.obs[q].on \in Message => r.obs[q].on = q[1]
                      /\ ~Known(r, q) => r.obs[q].rev = 0
    BY DEF Dated
  <2>1. /\ Known(d, q) => /\ d.obs[q].gen <= d.entry[d.obs[q].on].gen
                          /\ d.obs[q].rev > 0
                          /\ d.obs[q].on \in Message => d.obs[q].on = q[1]
        /\ ~Known(d, q) => d.obs[q].rev = 0
    BY DEF Sound, SoundBut, Dated
  <2>2. r.obs[q].rev = d.obs[q].rev /\ (Known(r, q) <=> Known(d, q))
    BY <1>14, <1>25
  <2>3. ASSUME Known(d, q)
        PROVE  /\ r.obs[q].gen <= r.entry[r.obs[q].on].gen
               /\ r.obs[q].on \in Message => r.obs[q].on = q[1]
    <3>1. CASE d.obs[q].on = k /\ d.obs[q].gen = d.entry[k].gen
      <4>1. r.obs[q].on = t /\ r.obs[q].gen = d.entry[t].gen
        BY <1>25, <3>1
      <4>2. r.entry[t].gen = d.entry[t].gen /\ d.entry[t].gen \in Nat /\ t \notin Message
        BY <1>1, <1>12
      <4> QED  BY ONLY <4>1, <4>2
    <3>2. CASE ~(d.obs[q].on = k /\ d.obs[q].gen = d.entry[k].gen)
      <4>1. r.obs[q].on = d.obs[q].on /\ r.obs[q].gen = d.obs[q].gen
        BY <1>25, <3>2
      <4>2. r.entry[d.obs[q].on].gen = d.entry[d.obs[q].on].gen
        BY <1>12, <1>14, <2>3
      <4> QED  BY ONLY <2>1, <2>3, <4>1, <4>2
    <3> QED  BY ONLY <3>1, <3>2
  <2> QED  BY ONLY <2>1, <2>2, <2>3
<1>18. Named(r, {p})
  <2> SUFFICES ASSUME NEW q \in Post, Known(r, q), r.obs[q].on \in Gallery,
                      r.obs[q].gen = r.entry[r.obs[q].on].gen, r.entry[r.obs[q].on].st \notin {"LINKED", "REMOVED"}
               PROVE  r.obs[q].text = r.obs[q].on
    BY DEF Named
  <2>1. r.obs[q].on # t /\ r.obs[q].on # k
    <3>1. r.entry[t].st = "LINKED"
      BY <1>1, <1>7, <1>11
    <3> QED  BY <1>2, <3>1
  <2>2. r.obs[q].on = d.obs[q].on /\ r.obs[q].gen = d.obs[q].gen /\ r.obs[q].text = d.obs[q].text
    BY <1>25, <2>1
  <2>3. Known(d, q) /\ d.obs[q].on \in Key
    BY <1>14
  <2>4. r.entry[d.obs[q].on].st = d.entry[d.obs[q].on].st
    <3>1. r.entry[d.obs[q].on] = m.entry[d.obs[q].on]
      BY <1>11, <2>1, <2>2, <2>3
    <3>2. m.entry[d.obs[q].on].st = d.entry[d.obs[q].on].st
      BY <1>4, <2>1, <2>2, <2>3
    <3> QED  BY ONLY <3>1, <3>2
  <2>5. d.obs[q].gen = d.entry[d.obs[q].on].gen /\ d.entry[d.obs[q].on].st \notin {"LINKED", "REMOVED"}
    BY <1>12, <2>2, <2>3, <2>4
  <2>6. Named(d, {})
    BY DEF Sound, SoundBut
  <2>7. d.obs[q].text = d.obs[q].on
    BY <2>2, <2>3, <2>5, <2>6 DEF Named
  <2> QED  BY <2>2, <2>7
<1>19. Unique(r)
  BY <1>3, <1>13 DEF Sound, SoundBut, Unique
<1>20. Linked(r)
  <2> SUFFICES ASSUME NEW l \in m.link
               PROVE  /\ Known(r, l[2]) /\ r.work[l[1]].is /\ r.obs[l[2]].active
                      /\ r.entry[r.obs[l[2]].on].st = "LINKED" /\ r.entry[r.obs[l[2]].on].work = l[1]
                      /\ r.entry[r.obs[l[2]].on].gen = r.obs[l[2]].gen
    BY <1>10 DEF Linked
  <2> PICK q \in Post, i \in Key : q = l[2] /\ i = d.obs[q].on /\ Known(d, q)
    <3>1. l[2] \in Post /\ Known(m, l[2])
      BY <1>4, <1>6, RowTypes DEF Sound, SoundBut, Linked
    <3>2. Known(d, l[2])
      BY <1>4, <3>1 DEF Known
    <3> QED  BY <1>14, <3>1, <3>2
  <2>1. /\ m.work[l[1]].is /\ d.obs[q].active /\ l[1] \in Work
        /\ m.entry[i].st = "LINKED" /\ m.entry[i].work = l[1] /\ m.entry[i].gen = d.obs[q].gen
    <3>1. Linked(m) /\ m.obs = d.obs /\ m \in Tables
      BY <1>4, <1>6 DEF Sound, SoundBut
    <3>2. l[1] \in Work
      BY <3>1, RowTypes
    <3> QED  BY <3>1, <3>2 DEF Linked
  <2>2. d.entry[i].gen = d.obs[q].gen
    BY <1>4, <2>1
  <2>3. r.work[l[1]].is
    BY <1>4, <1>13, <2>1
  <2>4. Known(r, q) /\ r.obs[q] = o(q) /\ r.obs[q].active
    <3>1. r.obs[q] = o(q)
      BY <1>11
    <3>2. o(q).active = d.obs[q].active
      BY <1>8
    <3>3. Known(r, q)
      BY <1>14
    <3> QED  BY <2>1, <3>1, <3>2, <3>3
  <2>9. r.entry[t] = b /\ (i # k /\ i # t => r.entry[i] = m.entry[i])
    BY <1>1, <1>11
  <2>5. ASSUME i \in {k, t}
        PROVE  o(q).on = t /\ o(q).gen = d.entry[t].gen
    <3>0. /\ r.obs[q] = o(q)
          /\ IF d.obs[q].on = k /\ d.obs[q].gen = d.entry[k].gen
             THEN r.obs[q].on = t /\ r.obs[q].gen = d.entry[t].gen
             ELSE r.obs[q].on = d.obs[q].on /\ r.obs[q].gen = d.obs[q].gen
      BY <1>25
    <3> HIDE DEF k
    <3>1. CASE i = k
      <4>1. d.obs[q].on = k /\ d.obs[q].gen = d.entry[k].gen
        BY <2>2, <3>1
      <4> QED  BY ONLY <3>0, <4>1
    <3>2. CASE i = t
      <4>1. d.obs[q].on # k
        BY <1>1, <3>2
      <4>2. o(q).on = d.obs[q].on /\ o(q).gen = d.obs[q].gen
        BY ONLY <3>0, <4>1
      <4> QED  BY <2>2, <3>2, <4>2
    <3> QED  BY <2>5, <3>1, <3>2
  <2>6. CASE i = k
    <3>1. l[1] = x
      <4>1. m.entry[k].work = x
        <5>1. d.entry[k].work = c
          BY DEF c
        <5>2. m.entry[k].work = IF d.entry[k].work = c THEN x ELSE d.entry[k].work
          BY <1>1, <1>4
        <5> QED  BY <5>1, <5>2
      <4>2. m.entry[i].work = l[1]
        BY <2>1
      <4> QED  BY <2>6, <4>1, <4>2
    <3>2. r.obs[q].on = t /\ r.obs[q].gen = d.entry[t].gen
      BY <2>4, <2>5, <2>6
    <3>3. b.st = "LINKED" /\ b.work = x /\ b.gen = d.entry[t].gen
      BY <1>7
    <3> QED  BY <2>3, <2>4, <2>9, <3>1, <3>2, <3>3
  <2>7. CASE i = t
    <3>1. l[1] = x
      <4>1. m.work[l[1]].gid = t
        <5>1. m.entry[t].st = "LINKED" /\ m.entry[t].work = l[1] /\ t \in Key
          BY <1>1, <2>1, <2>7
        <5>2. Shaped(m)
          BY <1>4 DEF Sound, SoundBut
        <5> QED  BY <5>1, <5>2 DEF Shaped
      <4>2. r.work[l[1]].is /\ (l[1] # x => r.work[l[1]].gid = t) /\ r.work[x].is /\ r.work[x].gid = t
        BY <1>4, <1>13, <2>1, <2>3, <4>1
      <4> QED  BY <1>1, <1>3, <1>19, <2>1, <4>2 DEF Unique
    <3>2. r.obs[q].on = t /\ r.obs[q].gen = d.entry[t].gen
      BY <2>4, <2>5, <2>7
    <3>3. b.st = "LINKED" /\ b.work = x /\ b.gen = d.entry[t].gen
      BY <1>7
    <3> QED  BY <2>3, <2>4, <2>9, <3>1, <3>2, <3>3
  <2>8. CASE i # k /\ i # t
    <3>0. /\ r.obs[q] = o(q)
          /\ IF d.obs[q].on = k /\ d.obs[q].gen = d.entry[k].gen
             THEN r.obs[q].on = t /\ r.obs[q].gen = d.entry[t].gen
             ELSE r.obs[q].on = d.obs[q].on /\ r.obs[q].gen = d.obs[q].gen
      BY <1>25
    <3> HIDE DEF k
    <3>1. r.obs[q] = o(q) /\ o(q).on = i /\ o(q).gen = d.obs[q].gen
      <4>1. i = d.obs[q].on
        OBVIOUS
      <4> QED  BY ONLY <2>8, <3>0, <4>1
    <3> QED  BY <2>1, <2>3, <2>4, <2>8, <2>9, <3>1
  <2> QED  BY <2>6, <2>7, <2>8
<1>21. Kept(r, {p})
  <2> SUFFICES ASSUME NEW i \in Key, r.entry[i].st = "LINKED", r.obs[p].on # i, NEW q \in Sources(r, i)
               PROVE  <<r.entry[i].work, q>> \in r.link
    BY DEF Kept
  <2>1. r.obs[p].on = t
    BY <1>25
  <2>2. i # k /\ i # t /\ r.entry[i] = m.entry[i]
    BY <1>7, <1>11, <2>1
  <2>3. q \in Sources(m, i)
    <3>1. /\ q \in Post /\ r.obs[q].on = i /\ r.obs[q].gen = r.entry[i].gen
          /\ r.obs[q].active /\ r.obs[q].ok
      BY DEF Sources
    <3>2. d.obs[q].on = i /\ d.obs[q].gen = r.obs[q].gen /\ d.obs[q].active /\ d.obs[q].ok
      BY <1>25, <2>2, <3>1
    <3>3. m.obs = d.obs
      BY <1>4
    <3> QED  BY ONLY <2>2, <3>1, <3>2, <3>3 DEF Sources
  <2> QED  BY <1>4, <1>10, <2>2, <2>3 DEF Sound, SoundBut, Kept
<1>22. Late(r, {p})
  <2> SUFFICES ASSUME NEW q \in Post, Known(r, q), Unedited(r, q[1]), p[1] # q[1],
                      q[1] \in r.entry[r.obs[q].on].before
               PROVE  r.entry[r.obs[q].on].st = "REMOVED" \/ r.obs[q].gen < r.entry[r.obs[q].on].gen
    BY DEF Late
  <2>1. Known(d, q) /\ d.obs[q].on \in Key
    BY <1>14
  <2>2. d.obs[q].on # k
    <3>1. d.obs[q].on \in Message => d.obs[q].on = q[1]
      BY <2>1 DEF Sound, SoundBut, Dated
    <3>2. k \in Message /\ k = p[1]
      BY <1>1, <1>2
    <3> QED  BY <3>1, <3>2
  <2>3. r.obs[q].on = d.obs[q].on /\ r.obs[q].gen = d.obs[q].gen
    BY <1>25, <2>2
  <2>4. Unedited(m, q[1]) /\ Known(m, q)
    <3>3. m.obs = d.obs
      BY <1>4
    <3>1. ASSUME NEW y \in Post PROVE r.obs[y].rev = m.obs[y].rev
      <4>1. r.obs[y].rev = d.obs[y].rev
        BY <1>25
      <4> QED  BY ONLY <3>3, <4>1
    <3>2. Unedited(m, q[1])
      BY ONLY Unedited(r, q[1]), <3>1 DEF Unedited
    <3> QED  BY ONLY <2>1, <3>2, <3>3 DEF Known
  <2>5. m.entry[d.obs[q].on].st = "REMOVED" \/ d.obs[q].gen < m.entry[d.obs[q].on].gen
    <3>1. q[1] \in m.entry[m.obs[q].on].before
      <4>1. r.entry[d.obs[q].on].before = m.entry[d.obs[q].on].before
        BY <1>12, <2>1
      <4>2. m.obs = d.obs /\ r.obs[q].on = d.obs[q].on
        BY <1>4, <2>3
      <4>3. q[1] \in r.entry[r.obs[q].on].before
        OBVIOUS
      <4> QED  BY ONLY <4>1, <4>2, <4>3
    <3>2. Late(m, {}) /\ m.obs[q] = d.obs[q]
      BY <1>4 DEF Sound, SoundBut
    <3> QED  BY <2>4, <3>1, <3>2 DEF Late
  <2>6. r.entry[d.obs[q].on].st = "REMOVED" <=> m.entry[d.obs[q].on].st = "REMOVED"
    <3>1. CASE d.obs[q].on = t
      <4>1. r.entry[d.obs[q].on] = b
        BY <1>1, <1>11, <3>1
      <4> QED  BY <1>1, <1>4, <1>7, <3>1, <4>1
    <3>2. CASE d.obs[q].on # t
      <4>1. r.entry[d.obs[q].on] = m.entry[d.obs[q].on]
        BY <1>11, <2>1, <2>2, <3>2
      <4> QED  BY ONLY <4>1
    <3> QED  BY ONLY <3>1, <3>2
  <2> QED  BY <1>4, <1>12, <2>1, <2>3, <2>5, <2>6
<1>23. Since(d, r)
  BY <1>1, <1>14, <1>25 DEF Since, Tables, Observation
<1>24. Known(r, p) /\ r.obs[p].on = t
  BY <1>14, <1>25
<1> QED
  BY <1>10, <1>15, <1>16, <1>17, <1>18, <1>19, <1>20, <1>21, <1>22, <1>23, <1>24 DEF SoundBut, r

\* What holds of all posts holds of all but some.
LEMMA SoundIsSoundBut ==
    ASSUME NEW d, Sound(d), NEW X \in SUBSET Post
    PROVE  SoundBut(d, X)
  BY DEF Sound, SoundBut, Named, Kept, Late

\* edit_observation as a whole, in each of its cases.
LEMMA EditIsSound ==
    ASSUME NEW d, Sound(d), NEW p \in Post, Known(d, p), NEW t \in Text \union {None},
           d.obs[p].gen = d.entry[d.obs[p].on].gen, written \subseteq Message,
           NEW f \in Edit(d, p, t)
    PROVE  Sound(f) /\ Since(d, f)
<1> DEFINE k == d.obs[p].on
           e == d.entry[k]
           completes == /\ KeyOf(p, t) # k /\ t \in Gallery
                        /\ e.work # None /\ d.work[e.work].gid = None
<1>1. d \in Tables /\ KeyOf(p, t) \in Key /\ (KeyOf(p, t) \in Message => KeyOf(p, t) = p[1])
      /\ (t \in Gallery => KeyOf(p, t) = t)
  BY IntakeConstants DEF Sound, SoundBut, KeyOf, Key
<1>2. \/ f = d
      \/ completes /\ d.entry[t].st # "REMOVED" /\ f = Rewrite(Complete(d, p, t), p, t)
      \/ KeyOf(p, t) = k /\ f = Rewrite(d, p, t)
      \/ f = Rewrite(Move(d, p, KeyOf(p, t)), p, t)
  BY DEF Edit
<1>3. CASE f = d
  BY <1>1, <1>3, SinceItself
<1>4. CASE completes /\ d.entry[t].st # "REMOVED" /\ f = Rewrite(Complete(d, p, t), p, t)
  <2> DEFINE c == Complete(d, p, t)
  <2>1. SoundBut(c, {p}) /\ Since(d, c) /\ Known(c, p) /\ c.obs[p].on = t
    BY <1>1, <1>4, CompleteIsSound
  <2> HIDE DEF c
  <2>2. Sound(Rewrite(c, p, t)) /\ Since(c, Rewrite(c, p, t))
    BY <1>1, <1>4, <2>1, RewriteIsSound
  <2> QED  BY <1>1, <1>4, <2>1, <2>2, SinceTwice DEF Sound, SoundBut, c
<1>5. CASE KeyOf(p, t) = k /\ f = Rewrite(d, p, t)
  BY <1>5, RewriteIsSound, SoundIsSoundBut
<1>6. CASE f = Rewrite(Move(d, p, KeyOf(p, t)), p, t)
  <2> DEFINE c == Move(d, p, KeyOf(p, t))
  <2>1. SoundBut(c, {p}) /\ Since(d, c) /\ Known(c, p) /\ c.obs[p].on = KeyOf(p, t)
    BY <1>1, MoveIsSound
  <2> HIDE DEF c
  <2>2. Sound(Rewrite(c, p, t)) /\ Since(c, Rewrite(c, p, t))
    BY <2>1, RewriteIsSound
  <2> QED  BY <1>1, <1>6, <2>1, <2>2, SinceTwice DEF Sound, SoundBut, c
<1> QED  BY <1>2, <1>3, <1>4, <1>5, <1>6

(* An observation whose text, place and generation stay: its flags, its *)
(* revision, and links of its own that go.                              *)
LEMMA ObservationStays ==
    ASSUME NEW d, Sound(d), NEW p \in Post, NEW o \in Observation, NEW links \in SUBSET d.link,
           o.on = d.obs[p].on, o.gen = d.obs[p].gen, o.text = d.obs[p].text, o.rev >= d.obs[p].rev,
           ~Known(d, p) => o.rev = d.obs[p].rev,
           \A l \in d.link : l[2] # p => l \in links,
           \/ ~o.ok /\ \A l \in links : l[2] # p
           \/ links = d.link /\ o.active = d.obs[p].active
              /\ (o.ok = d.obs[p].ok \/ d.entry[d.obs[p].on].st # "LINKED")
    PROVE  LET f == [d EXCEPT !.link = links, !.obs[p] = o]
           IN  Sound(f) /\ Since(d, f)
<1> DEFINE f == [d EXCEPT !.link = links, !.obs[p] = o]
<1>1. d \in Tables /\ None \notin Key /\ d.obs[p] \in Observation
  BY IntakeConstants DEF Sound, SoundBut, Key, Tables
<1>2. /\ f.obs = [d.obs EXCEPT ![p] = o] /\ f.work = d.work /\ f.change = d.change /\ f.link = links
      /\ f.entry = d.entry /\ f \in Tables
  BY <1>1 DEF Tables
<1> HIDE DEF f
<1>3. \A i \in Post : f.obs[i] = IF i = p THEN o ELSE d.obs[i]
  BY <1>1, <1>2 DEF Tables
<1>4. /\ \A i \in Post : Known(d, i) => d.obs[i].on \in Key
      /\ \A i \in Post : Known(f, i) <=> Known(d, i)
      /\ \A i \in Post : f.obs[i].on = d.obs[i].on /\ f.obs[i].gen = d.obs[i].gen /\ f.obs[i].text = d.obs[i].text
      /\ \A i \in Post : f.obs[i].rev >= d.obs[i].rev /\ d.obs[i].rev \in Nat /\ f.obs[i].rev \in Nat
  BY <1>1, <1>3 DEF Known, Tables, Observation
<1>5. Shaped(f)
  <2>1. \A i \in Key : d.entry[i].input \in Post \union {None}
    BY <1>1, RowTypes
  <2>2. Shaped(d)
    BY DEF Sound, SoundBut
  <2>3. ASSUME NEW i \in Key, d.entry[i].input # None PROVE Known(f, d.entry[i].input)
    <3>1. Known(d, d.entry[i].input)
      BY <2>2, <2>3 DEF Shaped
    <3> QED  BY <1>4, <2>1, <2>3, <3>1
  <2>4. f.entry = d.entry /\ f.work = d.work
    BY <1>2
  <2> QED  BY ONLY <2>2, <2>3, <2>4 DEF Shaped
<1>6. Reborn(f) /\ Unique(f)
  BY <1>2 DEF Sound, SoundBut, Reborn, Unique
<1>7. Dated(f)
  <2>1. \A i \in Post : ~Known(d, i) => f.obs[i].rev = d.obs[i].rev
    BY <1>3
  <2> QED  BY <1>2, <1>4, <2>1 DEF Sound, SoundBut, Dated
<1>8. Named(f, {})
  BY <1>2, <1>4 DEF Sound, SoundBut, Named
<1>9. Linked(f)
  <2> SUFFICES ASSUME NEW l \in links
               PROVE  /\ Known(f, l[2]) /\ d.work[l[1]].is /\ f.obs[l[2]].active
                      /\ d.entry[f.obs[l[2]].on].st = "LINKED" /\ d.entry[f.obs[l[2]].on].work = l[1]
                      /\ d.entry[f.obs[l[2]].on].gen = f.obs[l[2]].gen
    <3>1. f.entry = d.entry /\ f.work = d.work /\ f.link = links
      BY <1>2
    <3> QED  BY <3>1 DEF Linked
  <2>1. /\ Known(d, l[2]) /\ d.work[l[1]].is /\ d.obs[l[2]].active
        /\ d.entry[d.obs[l[2]].on].st = "LINKED" /\ d.entry[d.obs[l[2]].on].work = l[1]
        /\ d.entry[d.obs[l[2]].on].gen = d.obs[l[2]].gen
    BY DEF Sound, SoundBut, Linked
  <2>2. l[2] \in Post /\ f.obs[l[2]].active = d.obs[l[2]].active
    BY <1>1, <1>3 DEF Tables
  <2> QED  BY <1>4, <2>1, <2>2
<1>10. Kept(f, {})
  <2> SUFFICES ASSUME NEW i \in Key, d.entry[i].st = "LINKED", NEW q \in Sources(f, i)
               PROVE  <<d.entry[i].work, q>> \in links
    BY <1>2 DEF Kept
  <2>1. q \in Post /\ f.obs[q].ok /\ f.obs[q].active /\ d.obs[q].on = i /\ d.obs[q].gen = d.entry[i].gen
    BY <1>2, <1>4 DEF Sources
  <2>2. CASE q # p
    <3>1. q \in Sources(d, i)
      BY <1>3, <2>1, <2>2 DEF Sources
    <3>2. <<d.entry[i].work, q>> \in d.link
      BY <3>1 DEF Sound, SoundBut, Kept
    <3> QED  BY <2>2, <3>2
  <2>3. CASE q = p /\ links = d.link /\ o.active = d.obs[p].active /\ o.ok = d.obs[p].ok
    <3>1. q \in Sources(d, i)
      BY <1>3, <2>1, <2>3 DEF Sources
    <3> QED  BY <2>3, <3>1 DEF Sound, SoundBut, Kept
  <2>4. q = p => links = d.link /\ o.active = d.obs[p].active /\ o.ok = d.obs[p].ok
    BY <1>3, <2>1
  <2> QED  BY <2>2, <2>3, <2>4
<1>11. Late(f, {})
  <2>1. \A i \in Post : Unedited(f, i[1]) => Unedited(d, i[1])
    BY <1>4 DEF Unedited
  <2> QED  BY <1>2, <1>4, <2>1 DEF Sound, SoundBut, Late
<1>12. Since(d, f)
  BY <1>4 DEF Since
<1> QED
  BY <1>2, <1>5, <1>6, <1>7, <1>8, <1>9, <1>10, <1>11, <1>12 DEF Sound, SoundBut, f

(* Nothing else matters: downloads, pending changes. *)
LEMMA RestIsFree ==
    ASSUME NEW d, Sound(d), NEW f \in Tables, f.entry = d.entry, f.obs = d.obs, f.link = d.link,
           \A b \in Work : (f.work[b].is <=> d.work[b].is) /\ f.work[b].gid = d.work[b].gid
    PROVE  Sound(f) /\ Since(d, f)
<1>1. d \in Tables
  BY DEF Sound, SoundBut
<1>2. Shaped(f)
  <2>1. \A i \in Key : d.entry[i].work \in Work \union {None} /\ Known(f, d.entry[i].input) = Known(d, d.entry[i].input)
    BY <1>1 DEF Tables, Entry, Known
  <2> QED  BY <2>1 DEF Sound, SoundBut, Shaped
<1>3. Reborn(f) /\ Dated(f) /\ Named(f, {}) /\ Late(f, {}) /\ Kept(f, {})
  BY DEF Sound, SoundBut, Reborn, Dated, Named, Late, Kept, Known, Unedited, Sources
<1>4. Unique(f)
  BY DEF Sound, SoundBut, Unique
<1>5. Linked(f)
  BY <1>1 DEF Sound, SoundBut, Linked, Known, Tables
<1>6. Since(d, f)
  BY <1>1 DEF Since, Tables, Observation, Known
<1> QED  BY <1>2, <1>3, <1>4, <1>5, <1>6 DEF Sound, SoundBut

\* The state of a work's downloads.
LEMMA RunIsFree ==
    ASSUME NEW d, Sound(d), NEW c \in Work, NEW run \in {"none", "active", "stopping", "kept"}
    PROVE  Sound([d EXCEPT !.work[c].run = run]) /\ Since(d, [d EXCEPT !.work[c].run = run])
<1> DEFINE r == [d.work[c] EXCEPT !.run = run]
           f == [d EXCEPT !.work[c].run = run]
<1>1. d \in Tables /\ d.work[c] \in Found
  BY DEF Sound, SoundBut, Tables
<1>2. r \in Found /\ r.is = d.work[c].is /\ r.gid = d.work[c].gid
  BY <1>1 DEF Found
<1>3. f = [d EXCEPT !.work[c] = r]
  OBVIOUS
<1> HIDE DEF r, f
<1>4. /\ f.entry = d.entry /\ f.obs = d.obs /\ f.link = d.link /\ f.work = [d.work EXCEPT ![c] = r] /\ f \in Tables
  BY <1>1, <1>2, <1>3 DEF Tables
<1>5. \A b \in Work : (f.work[b].is <=> d.work[b].is) /\ f.work[b].gid = d.work[b].gid
  BY <1>1, <1>2, <1>4 DEF Tables
<1>6. Sound(f) /\ Since(d, f)
  BY <1>4, <1>5, RestIsFree
<1> QED  BY <1>6 DEF f

\* The request to stop them.
LEMMA StopWorkIsSound ==
    ASSUME NEW d, Sound(d), NEW c \in Work
    PROVE  Sound(StopWork(d, c)) /\ Since(d, StopWork(d, c))
<1>1. d \in Tables
  BY DEF Sound, SoundBut
<1> QED  BY <1>1, RunIsFree, SinceItself DEF StopWork

\* The record of a pending change.
LEMMA ChangeIsFree ==
    ASSUME NEW d, Sound(d), NEW p \in Post, NEW n \in Change
    PROVE  Sound([d EXCEPT !.change[p] = n]) /\ Since(d, [d EXCEPT !.change[p] = n])
<1> DEFINE f == [d EXCEPT !.change[p] = n]
<1>1. d \in Tables
  BY DEF Sound, SoundBut
<1>2. f \in Tables /\ f.entry = d.entry /\ f.obs = d.obs /\ f.link = d.link /\ f.work = d.work
  BY <1>1 DEF Tables
<1> HIDE DEF f
<1>3. Sound(f) /\ Since(d, f)
  BY <1>2, RestIsFree
<1> QED  BY <1>3 DEF f

\* Its state.
LEMMA StatusIsFree ==
    ASSUME NEW d, Sound(d), NEW p \in Post, NEW st \in {"NONE", "PENDING", "COMPLETED", "FAILED"}
    PROVE  Sound([d EXCEPT !.change[p].st = st]) /\ Since(d, [d EXCEPT !.change[p].st = st])
<1> DEFINE n == [d.change[p] EXCEPT !.st = st]
<1>1. d.change[p] \in Change
  BY DEF Sound, SoundBut, Tables
<1>2. n \in Change
  BY <1>1 DEF Change
<1>3. [d EXCEPT !.change[p].st = st] = [d EXCEPT !.change[p] = n]
  OBVIOUS
<1> HIDE DEF n
<1> QED  BY <1>2, <1>3, ChangeIsFree

\* An edit that waits for a stop: the revision moves on, claims of the gallery it names are
\* revoked.
LEMMA DeferIsSound ==
    ASSUME NEW d, Sound(d), NEW p \in Post, Known(d, p), NEW t \in Text, NEW c \in Work
    PROVE  Sound(Defer(d, p, t, c)) /\ Since(d, Defer(d, p, t, c))
<1> DEFINE n == [st |-> "PENDING", text |-> t, work |-> c, rev |-> d.obs[p].rev + 1]
           o == [d.obs[p] EXCEPT !.rev = @ + 1]
           g == [d EXCEPT !.change[p] = n]
           f == [g EXCEPT !.obs[p].rev = @ + 1]
           h == IF t \in Gallery THEN Revoked(f, t) ELSE f
<1>1. d \in Tables /\ d.obs[p] \in Observation /\ d.obs[p].rev \in Nat
  BY DEF Sound, SoundBut, Tables, Observation
<1>2. n \in Change
  BY <1>1 DEF Change
<1>3. o \in Observation /\ o.rev = d.obs[p].rev + 1 /\ o.rev >= d.obs[p].rev
      /\ o.on = d.obs[p].on /\ o.gen = d.obs[p].gen /\ o.text = d.obs[p].text
      /\ o.active = d.obs[p].active /\ o.ok = d.obs[p].ok
  <2>1. d.obs[p].rev + 1 \in Nat /\ d.obs[p].rev + 1 >= d.obs[p].rev
    BY <1>1
  <2> QED  BY <1>1, <2>1 DEF Observation
<1>4. Defer(d, p, t, c) = StopWork(h, c)
  BY DEF Defer
<1> HIDE DEF n
<1>5. Sound(g) /\ Since(d, g) /\ g \in Tables /\ g.obs = d.obs /\ g.link = d.link
  BY <1>1, <1>2, ChangeIsFree DEF Sound, SoundBut, Tables
<1>6. f = [g EXCEPT !.link = g.link, !.obs[p] = o]
  BY <1>5 DEF Tables
<1> HIDE DEF g, o, f
<1>7. Sound(f) /\ Since(g, f)
  <2>1. Known(g, p) /\ g.obs[p] = d.obs[p]
    BY <1>5 DEF Known
  <2> QED  BY <1>3, <1>5, <1>6, <2>1, ObservationStays
<1>8. Sound(h) /\ Since(f, h)
  BY <1>7, RevokedIsSound, SinceItself DEF Sound, SoundBut, Key
<1> HIDE DEF h
<1>9. Sound(StopWork(h, c)) /\ Since(h, StopWork(h, c))
  BY <1>8, StopWorkIsSound
<1>10. Since(d, f) /\ f \in Tables /\ h \in Tables /\ StopWork(h, c) \in Tables
  BY <1>1, <1>5, <1>7, <1>8, <1>9, SinceTwice DEF Sound, SoundBut
<1>11. Since(d, h)
  BY <1>1, <1>8, <1>10, SinceTwice
<1> QED  BY <1>1, <1>4, <1>9, <1>10, <1>11, SinceTwice

\* deactivate_observation: the post withdraws, and a work nobody uses goes with its last source.
LEMMA DeactivateIsSound ==
    ASSUME NEW d, Sound(d), NEW p \in Post, NEW f \in Deactivate(d, p), written \subseteq Message
    PROVE  Sound(f) /\ Since(d, f)
<1> DEFINE o == d.obs[p]
           x == [o EXCEPT !.active = FALSE, !.ok = FALSE, !.rev = o.rev + 1]
           links == {l \in d.link : l[2] # p}
           works == {l[1] : l \in {n \in d.link : n[2] = p}}
           h == [d EXCEPT !.link = links, !.obs[p] = x]
           g == DeleteUnused(h, works)
<1>1. d \in Tables /\ o \in Observation /\ o.rev \in Nat /\ None \notin Key /\ None \notin Work
  BY IntakeConstants DEF Sound, SoundBut, Tables, Observation, Key
<1>2. \/ f = d
      \/ Known(d, p) /\ f = g
      \/ Known(d, p) /\ d.entry[o.on].st = "PENDING" /\ f = [g EXCEPT !.entry[o.on].st = "IGNORED", !.entry[o.on].wait = FALSE]
  BY DEF Deactivate
<1>3. CASE f = d
  BY <1>1, <1>3, SinceItself
<1>4. ASSUME Known(d, p)
      PROVE  Sound(g) /\ Since(d, g) /\ \A i \in Key : d.entry[i].st = "PENDING" => g.entry[i] = d.entry[i]
  <2>1. x \in Observation /\ x.rev = o.rev + 1 /\ x.rev >= o.rev /\ ~x.active /\ ~x.ok
        /\ x.on = o.on /\ x.gen = o.gen /\ x.text = o.text
    <3>1. o.rev + 1 \in Nat /\ o.rev + 1 >= o.rev
      BY <1>1
    <3> QED  BY <1>1, <3>1 DEF Observation
  <2>2. works \subseteq Work
    BY <1>1 DEF Tables
  <2>3. links \subseteq d.link /\ (\A l \in d.link : l[2] # p => l \in links) /\ \A l \in links : l[2] # p
    OBVIOUS
  <2> HIDE DEF x, works, links
  <2>4. Sound(h) /\ Since(d, h)
    BY <1>4, <2>1, <2>3, ObservationStays
  <2>5. h.entry = d.entry
    BY <1>1 DEF Tables
  <2> HIDE DEF h
  <2>6. /\ SoundBut(g, {}) /\ g.obs = h.obs
        /\ g = h \/ \E c \in works : g = Delete(h, c)
    BY <2>2, <2>4, DeleteUnusedIsSound DEF Sound
  <2> HIDE DEF g
  <2>7. Since(d, g)
    BY <2>4, <2>6 DEF Since, Known
  <2>8. ASSUME NEW i \in Key, d.entry[i].st = "PENDING" PROVE g.entry[i] = d.entry[i]
    <3>1. d.entry[i].work = None
      BY <2>8 DEF Sound, SoundBut, Shaped
    <3>2. ASSUME NEW c \in works, g = Delete(h, c) PROVE g.entry[i] = d.entry[i]
      <4>1. c # None /\ h \in Tables
        BY <1>1, <2>2, <2>4 DEF Sound, SoundBut
      <4>2. g.entry = [k \in Key |->
                  IF h.entry[k].work = c
                  THEN [h.entry[k] EXCEPT !.st = "REMOVED", !.work = None, !.owner = None, !.wait = FALSE,
                                          !.live = FALSE, !.removed = TRUE, !.before = written]
                  ELSE h.entry[k]]
        BY <3>2, <4>1 DEF Delete, Tables
      <4> QED  BY ZenonT(60), <2>5, <3>1, <4>1, <4>2
    <3> QED  BY <2>5, <2>6, <3>2
  <2> QED  BY <2>6, <2>7, <2>8 DEF Sound
<1>5. CASE Known(d, p) /\ f = g
  BY <1>4, <1>5
<1>6. CASE Known(d, p) /\ d.entry[o.on].st = "PENDING" /\ f = [g EXCEPT !.entry[o.on].st = "IGNORED", !.entry[o.on].wait = FALSE]
  <2> DEFINE k == o.on
             e == [g.entry[k] EXCEPT !.st = "IGNORED", !.wait = FALSE]
  <2>1. k \in Key /\ Sound(g) /\ Since(d, g) /\ g.entry[k] = d.entry[k] /\ g \in Tables /\ g.entry[k] \in Entry
    BY <1>1, <1>4, <1>6 DEF Known, Observation, Sound, SoundBut, Tables
  <2> HIDE DEF g
  <2>2. /\ e \in Entry /\ e.gen = g.entry[k].gen /\ e.removed = g.entry[k].removed /\ e.before = g.entry[k].before
        /\ e.work = g.entry[k].work /\ e.st = "IGNORED" /\ e.owner = g.entry[k].owner /\ e.input = g.entry[k].input
        /\ e.live = g.entry[k].live
    <3>1. "IGNORED" \in State
      BY DEF State
    <3> QED  BY <2>1, <3>1 DEF Entry
  <2>3. f = [g EXCEPT !.entry[k] = e]
    BY <1>6, <2>1 DEF Tables, Entry
  <2>4. /\ g.entry[k].st = "PENDING" /\ (g.entry[k].input # None => Known(g, g.entry[k].input))
        /\ g.entry[k].owner = None /\ ~g.entry[k].live
    BY <1>6, <2>1 DEF Sound, SoundBut, Shaped
  <2> HIDE DEF e, k
  <2>5. SoundBut([g EXCEPT !.entry[k] = e], {}) /\ Since(g, [g EXCEPT !.entry[k] = e])
    BY <2>1, <2>2, <2>4, EntryMoves DEF Sound, Open
  <2> QED  BY <1>1, <2>1, <2>3, <2>5, SinceTwice DEF Sound, SoundBut
<1> QED  BY <1>2, <1>3, <1>5, <1>6

-----------------------------------------------------------------------------
(* Publication. *)

\* A new work, for a gallery that has none, takes the sources of its entry.
LEMMA CreatedIsSound ==
    ASSUME NEW d, Sound(d), NEW j, j.key \in Key, d.entry[j.key].st \in Open, NEW run \in {"none", "kept"},
           NextId(d) # {}, WorksOf(d, j.text) = {}, j.key \in Gallery => j.text = j.key
    PROVE  Sound(Created(d, j, NextId(d), run)) /\ Since(d, Created(d, j, NextId(d), run))
<1> DEFINE k == j.key
           c == CHOOSE x \in NextId(d) : TRUE
           n == [is |-> TRUE, run |-> run, gid |-> IF j.text \in Gallery THEN j.text ELSE None]
           f == [d EXCEPT !.work[c] = n]
<1>1. d \in Tables /\ None \notin Work /\ None \notin Gallery /\ None \notin Key
  BY IntakeConstants DEF Sound, SoundBut, Key
<1>2. c \in Work /\ ~d.work[c].is
  BY DEF NextId
<1>3. n \in Found /\ n.is /\ n.gid = IF j.text \in Gallery THEN j.text ELSE None
  BY DEF Found
<1>4. \A b \in Work : d.work[b].is /\ n.gid # None => d.work[b].gid # n.gid
  BY <1>3 DEF WorksOf
<1>5. Created(d, j, NextId(d), run) = Finish(f, k, c)
  BY DEF Created
<1> HIDE DEF c, n
<1>6. /\ f.entry = d.entry /\ f.obs = d.obs /\ f.link = d.link /\ f.change = d.change
      /\ f.work = [d.work EXCEPT ![c] = n] /\ f \in Tables
  BY <1>1, <1>2, <1>3 DEF Tables
<1> HIDE DEF f
<1>7. \A b \in Work : f.work[b] = IF b = c THEN n ELSE d.work[b]
  BY <1>1, <1>6 DEF Tables
<1>8. ASSUME NEW i \in Key
      PROVE  /\ d.entry[i].work \in Work \union {None} /\ d.entry[i].work # c
             /\ d.entry[i].work # None => f.work[d.entry[i].work] = d.work[d.entry[i].work]
  <2>1. d.entry[i].work \in Work \union {None}
    BY <1>1 DEF Tables, Entry
  <2>2. d.entry[i].work # None => d.work[d.entry[i].work].is
    BY DEF Sound, SoundBut, Shaped
  <2> QED  BY <1>1, <1>2, <1>7, <2>1, <2>2
<1>9. Shaped(f)
  <2>1. \A i \in Key : Known(f, d.entry[i].input) = Known(d, d.entry[i].input)
    BY <1>6 DEF Known
  <2> QED  BY <1>6, <1>8, <2>1 DEF Sound, SoundBut, Shaped
<1>10. Reborn(f) /\ Dated(f) /\ Named(f, {}) /\ Late(f, {}) /\ Kept(f, {})
  BY <1>6 DEF Sound, SoundBut, Reborn, Dated, Named, Late, Kept, Known, Unedited, Sources
<1>11. Unique(f)
  BY <1>1, <1>4, <1>7 DEF Sound, SoundBut, Unique
<1>12. Linked(f)
  <2>1. \A l \in d.link : l[1] \in Work /\ f.work[l[1]].is
    <3> SUFFICES ASSUME NEW l \in d.link PROVE l[1] \in Work /\ f.work[l[1]].is
      OBVIOUS
    <3>1. l[1] \in Work /\ d.work[l[1]].is
      BY <1>1 DEF Sound, SoundBut, Linked, Tables
    <3> QED  BY <1>2, <1>7, <3>1
  <2> QED  BY <1>6, <2>1 DEF Sound, SoundBut, Linked, Known
<1>13. Since(d, f)
  BY <1>1, <1>6 DEF Since, Known, Tables, Observation
<1>14. Sound(f)
  BY <1>6, <1>9, <1>10, <1>11, <1>12 DEF Sound, SoundBut
<1>15. k \in Gallery => n.gid = k
  BY <1>3
<1>16. Sound(Finish(f, k, c)) /\ Since(f, Finish(f, k, c))
  <2>1. f.entry[k].st \in Open /\ f.work[c].is /\ (k \in Gallery => f.work[c].gid = k)
    BY <1>2, <1>3, <1>6, <1>7, <1>15
  <2> QED  BY <1>2, <1>14, <2>1, FinishIsSound
<1> QED  BY <1>1, <1>5, <1>6, <1>13, <1>16, SinceTwice DEF Sound, SoundBut

\* The three ends of a judgement: refused, an existing work adopted, a new work created.
LEMMA JudgedIsSound ==
    ASSUME NEW d, Sound(d), NEW j, j.key \in Key, d.entry[j.key].st \in Open, NEW accept \in BOOLEAN,
           j.input \in Post, Known(d, j.input), d.obs[j.input].on = j.key,
           j.key \in Gallery => j.text = j.key, NEW r \in Judged(d, j, accept)
    PROVE  Sound(r) /\ Since(d, r)
<1> DEFINE o == [d.obs[j.input] EXCEPT !.ok = accept]
           f == [d EXCEPT !.obs[j.input].ok = accept]
           x == WorksOf(d, j.text)
<1>1. d \in Tables /\ d.obs[j.input] \in Observation /\ d.obs[j.input].rev \in Nat /\ None \notin Work
  BY IntakeConstants DEF Sound, SoundBut, Tables, Observation
<1>2. o \in Observation /\ o.on = d.obs[j.input].on /\ o.gen = d.obs[j.input].gen /\ o.text = d.obs[j.input].text
      /\ o.rev = d.obs[j.input].rev /\ o.active = d.obs[j.input].active
  BY <1>1 DEF Observation
<1>3. f = [d EXCEPT !.link = d.link, !.obs[j.input] = o]
  BY <1>1 DEF Tables
<1>4. f.entry = d.entry /\ f.work = d.work /\ f.link = d.link
  BY <1>1 DEF Tables
<1>5. \/ ~accept /\ r = Finish(f, j.key, None)
      \/ x # {} /\ r = Finish(f, j.key, CHOOSE c \in x : TRUE)
      \/ x = {} /\ NextId(d) # {} /\ r = Created(f, j, NextId(d), "none")
  <2>1. WorksOf(d, j.text) = WorksOf(f, j.text) /\ NextId(f) = NextId(d)
    BY <1>4 DEF WorksOf, NextId
  <2> HIDE DEF f
  <2> QED  BY <2>1 DEF Judged, f
<1> HIDE DEF f, o
<1>6. Sound(f) /\ Since(d, f)
  <2>1. /\ d.entry[d.obs[j.input].on].st # "LINKED" /\ o.rev >= d.obs[j.input].rev
        /\ d.link \in SUBSET d.link
    BY <1>1, <1>2 DEF Open
  <2>2. /\ Sound([d EXCEPT !.link = d.link, !.obs[j.input] = o])
        /\ Since(d, [d EXCEPT !.link = d.link, !.obs[j.input] = o])
    BY <1>2, <2>1, ObservationStays
  <2> QED  BY <1>3, <2>2
<1>7. Sound(r) /\ Since(f, r)
  <2>1. CASE ~accept /\ r = Finish(f, j.key, None)
    BY <1>4, <1>6, <2>1, FinishIsSound
  <2>2. CASE x # {} /\ r = Finish(f, j.key, CHOOSE c \in x : TRUE)
    <3> DEFINE c == CHOOSE c \in x : TRUE
    <3>1. c \in Work /\ d.work[c].is /\ d.work[c].gid = j.text
      BY <2>2 DEF WorksOf
    <3> HIDE DEF c
    <3>2. Sound(Finish(f, j.key, c)) /\ Since(f, Finish(f, j.key, c))
      BY <1>4, <1>6, <3>1, FinishIsSound
    <3> QED  BY <2>2, <3>2 DEF c
  <2>3. CASE x = {} /\ NextId(d) # {} /\ r = Created(f, j, NextId(d), "none")
    <3>1. NextId(f) = NextId(d) /\ WorksOf(f, j.text) = {}
      BY <1>4, <2>3 DEF WorksOf, NextId
    <3>2. f.entry[j.key].st \in Open
      BY <1>4
    <3> QED  BY <1>6, <2>3, <3>1, <3>2, CreatedIsSound
  <2> QED  BY <1>5, <2>1, <2>2, <2>3
<1> QED  BY <1>1, <1>6, <1>7, SinceTwice DEF Sound, SoundBut

-----------------------------------------------------------------------------
(* Taking a message in. *)

\* The registration of a message, a first one or an edit.
LEMMA RegisteredIsSound ==
    ASSUME NEW d, Sound(d), NEW p \in Post, NEW t \in Text \union {None}, NEW edit \in BOOLEAN,
           ~Known(d, p) => t \in Text, written \subseteq Message, NEW f \in Registered(d, p, t, edit)
    PROVE  Sound(f) /\ Since(d, f) /\ Known(f, p) /\ f.obs[p].on \in Key
<1>1. d \in Tables /\ None \notin Key /\ KeyOf(p, t) \in Key
  BY IntakeConstants DEF Sound, SoundBut, Key, KeyOf
<1>2. \/ ~Known(d, p) /\ f = Insert(d, p, t, edit)
      \/ Known(d, p) /\ d.obs[p].gen = d.entry[d.obs[p].on].gen /\ f \in Edit(d, p, t)
      \/ Known(d, p) /\ f = d
  BY DEF Registered
<1>3. Sound(f) /\ Since(d, f) /\ Known(f, p)
  <2>1. CASE ~Known(d, p) /\ f = Insert(d, p, t, edit)
    BY <1>1, <2>1, InsertIsSound DEF Known
  <2>2. CASE Known(d, p) /\ d.obs[p].gen = d.entry[d.obs[p].on].gen /\ f \in Edit(d, p, t)
    BY <2>2, EditIsSound DEF Since
  <2>3. CASE Known(d, p) /\ f = d
    BY <1>1, <2>3, SinceItself
  <2> QED  BY <1>2, <2>1, <2>2, <2>3
<1>4. f.obs[p].on \in Key
  BY <1>3 DEF Sound, SoundBut, Tables, Observation, Known
<1> QED  BY <1>3, <1>4

\* The choice of the input of an entry no processor works on.
LEMMA SelectedIsSound ==
    ASSUME NEW d, Sound(d), NEW k \in Key, NEW f \in Selected(d, k)
    PROVE  Sound(f) /\ Since(d, f) /\ f.obs = d.obs
<1>1. d \in Tables
  BY DEF Sound, SoundBut
<1> QED  BY <1>1, ReselectIsSound, SinceItself DEF Selected

\* What is then done with the entry; a claim has an input in the tables.
LEMMA PreparedIsSound ==
    ASSUME NEW d, Sound(d), NEW k \in Key, NEW t, NEW a \in Account, NEW choice \in Chosen(d, k, t, a)
    PROVE  /\ Sound(Prepared(d, k, t, a, choice)) /\ Since(d, Prepared(d, k, t, a, choice))
           /\ choice = "claim" => LET r == Prepared(d, k, t, a, choice)
                                  IN  r.obs = d.obs /\ r.entry[k].input \in Post /\ Known(r, r.entry[k].input)
<1>1. d \in Tables /\ d.entry[k] \in Entry /\ a \in Worker
  BY DEF Sound, SoundBut, Tables, Worker
<1>2. choice \in {"keep", "block", "claim", "adopt"}
  BY DEF Chosen, Choices
<1>3. choice # "keep" => d.entry[k].st \in {"PENDING", "PROCESSING"}
  BY DEF Chosen, Choices, Claimable, Exhausted
<1>4. choice \in {"claim", "adopt"} => d.entry[k].attempts < MaxAttempts /\ InputValid(d, k, FALSE)
  <2>1. d.entry[k].attempts \in 0 .. MaxAttempts /\ MaxAttempts \in Nat
    BY <1>1, IntakeConstants DEF Entry
  <2>2. choice \in {"claim", "adopt"} => ~Exhausted(d, k) /\ Claimable(d, k) /\ InputValid(d, k, FALSE)
    BY DEF Chosen, Choices
  <2>3. choice \in {"claim", "adopt"} => ~(d.entry[k].attempts >= MaxAttempts)
    BY <2>2 DEF Exhausted
  <2>4. choice \in {"claim", "adopt"} => d.entry[k].attempts < MaxAttempts
    BY <2>1, <2>3
  <2> QED  BY <2>2, <2>4
<1>5. choice = "adopt" => WorksOf(d, t) # {} /\ ~(k \in Gallery \ {t})
  BY DEF Chosen, Choices
<1>6. CASE choice = "keep"
  BY <1>1, <1>6, SinceItself DEF Prepared
<1>7. CASE choice = "block"
  BY <1>3, <1>7, BlockedIsSound DEF Prepared
<1>8. CASE choice = "claim"
  <2> DEFINE r == Claimed(d, k, a)
  <2>1. Prepared(d, k, t, a, choice) = r
    BY <1>8 DEF Prepared
  <2>2. Sound(r) /\ Since(d, r) /\ r.obs = d.obs /\ r.entry[k].input = d.entry[k].input
    BY <1>1, <1>3, <1>4, <1>8, ClaimedIsSound
  <2>3. d.entry[k].input # None /\ d.entry[k].input \in Post
    BY <1>1, <1>4, <1>8 DEF InputValid, Entry
  <2>4. Known(r, r.entry[k].input)
    BY <2>2, <2>3 DEF Sound, SoundBut, Shaped
  <2> HIDE DEF r
  <2> QED  BY <2>1, <2>2, <2>3, <2>4
<1>9. CASE choice = "adopt"
  <2> DEFINE e == [d.entry[k] EXCEPT !.attempts = @ + 1]
             f == [d EXCEPT !.entry[k] = e]
             c == CHOOSE x \in WorksOf(d, t) : TRUE
  <2>1. Prepared(d, k, t, a, choice) = Finish(f, k, c)
    BY <1>1, <1>9 DEF Prepared
  <2>2. d.entry[k].attempts + 1 \in 0 .. MaxAttempts
    BY <1>1, <1>4, <1>9, IntakeConstants DEF Entry
  <2>3. /\ e \in Entry /\ e.gen = d.entry[k].gen /\ e.removed = d.entry[k].removed /\ e.before = d.entry[k].before
        /\ e.work = d.entry[k].work /\ e.st = d.entry[k].st /\ e.owner = d.entry[k].owner /\ e.input = d.entry[k].input
        /\ e.live = d.entry[k].live
    BY <1>1, <2>2 DEF Entry
  <2>4. /\ (d.entry[k].st = "PROCESSING") = (d.entry[k].owner # None) /\ (d.entry[k].live => d.entry[k].st = "PROCESSING")
        /\ d.entry[k].input # None => Known(d, d.entry[k].input)
    BY DEF Sound, SoundBut, Shaped
  <2>5. c \in Work /\ d.work[c].is /\ (k \in Gallery => d.work[c].gid = k)
    BY <1>5, <1>9 DEF WorksOf
  <2>6. f.entry[k] = e /\ f.work = d.work
    BY <1>1 DEF Tables
  <2> HIDE DEF e, c
  <2>7. SoundBut(f, {}) /\ Since(d, f)
    BY <2>3, <2>4, EntryMoves DEF Sound
  <2> HIDE DEF f
  <2>8. Sound(Finish(f, k, c)) /\ Since(f, Finish(f, k, c))
    BY <1>3, <1>9, <2>3, <2>5, <2>6, <2>7, FinishIsSound DEF Sound, Open
  <2> QED  BY <1>1, <1>9, <2>1, <2>7, <2>8, SinceTwice DEF Sound, SoundBut
<1> QED  BY <1>2, <1>6, <1>7, <1>8, <1>9

\* A pasted link begins a new generation of a closed entry; its old observations stay behind.
LEMMA ReaddedIsSound ==
    ASSUME NEW d, Sound(d), NEW g \in Gallery
    PROVE  LET f == [d EXCEPT !.entry[g] = Readded(@)]
           IN  Sound(f) /\ Since(d, f) /\ f.obs = d.obs
<1> DEFINE e == [Released(d.entry[g], "PENDING") EXCEPT !.gen = @ + 1, !.input = None, !.attempts = 0, !.work = None]
           f == [d EXCEPT !.entry[g] = Readded(@)]
<1>1. d \in Tables /\ g \in Key /\ d.entry[g] \in Entry /\ d.entry[g].gen \in Nat \ {0} /\ MaxAttempts \in Nat
      /\ None \notin Key /\ None \notin Worker
  BY IntakeConstants DEF Sound, SoundBut, Tables, Key, Entry, Worker
<1>2. CASE d.entry[g].st \notin {"REMOVED", "IGNORED", "BLOCKED", "MERGED"}
  <2>1. f = d
    BY <1>1, <1>2 DEF Readded, Tables
  <2> QED  BY <1>1, <2>1, SinceItself
<1>3. CASE d.entry[g].st \in {"REMOVED", "IGNORED", "BLOCKED", "MERGED"}
  <2>1. f = [d EXCEPT !.entry[g] = e]
    BY <1>3 DEF Readded
  <2>2. /\ e \in Entry /\ e.gen = d.entry[g].gen + 1 /\ e.removed = d.entry[g].removed /\ e.before = d.entry[g].before
        /\ e.work = None /\ e.st = "PENDING" /\ e.owner = None /\ e.live = FALSE /\ e.input = None
        /\ e.gen \in Nat
    <3>1. d.entry[g].gen + 1 \in Nat \ {0} /\ 0 \in 0 .. MaxAttempts /\ "PENDING" \in State
      BY <1>1 DEF State
    <3> QED  BY <1>1, <3>1 DEF Entry, Released
  <2> HIDE DEF e
  <2>3. /\ f.obs = d.obs /\ f.work = d.work /\ f.link = d.link /\ f.change = d.change
        /\ f.entry = [d.entry EXCEPT ![g] = e] /\ f \in Tables
    BY <1>1, <2>1, <2>2 DEF Tables
  <2> HIDE DEF f
  <2>4. \A i \in Key : f.entry[i] = IF i = g THEN e ELSE d.entry[i]
    BY <1>1, <2>3 DEF Tables
  <2>5. /\ \A p \in Post : Known(d, p) => d.obs[p].on \in Key /\ d.obs[p].gen \in Nat /\ d.obs[p].gen <= d.entry[d.obs[p].on].gen
        /\ \A p \in Post : Known(f, p) <=> Known(d, p)
    BY <1>1, <2>3 DEF Known, Tables, Observation, Sound, SoundBut, Dated
  <2>6. \A p \in Post : Known(d, p) /\ d.obs[p].on = g => d.obs[p].gen < e.gen
    BY <1>1, <2>2, <2>5
  <2>7. Shaped(f)
    <3>1. \A i \in Key : Known(f, d.entry[i].input) = Known(d, d.entry[i].input)
      BY <2>3 DEF Known
    <3> QED  BY <1>1, <2>2, <2>3, <2>4, <3>1 DEF Sound, SoundBut, Shaped
  <2>8. Reborn(f)
    BY <1>1, <2>2, <2>4 DEF Sound, SoundBut, Reborn
  <2>9. Dated(f)
    BY <1>1, <2>2, <2>3, <2>4, <2>5, <2>6 DEF Sound, SoundBut, Dated
  <2>10. Named(f, {})
    BY <1>1, <2>2, <2>3, <2>4, <2>5, <2>6 DEF Sound, SoundBut, Named
  <2>11. Unique(f)
    BY <2>3 DEF Sound, SoundBut, Unique
  <2>12. Linked(f)
    BY <1>1, <1>3, <2>3, <2>4, <2>5 DEF Sound, SoundBut, Linked, Tables
  <2>13. Kept(f, {})
    BY <1>1, <2>2, <2>3, <2>4 DEF Sound, SoundBut, Kept, Sources
  <2>14. Late(f, {})
    <3> SUFFICES ASSUME NEW i \in Post, Known(f, i), Unedited(f, i[1]), i[1] \in f.entry[f.obs[i].on].before
                 PROVE  f.entry[f.obs[i].on].st = "REMOVED" \/ f.obs[i].gen < f.entry[f.obs[i].on].gen
      BY DEF Late
    <3>1. Known(d, i) /\ d.obs[i].on \in Key /\ Unedited(d, i[1]) /\ f.obs[i] = d.obs[i]
      BY <2>3, <2>5 DEF Unedited
    <3>2. CASE d.obs[i].on = g
      BY <2>4, <2>6, <3>1, <3>2
    <3>3. CASE d.obs[i].on # g
      BY <2>4, <3>1, <3>3 DEF Sound, SoundBut, Late
    <3> QED  BY <3>2, <3>3
  <2>15. Since(d, f)
    BY <1>1, <2>3, <2>5 DEF Since, Tables, Observation
  <2> QED
    BY <2>3, <2>7, <2>8, <2>9, <2>10, <2>11, <2>12, <2>13, <2>14, <2>15 DEF Sound, SoundBut, f
<1> QED  BY <1>2, <1>3

-----------------------------------------------------------------------------
(* The processors and what they hold. *)

\* What processor w was given is in the tables, with its text until it is edited.
Given(d, j, w) ==
    /\ j.key \in Key
    /\ j.input # None => /\ Known(d, j.input) /\ j.rev <= d.obs[j.input].rev
                         /\ j.rev = d.obs[j.input].rev => j.text = d.obs[j.input].text
    /\ w \in Account => j.input \in Post
    /\ w = Manual => j.key \in Gallery

\* It works for itself and still has to acknowledge its update.
Owed(j, w, r) == j.post # None => j.post[2] = w /\ r[j.post] # <<>>

Claims ==
    /\ worker \in [Worker -> Claim] /\ wire \in [Post -> Seq(Update)] /\ written \subseteq Message
    /\ \A w \in Worker : worker[w] # Idle => Given(db, worker[w], w) /\ Owed(worker[w], w, wire)

Inv == Sound(db) /\ Claims

\* Nothing a processor was given is taken back by a later database.
LEMMA GivenLasts ==
    ASSUME NEW d, NEW e, d \in Tables, e \in Tables, Since(d, e), NEW j \in Claim, NEW w \in Worker,
           Given(d, j, w)
    PROVE  Given(e, j, w)
<1>1. CASE j.input = None
  BY <1>1 DEF Given
<1>2. CASE j.input # None
  <2>1. j.input \in Post /\ j.rev \in Nat
    BY <1>2 DEF Claim
  <2>2. d.obs[j.input].rev \in Nat /\ e.obs[j.input].rev \in Nat
    BY <2>1 DEF Tables, Observation
  <2>3. Known(d, j.input) /\ j.rev <= d.obs[j.input].rev
        /\ (j.rev = d.obs[j.input].rev => j.text = d.obs[j.input].text)
    BY <1>2 DEF Given
  <2>4. Known(e, j.input) /\ e.obs[j.input].rev >= d.obs[j.input].rev
        /\ (e.obs[j.input].rev = d.obs[j.input].rev => e.obs[j.input].text = d.obs[j.input].text)
    BY <2>1, <2>3 DEF Since
  <2>5. j.rev <= e.obs[j.input].rev /\ (j.rev = e.obs[j.input].rev => j.text = e.obs[j.input].text)
    BY <2>1, <2>2, <2>3, <2>4
  <2> QED  BY <2>4, <2>5 DEF Given
<1> QED  BY <1>1, <1>2

\* Processors that go on or leave, while updates that nobody works on are acknowledged.
LEMMA ClaimsFollow ==
    ASSUME Inv, Sound(db'), Since(db, db'), worker' \in [Worker -> Claim], wire' \in [Post -> Seq(Update)],
           written' \subseteq Message,
           \A w \in Worker : worker'[w] = worker[w] \/ worker'[w] = Idle,
           \A w \in Worker : worker'[w] # Idle /\ worker[w].post # None => wire'[worker[w].post] # <<>>
    PROVE  Inv'
<1>1. db \in Tables /\ db' \in Tables
  BY DEF Inv, Sound, SoundBut
<1>2. ASSUME NEW w \in Worker, worker'[w] # Idle
      PROVE  Given(db', worker'[w], w) /\ Owed(worker'[w], w, wire')
  <2>1. worker'[w] = worker[w] /\ worker[w] # Idle /\ worker[w] \in Claim
    BY <1>2 DEF Inv, Claims
  <2>2. Given(db, worker[w], w) /\ Owed(worker[w], w, wire)
    BY <2>1 DEF Inv, Claims
  <2>3. Given(db', worker[w], w)
    BY <1>1, <2>1, <2>2, GivenLasts
  <2>4. Owed(worker[w], w, wire')
    BY <1>2, <2>1, <2>2 DEF Owed
  <2> QED  BY <2>1, <2>3, <2>4
<1> QED  BY <1>2 DEF Inv, Claims

\* A step of the tables alone.
LEMMA TablesAlone ==
    ASSUME Inv, Sound(db'), Since(db, db'), UNCHANGED <<worker, wire, written>>
    PROVE  Inv'
<1>1. worker \in [Worker -> Claim] /\ wire \in [Post -> Seq(Update)] /\ written \subseteq Message
  BY DEF Inv, Claims
<1>2. \A w \in Worker : worker[w] # Idle /\ worker[w].post # None => wire[worker[w].post] # <<>>
  BY DEF Inv, Claims, Owed
<1> QED  BY <1>1, <1>2, ClaimsFollow

\* A processor leaves.
LEMMA ProcessorLeaves ==
    ASSUME Inv, Sound(db'), Since(db, db'), NEW w \in Worker, worker[w] # Idle, Leave(w),
           wire' = wire \/ wire' = Acknowledged(w), written' = written
    PROVE  Inv'
<1>1. worker \in [Worker -> Claim] /\ wire \in [Post -> Seq(Update)] /\ written \subseteq Message
  BY DEF Inv, Claims
<1>2. Idle \in Claim
  BY DEF Idle, Claim
<1>3. worker' = [worker EXCEPT ![w] = Idle] /\ worker' \in [Worker -> Claim]
  BY <1>1, <1>2 DEF Leave
<1>4. worker[w] \in Claim /\ (worker[w].post # None => worker[w].post \in Post /\ worker[w].post[2] = w /\ wire[worker[w].post] # <<>>)
  BY <1>1 DEF Inv, Claims, Owed, Claim
<1>5. wire' \in [Post -> Seq(Update)]
      /\ (wire' = wire \/ (worker[w].post # None /\ wire' = [wire EXCEPT ![worker[w].post] = Tail(@)]))
  <2>1. worker[w].post # None => wire[worker[w].post] \in Seq(Update) /\ wire[worker[w].post] # <<>>
    BY <1>1, <1>4
  <2>2. worker[w].post # None => Tail(wire[worker[w].post]) \in Seq(Update)
    BY <2>1
  <2> QED  BY <1>1, <2>2 DEF Acknowledged
<1>6. \A v \in Worker : worker'[v] = worker[v] \/ worker'[v] = Idle
  BY <1>1, <1>3
<1>7. ASSUME NEW v \in Worker, worker'[v] # Idle, worker[v].post # None
      PROVE  wire'[worker[v].post] # <<>>
  <2>1. v # w /\ worker[v] # Idle
    BY <1>1, <1>3, <1>7
  <2>2. worker[v].post[2] = v /\ wire[worker[v].post] # <<>> /\ worker[v].post \in Post
    BY <1>1, <1>7, <2>1 DEF Inv, Claims, Owed, Claim
  <2>3. worker[w].post # None => worker[w].post # worker[v].post
    BY <1>4, <2>1, <2>2
  <2> QED  BY <1>1, <1>5, <2>2, <2>3
<1> QED  BY <1>1, <1>3, <1>5, <1>6, <1>7, ClaimsFollow

\* The update of an idle account is acknowledged.
LEMMA UpdateTaken ==
    ASSUME Inv, Sound(db'), Since(db, db'), NEW p \in Post, worker[p[2]] = Idle, wire[p] # <<>>,
           wire' = [wire EXCEPT ![p] = Tail(@)], UNCHANGED <<worker, written>>
    PROVE  Inv'
<1>1. worker \in [Worker -> Claim] /\ wire \in [Post -> Seq(Update)] /\ written \subseteq Message
  BY DEF Inv, Claims
<1>2. wire' \in [Post -> Seq(Update)]
  <2>1. wire[p] \in Seq(Update)
    BY <1>1
  <2>2. Tail(wire[p]) \in Seq(Update)
    BY <2>1
  <2> QED  BY <1>1, <2>2
<1>3. ASSUME NEW v \in Worker, worker[v] # Idle, worker[v].post # None
      PROVE  wire'[worker[v].post] # <<>>
  <2>1. worker[v].post[2] = v /\ wire[worker[v].post] # <<>> /\ worker[v].post \in Post
    BY <1>1, <1>3 DEF Inv, Claims, Owed, Claim
  <2> QED  BY <1>1, <1>3, <2>1
<1> QED  BY <1>1, <1>2, <1>3, ClaimsFollow

-----------------------------------------------------------------------------
(* Messages. *)

\* A message taken in: registered, and its entry kept, claimed, linked or blocked.
LEMMA TakeInKeepsInv ==
    ASSUME Inv, NEW p \in Post, NEW t \in Text \union {None}, NEW edit \in BOOLEAN, NEW post \in {p, None},
           worker[p[2]] = Idle, ~Known(db, p) => t \in Text, post # None => wire[post] # <<>>,
           TakeIn(p, t, edit, post), UNCHANGED written
    PROVE  Inv'
<1> DEFINE a == p[2]
<1>1. a \in Account /\ a \in Worker /\ None \notin Post /\ None \notin Key /\ Manual \notin Account
  BY IntakeConstants DEF Worker, Key
<1>2. Sound(db) /\ db \in Tables /\ written \subseteq Message
  BY DEF Inv, Claims, Sound, SoundBut
<1>3. PICK e \in Registered(db, p, t, edit) :
        \E f \in Selected(e, e.obs[p].on) : \E choice \in Chosen(f, e.obs[p].on, t, a) :
          /\ db' = Prepared(f, e.obs[p].on, t, a, choice)
          /\ IF choice = "claim"
             THEN worker' = [worker EXCEPT ![a] = Start(db', e.obs[p].on, post)] /\ wire' = wire
             ELSE /\ wire' = IF post = None THEN wire ELSE [wire EXCEPT ![post] = Tail(@)]
                  /\ worker' = worker
  BY DEF TakeIn
<1> DEFINE k == e.obs[p].on
<1>4. Sound(e) /\ Since(db, e) /\ k \in Key
  BY <1>2, RegisteredIsSound
<1>5. PICK f \in Selected(e, k) : \E choice \in Chosen(f, k, t, a) :
          /\ db' = Prepared(f, k, t, a, choice)
          /\ IF choice = "claim"
             THEN worker' = [worker EXCEPT ![a] = Start(db', k, post)] /\ wire' = wire
             ELSE /\ wire' = IF post = None THEN wire ELSE [wire EXCEPT ![post] = Tail(@)]
                  /\ worker' = worker
  BY <1>3
<1> HIDE DEF k
<1>6. Sound(f) /\ Since(e, f)
  BY <1>4, SelectedIsSound
<1>7. PICK choice \in Chosen(f, k, t, a) :
          /\ db' = Prepared(f, k, t, a, choice)
          /\ IF choice = "claim"
             THEN worker' = [worker EXCEPT ![a] = Start(db', k, post)] /\ wire' = wire
             ELSE /\ wire' = IF post = None THEN wire ELSE [wire EXCEPT ![post] = Tail(@)]
                  /\ worker' = worker
  BY <1>5
<1>8. Sound(db') /\ Since(f, db')
      /\ (choice = "claim" => db'.entry[k].input \in Post /\ Known(db', db'.entry[k].input))
  BY <1>1, <1>4, <1>6, <1>7, PreparedIsSound
<1>9. e \in Tables /\ f \in Tables /\ db' \in Tables
  BY <1>4, <1>6, <1>8 DEF Sound, SoundBut
<1>10. Since(db, db')
  <2>1. Since(db, f)
    BY <1>2, <1>4, <1>6, <1>9, SinceTwice
  <2> QED  BY <1>2, <1>8, <1>9, <2>1, SinceTwice
<1>11. CASE choice # "claim" /\ post = None
  BY <1>7, <1>8, <1>10, <1>11, TablesAlone
<1>12. CASE choice # "claim" /\ post # None
  BY <1>7, <1>8, <1>10, <1>12, UpdateTaken
<1>13. CASE choice = "claim"
  <2> DEFINE j == Start(db', k, post)
             q == db'.entry[k].input
  <2>1. q \in Post /\ q # None /\ Known(db', q) /\ db'.obs[q] \in Observation /\ db'.entry[k] \in Entry
    BY <1>1, <1>4, <1>8, <1>9, <1>13 DEF Tables
  <2>2. j = [key |-> k, gen |-> db'.entry[k].gen, input |-> q, post |-> post, rev |-> db'.obs[q].rev,
             text |-> db'.obs[q].text]
    BY <2>1 DEF Start
  <2>3. j \in Claim
    <3>1. db'.entry[k].gen \in Nat /\ db'.obs[q].rev \in Nat /\ db'.obs[q].text \in Text \union {None}
      BY <2>1 DEF Entry, Observation
    <3> HIDE DEF j, q
    <3> QED  BY <1>4, <2>1, <2>2, <3>1 DEF Claim
  <2>4. j.key = k /\ j.input = q /\ j.rev = db'.obs[q].rev /\ j.text = db'.obs[q].text /\ j.post = post
    BY <2>2
  <2> HIDE DEF j, q
  <2>5. worker' = [worker EXCEPT ![a] = j] /\ wire' = wire
    BY <1>7, <1>13 DEF j
  <2>6. worker \in [Worker -> Claim] /\ wire \in [Post -> Seq(Update)]
    BY DEF Inv, Claims
  <2>7. db'.obs[q].rev \in Nat
    BY <2>1 DEF Observation
  <2>8. Given(db', j, a) /\ Owed(j, a, wire)
    BY <1>1, <1>4, <2>1, <2>4, <2>7 DEF Given, Owed
  <2>9. ASSUME NEW w \in Worker, worker'[w] # Idle
        PROVE  Given(db', worker'[w], w) /\ Owed(worker'[w], w, wire')
    <3>1. CASE w = a
      BY <1>1, <2>5, <2>6, <2>8, <3>1
    <3>2. CASE w # a
      <4>1. worker'[w] = worker[w] /\ worker[w] \in Claim
        BY <2>5, <2>6, <3>2
      <4>2. Given(db, worker[w], w) /\ Owed(worker[w], w, wire)
        BY <2>9, <4>1 DEF Inv, Claims
      <4>3. Given(db', worker[w], w)
        BY <1>2, <1>9, <1>10, <4>1, <4>2, GivenLasts
      <4> QED  BY <2>5, <4>1, <4>2, <4>3
    <3> QED  BY <3>1, <3>2
  <2>10. worker' \in [Worker -> Claim]
    BY <2>3, <2>5, <2>6
  <2> QED  BY <1>2, <1>8, <2>5, <2>6, <2>9, <2>10 DEF Inv, Claims
<1> QED  BY <1>11, <1>12, <1>13

\* The work an edit must stop first, of an observation the tables have.
LEMMA StopsOfKnown ==
    ASSUME NEW d, NEW p \in Post, NEW t, NEW c \in Stops(d, p, t)
    PROVE  c \in Work /\ Known(d, p)
BY DEF Stops

\* The update of an idle processor.
LEMMA NextUpdate ==
    ASSUME Inv, NEW p \in Post, Waiting(p)
    PROVE  worker[p[2]] = Idle /\ wire[p] # <<>> /\ Head(wire[p]).text \in Text /\ Head(wire[p]).edit \in BOOLEAN
<1>1. wire[p] \in Seq(Update) /\ wire[p] # <<>>
  BY DEF Inv, Claims, Waiting
<1>2. Head(wire[p]) \in Update
  BY <1>1
<1> QED  BY <1>2 DEF Waiting, Update

\* Receive: an edit that must wait is deferred, everything else is taken in.
LEMMA ReceiveKeepsInv ==
    ASSUME Inv, NEW p \in Post, Receive(p)
    PROVE  Inv'
<1> DEFINE u == Head(wire[p])
           deferred == IF u.edit THEN Stops(db, p, u.text) ELSE {}
<1>1. worker[p[2]] = Idle /\ wire[p] # <<>> /\ u.text \in Text /\ u.edit \in BOOLEAN
  BY NextUpdate DEF Receive
<1>2. Sound(db) /\ None \notin Post /\ written' = written
  BY IntakeConstants DEF Inv, Receive
<1>3. CASE deferred # {}
  <2>1. PICK c \in deferred : db' = Defer(db, p, u.text, c)
    BY <1>3 DEF Receive
  <2>2. c \in Work /\ Known(db, p)
    BY StopsOfKnown
  <2>3. Sound(db') /\ Since(db, db')
    BY <1>1, <1>2, <2>1, <2>2, DeferIsSound
  <2>4. wire' = [wire EXCEPT ![p] = Tail(@)] /\ worker' = worker
    BY <1>3 DEF Receive
  <2> QED  BY <1>1, <1>2, <2>3, <2>4, UpdateTaken
<1>4. CASE deferred = {}
  <2>1. TakeIn(p, u.text, u.edit, p)
    BY <1>4 DEF Receive
  <2> HIDE DEF u
  <2> QED  BY <1>1, <1>2, <2>1, TakeInKeepsInv
<1> QED  BY <1>3, <1>4

\* Reject: the update of a message that is no candidate any more, or of an account that left.
LEMMA RejectKeepsInv ==
    ASSUME Inv, NEW p \in Post, Reject(p)
    PROVE  Inv'
<1> DEFINE u == Head(wire[p])
           deferred == Stops(db, p, Gone)
<1>1. worker[p[2]] = Idle /\ wire[p] # <<>>
  BY NextUpdate DEF Reject
<1>2. Sound(db) /\ db \in Tables /\ written \subseteq Message /\ written' = written /\ Gone \in Text
  BY DEF Inv, Claims, Sound, SoundBut, Reject, Text
<1>3. wire' = [wire EXCEPT ![p] = Tail(@)] /\ worker' = worker
  BY DEF Reject
<1>4. \/ db' = db
      \/ \E c \in deferred : db' = Defer(db, p, Gone, c)
      \/ db' \in Deactivate(db, p)
  BY DEF Reject
<1>5. Sound(db') /\ Since(db, db')
  <2>1. CASE db' = db
    BY <1>2, <2>1, SinceItself
  <2>2. CASE \E c \in deferred : db' = Defer(db, p, Gone, c)
    <3>1. PICK c \in deferred : db' = Defer(db, p, Gone, c)
      BY <2>2
    <3>2. c \in Work /\ Known(db, p)
      BY StopsOfKnown
    <3> QED  BY <1>2, <3>1, <3>2, DeferIsSound
  <2>3. CASE db' \in Deactivate(db, p)
    BY <1>2, <2>3, DeactivateIsSound
  <2> QED  BY <1>4, <2>1, <2>2, <2>3
<1> QED  BY <1>1, <1>2, <1>3, <1>5, UpdateTaken

\* Recover: a registered input is taken in once more.
LEMMA RecoverKeepsInv ==
    ASSUME Inv, NEW p \in Post, Recover(p)
    PROVE  Inv'
<1>1. PICK k \in Key : Due(k) /\ db.entry[k].input = p
  BY DEF Recover
<1>2. None \notin Post /\ db.obs[p].text \in Text \union {None}
  BY IntakeConstants DEF Inv, Sound, SoundBut, Tables, Observation
<1>3. Known(db, p)
  BY <1>1, <1>2 DEF Inv, Sound, SoundBut, Shaped
<1>4. worker[p[2]] = Idle /\ TakeIn(p, db.obs[p].text, FALSE, None) /\ written' = written
  BY DEF Recover
<1> QED  BY <1>2, <1>3, <1>4, TakeInKeepsInv

\* Scan: the inputs of due entries.
LEMMA ScanKeepsInv ==
    ASSUME Inv, NEW k \in Key, Scan(k)
    PROVE  Inv'
<1>1. Sound(db') /\ Since(db, db')
  BY ReselectIsSound DEF Inv, Scan
<1> QED  BY <1>1, TablesAlone DEF Scan

-----------------------------------------------------------------------------
(* The end of a judgement, leases and crashes. *)

\* Publish: the claim still holds, so the text that was judged is the text in the tables and names
\* the entry.
LEMMA PublishKeepsInv ==
    ASSUME Inv, NEW w \in Worker, Publish(w)
    PROVE  Inv'
<1> DEFINE j == worker[w]
<1>1. w \in Account /\ j # Idle /\ Holds(db, w) /\ None \notin Post /\ "PROCESSING" \in Open
  BY IntakeConstants DEF Publish, Open
<1>2. Sound(db) /\ j \in Claim /\ Given(db, j, w)
  BY <1>1 DEF Inv, Claims
<1>3. j.key \in Key /\ j.input \in Post /\ j.input # None /\ Known(db, j.input)
      /\ (j.rev = db.obs[j.input].rev => j.text = db.obs[j.input].text)
  BY <1>1, <1>2 DEF Given
<1>4. /\ db.entry[j.key].st = "PROCESSING" /\ db.entry[j.key].gen = j.gen
      /\ db.obs[j.input].rev = j.rev /\ db.obs[j.input].on = j.key /\ db.obs[j.input].gen = j.gen
  BY <1>1, <1>3 DEF Holds
<1>5. j.key \in Gallery => j.text = j.key
  BY <1>2, <1>3, <1>4 DEF Sound, SoundBut, Named
<1>6. PICK accept \in BOOLEAN : db' \in Judged(db, j, accept)
  BY DEF Publish
<1>7. wire' = Acknowledged(w) /\ Leave(w) /\ written' = written
  BY DEF Publish
<1> HIDE DEF j
<1>8. Sound(db') /\ Since(db, db')
  BY <1>1, <1>2, <1>3, <1>4, <1>5, <1>6, JudgedIsSound
<1> QED  BY <1>1, <1>7, <1>8, ProcessorLeaves DEF j

\* Withdraw: the claim ends with the subscription, and another source may take over.
LEMMA WithdrawKeepsInv ==
    ASSUME Inv, NEW w \in Worker, Withdraw(w)
    PROVE  Inv'
<1>1. worker[w] # Idle /\ Leave(w) /\ wire' = wire /\ written' = written
      /\ db' \in Reselect(Fail(db, w, FALSE), worker[w].key)
  BY DEF Withdraw
<1>2. Sound(db) /\ worker[w].key \in Key
  BY <1>1 DEF Inv, Claims, Given
<1> DEFINE f == Fail(db, w, FALSE)
<1>3. Sound(f) /\ Since(db, f)
  BY <1>2, FailIsSound
<1> HIDE DEF f
<1>4. Sound(db') /\ Since(f, db')
  BY <1>1, <1>2, <1>3, ReselectIsSound DEF f
<1>5. db \in Tables /\ f \in Tables /\ db' \in Tables
  BY <1>2, <1>3, <1>4 DEF Sound, SoundBut
<1>6. Since(db, db')
  BY <1>3, <1>4, <1>5, SinceTwice
<1> QED  BY <1>1, <1>4, <1>6, ProcessorLeaves

\* ProcessorFails: a claim that still holds goes back.
LEMMA ProcessorFailsKeepsInv ==
    ASSUME Inv, NEW w \in Worker, ProcessorFails(w)
    PROVE  Inv'
<1>1. worker[w] # Idle /\ Leave(w) /\ wire' = wire /\ written' = written /\ db' = Fail(db, w, TRUE)
  BY DEF ProcessorFails
<1>2. Sound(db) /\ worker[w].key \in Key
  BY <1>1 DEF Inv, Claims, Given
<1>3. Sound(db') /\ Since(db, db')
  BY <1>1, <1>2, FailIsSound
<1> QED  BY <1>1, <1>3, ProcessorLeaves

\* LeaseExpires: only the lease goes, the owner stays until somebody claims the entry.
LEMMA LeaseExpiresKeepsInv ==
    ASSUME Inv, NEW k \in Key, LeaseExpires(k)
    PROVE  Inv'
<1> DEFINE e == [db.entry[k] EXCEPT !.live = FALSE]
<1>1. Sound(db) /\ db \in Tables /\ db.entry[k] \in Entry
  BY DEF Inv, Sound, SoundBut, Tables
<1>2. /\ e \in Entry /\ e.gen = db.entry[k].gen /\ e.removed = db.entry[k].removed /\ e.before = db.entry[k].before
      /\ e.work = db.entry[k].work /\ e.st = db.entry[k].st /\ e.owner = db.entry[k].owner
      /\ e.input = db.entry[k].input /\ ~e.live
  BY <1>1 DEF Entry
<1>3. db' = [db EXCEPT !.entry[k] = e]
  BY <1>1 DEF LeaseExpires, Tables
<1>4. (db.entry[k].st = "PROCESSING") = (db.entry[k].owner # None)
      /\ (db.entry[k].input # None => Known(db, db.entry[k].input))
  BY <1>1 DEF Sound, SoundBut, Shaped
<1> HIDE DEF e
<1>5. Sound(db') /\ Since(db, db')
  BY <1>1, <1>2, <1>3, <1>4, EntryMoves DEF Sound
<1> QED  BY <1>5, TablesAlone DEF LeaseExpires

\* Crash: the processors are gone, nothing was acknowledged for them.
LEMMA CrashKeepsInv ==
    ASSUME Inv, Crash
    PROVE  Inv'
<1>1. Sound(db') /\ db \in Tables /\ db' = db /\ wire' = wire /\ written' = written
  BY DEF Inv, Sound, SoundBut, Crash
<1>2. Since(db, db')
  BY <1>1, SinceItself
<1>3. worker' = [w \in Worker |-> Idle] /\ Idle \in Claim
  BY DEF Crash, Idle, Claim
<1>4. worker' \in [Worker -> Claim] /\ \A w \in Worker : worker'[w] = Idle
  BY <1>3
<1>5. wire' \in [Post -> Seq(Update)] /\ written' \subseteq Message
  BY <1>1 DEF Inv, Claims
<1> QED  BY <1>1, <1>2, <1>4, <1>5, ClaimsFollow

-----------------------------------------------------------------------------
(* The channel. *)

\* Write and EditMessage: updates are appended, those being worked on stay first.
LEMMA SentKeepsInv ==
    ASSUME Inv, NEW m \in Message, NEW t \in Text, NEW edit \in BOOLEAN, Sent(m, t, edit),
           UNCHANGED <<db, worker>>, written' \subseteq Message
    PROVE  Inv'
<1> DEFINE u == [text |-> t, edit |-> edit]
<1>1. worker \in [Worker -> Claim] /\ wire \in [Post -> Seq(Update)] /\ u \in Update /\ db \in Tables
      /\ Sound(db')
  BY DEF Inv, Claims, Update, Sound, SoundBut
<1>2. \A p \in Post : Append(wire[p], u) \in Seq(Update) /\ Append(wire[p], u) # <<>>
  <2> SUFFICES ASSUME NEW p \in Post
               PROVE  Append(wire[p], u) \in Seq(Update) /\ Append(wire[p], u) # <<>>
    OBVIOUS
  <2>1. wire[p] \in Seq(Update) /\ u \in Update
    BY <1>1
  <2> HIDE DEF u
  <2> QED  BY <2>1, AppendProperties
<1>3. wire' = [p \in Post |-> IF p[1] = m THEN Append(wire[p], u) ELSE wire[p]]
  BY DEF Sent
<1> HIDE DEF u
<1>4. wire' \in [Post -> Seq(Update)] /\ \A p \in Post : wire[p] # <<>> => wire'[p] # <<>>
  BY <1>1, <1>2, <1>3
<1>5. \A w \in Worker : worker[w] # Idle /\ worker[w].post # None => worker[w].post \in Post /\ wire[worker[w].post] # <<>>
  BY <1>1 DEF Inv, Claims, Owed, Claim
<1>6. Since(db, db')
  BY <1>1, SinceItself
<1> QED  BY <1>1, <1>4, <1>5, <1>6, ClaimsFollow

-----------------------------------------------------------------------------
(* The administrator. *)

\* AddGallery: the administrator's processor starts with a gallery.
LEMMA AddGalleryKeepsInv ==
    ASSUME Inv, NEW g \in Gallery, AddGallery(g)
    PROVE  Inv'
<1> DEFINE d == [db EXCEPT !.entry[g] = Readded(@)]
           r == Claimed(d, g, Manual)
           j == Start(r, g, None)
<1>1. /\ worker[Manual] = Idle /\ Claiming(d, g) /\ db' = r
      /\ worker' = [worker EXCEPT ![Manual] = Start(db', g, None)] /\ wire' = wire /\ written' = written
  BY DEF AddGallery
<1>2. g \in Key /\ Manual \in Worker /\ Manual \notin Account /\ MaxAttempts \in Nat /\ None \notin Post
  BY IntakeConstants DEF Key, Worker
<1>3. Sound(db)
  BY DEF Inv
<1>4. Sound(d) /\ Since(db, d) /\ d.obs = db.obs
  BY <1>3, ReaddedIsSound
<1>5. d.entry[g].st \in {"PENDING", "PROCESSING"} /\ ~(d.entry[g].attempts >= MaxAttempts)
  BY <1>1 DEF Claiming, Claimable, Exhausted
<1> HIDE DEF d
<1>6. db \in Tables /\ d \in Tables
  BY <1>3, <1>4 DEF Sound, SoundBut
<1>7. d.entry[g].attempts < MaxAttempts
  <2>1. d.entry[g].attempts \in 0 .. MaxAttempts
    BY <1>2, <1>6 DEF Tables, Entry
  <2> QED  BY <1>2, <1>5, <2>1
<1>8. Sound(r) /\ Since(d, r)
  BY <1>2, <1>4, <1>5, <1>7, ClaimedIsSound
<1> HIDE DEF r
<1>9. r \in Tables
  BY <1>8 DEF Sound, SoundBut
<1>10. Since(db, r)
  BY <1>4, <1>6, <1>8, <1>9, SinceTwice
<1>11. r.entry[g].gen \in Nat /\ r.entry[g].input \in Post \union {None}
       /\ \A p \in Post : r.obs[p].rev \in Nat /\ r.obs[p].text \in Text \union {None}
  BY <1>2, <1>9 DEF Tables, Entry, Observation
<1>12. j.key = g /\ j.post = None /\ j.input = r.entry[g].input
       /\ (j.input # None => j.rev = r.obs[j.input].rev /\ j.text = r.obs[j.input].text)
  BY DEF Start
<1>13. j \in Claim
  <2>1. 0 \in Nat /\ g \in Text \union Key \union {None} /\ None \in Post \union {None}
    BY <1>2
  <2> QED  BY <1>2, <1>11, <2>1 DEF Start, Claim
<1>14. j.input # None => Known(r, j.input)
  BY <1>2, <1>8, <1>12 DEF Sound, SoundBut, Shaped
<1> HIDE DEF j
<1>15. Given(r, j, Manual) /\ Owed(j, Manual, wire)
  BY <1>2, <1>11, <1>12, <1>14 DEF Given, Owed
<1>16. worker' = [worker EXCEPT ![Manual] = j] /\ db' = r
  BY <1>1 DEF j
<1>17. worker \in [Worker -> Claim] /\ wire \in [Post -> Seq(Update)] /\ written \subseteq Message
  BY DEF Inv, Claims
<1>18. ASSUME NEW w \in Worker, worker'[w] # Idle
       PROVE  Given(db', worker'[w], w) /\ Owed(worker'[w], w, wire')
  <2>1. CASE w = Manual
    BY <1>1, <1>2, <1>15, <1>16, <1>17, <2>1
  <2>2. CASE w # Manual
    <3>1. worker'[w] = worker[w] /\ worker[w] \in Claim
      BY <1>16, <1>17, <2>2
    <3>2. Given(db, worker[w], w) /\ Owed(worker[w], w, wire)
      BY <1>18, <3>1 DEF Inv, Claims
    <3>3. Given(r, worker[w], w)
      BY <1>6, <1>9, <1>10, <3>1, <3>2, GivenLasts
    <3> QED  BY <1>1, <3>1, <3>2, <3>3
  <2> QED  BY <2>1, <2>2
<1>19. worker' \in [Worker -> Claim]
  BY <1>13, <1>16, <1>17
<1> QED  BY <1>1, <1>8, <1>17, <1>18, <1>19 DEF Inv, Claims

\* PublishManual: its gallery has no work yet and gets one.
LEMMA PublishManualKeepsInv ==
    ASSUME Inv, PublishManual
    PROVE  Inv'
<1> DEFINE j == worker[Manual]
           i == [j EXCEPT !.text = j.key]
<1>1. /\ j # Idle /\ Holds(db, Manual) /\ WorksOf(db, j.key) = {} /\ NextId(db) # {}
      /\ db' = Created(db, i, NextId(db), "kept")
      /\ Leave(Manual) /\ wire' = wire /\ written' = written
  BY DEF PublishManual
<1>2. Manual \in Worker /\ "PROCESSING" \in Open
  BY DEF Worker, Open
<1>3. Sound(db) /\ j \in Claim /\ j.key \in Gallery /\ j.key \in Key
  BY <1>1, <1>2 DEF Inv, Claims, Given
<1>4. db.entry[j.key].st \in Open
  BY <1>1, <1>2 DEF Holds
<1>5. i.key = j.key /\ i.text = j.key
  BY <1>3 DEF Claim
<1> HIDE DEF i
<1>6. Sound(db') /\ Since(db, db')
  BY <1>1, <1>3, <1>4, <1>5, CreatedIsSound
<1> QED  BY <1>1, <1>2, <1>6, ProcessorLeaves

\* Download and DownloadEnds.
LEMMA DownloadKeepsInv ==
    ASSUME Inv, NEW c \in Work, Download(c) \/ DownloadEnds(c)
    PROVE  Inv'
<1>1. Sound(db)
  BY DEF Inv
<1>2. db' = [db EXCEPT !.work[c].run = "active"] \/ db' = [db EXCEPT !.work[c].run = "kept"]
  BY DEF Download, DownloadEnds
<1>3. Sound(db') /\ Since(db, db')
  <2> DEFINE f(run) == [db EXCEPT !.work[c].run = run]
  <2>1. \A run \in {"none", "active", "stopping", "kept"} : Sound(f(run)) /\ Since(db, f(run))
    BY <1>1, RunIsFree
  <2>2. db' = f("active") \/ db' = f("kept")
    BY <1>2
  <2> HIDE DEF f
  <2> QED  BY <2>1, <2>2
<1> QED  BY <1>3, TablesAlone DEF Download, DownloadEnds

\* Remove.
LEMMA RemoveKeepsInv ==
    ASSUME Inv, NEW c \in Work, Remove(c)
    PROVE  Inv'
<1>1. Sound(db) /\ written \subseteq Message /\ db' = Delete(db, c) /\ db \in Tables
  BY DEF Inv, Claims, Sound, SoundBut, Remove
<1>2. Sound(db') /\ db'.obs = db.obs
  BY <1>1, DeleteIsSound DEF Sound
<1>3. Since(db, db')
  <2>1. Since(db, db)
    BY <1>1, SinceItself
  <2> QED  BY <1>2, <2>1 DEF Since, Known
<1> QED  BY <1>2, <1>3, TablesAlone DEF Remove

\* A recorded change is still about a source of its work.
LEMMA SourceIsKnown ==
    ASSUME NEW d, Sound(d), NEW p \in Post, StillThatSource(d, p)
    PROVE  Known(d, p) /\ d.change[p].work \in Work /\ d.obs[p].gen = d.entry[d.obs[p].on].gen
           /\ d.change[p].text \in Text \union {None}
BY DEF StillThatSource, Sound, SoundBut, Linked, Tables, Change

\* ProcessChange: the edit that waited is carried out if p is still that source.
LEMMA ProcessChangeKeepsInv ==
    ASSUME Inv, NEW p \in Post, ProcessChange(p)
    PROVE  Inv'
<1> DEFINE n == db.change[p]
           done == IF n.text = Gone THEN Deactivate(db, p) ELSE Edit(db, p, n.text)
           St == {"NONE", "PENDING", "COMPLETED", "FAILED"}
<1>1. Sound(db) /\ db \in Tables /\ written \subseteq Message /\ "COMPLETED" \in St /\ "FAILED" \in St
  BY DEF Inv, Claims, Sound, SoundBut
<1>2. \/ db' = Settled(db, p, "FAILED")
      \/ StillThatSource(db, p) /\ db' = StopWork(db, n.work)
      \/ StillThatSource(db, p) /\ \E d \in done : db' = Settled(d, p, "COMPLETED")
  BY DEF ProcessChange
<1>3. Sound(db') /\ Since(db, db')
  <2>1. CASE db' = Settled(db, p, "FAILED")
    BY <1>1, <2>1, StatusIsFree DEF Settled
  <2>2. CASE StillThatSource(db, p) /\ db' = StopWork(db, n.work)
    BY <1>1, <2>2, SourceIsKnown, StopWorkIsSound
  <2>3. CASE StillThatSource(db, p) /\ \E d \in done : db' = Settled(d, p, "COMPLETED")
    <3>1. PICK d \in done : db' = Settled(d, p, "COMPLETED")
      BY <2>3
    <3>2. Known(db, p) /\ db.obs[p].gen = db.entry[db.obs[p].on].gen /\ n.text \in Text \union {None}
      BY <1>1, <2>3, SourceIsKnown
    <3>3. Sound(d) /\ Since(db, d)
      <4>1. CASE n.text = Gone
        BY <1>1, <4>1, DeactivateIsSound
      <4>2. CASE n.text # Gone
        BY <1>1, <3>2, <4>2, EditIsSound
      <4> QED  BY <4>1, <4>2
    <3>4. Sound(db') /\ Since(d, db')
      BY <1>1, <3>1, <3>3, StatusIsFree DEF Settled
    <3>5. d \in Tables /\ db' \in Tables
      BY <3>3, <3>4 DEF Sound, SoundBut
    <3> QED  BY <1>1, <3>3, <3>4, <3>5, SinceTwice
  <2> QED  BY <1>2, <2>1, <2>2, <2>3
<1> QED  BY <1>3, TablesAlone DEF ProcessChange

\* RetryChange: it waits again.
LEMMA RetryChangeKeepsInv ==
    ASSUME Inv, NEW p \in Post, RetryChange(p)
    PROVE  Inv'
<1> DEFINE n == db.change[p]
           f == [db EXCEPT !.change[p].st = "PENDING"]
           g == IF n.text \in Gallery THEN Revoked(f, n.text) ELSE f
<1>1. Sound(db) /\ StillThatSource(db, p) /\ db' = StopWork(g, n.work)
  BY DEF Inv, RetryChange
<1>2. n.work \in Work /\ n.text \in Text \union {None}
  BY <1>1, SourceIsKnown
<1> HIDE DEF n
<1>3. Sound(f) /\ Since(db, f)
  BY <1>1, StatusIsFree
<1> HIDE DEF f
<1>4. Sound(g) /\ Since(f, g)
  <2>1. CASE n.text \in Gallery
    BY <1>3, <2>1, RevokedIsSound DEF Key
  <2>2. CASE n.text \notin Gallery
    BY <1>3, <2>2, SinceItself DEF Sound, SoundBut
  <2> QED  BY <2>1, <2>2
<1> HIDE DEF g
<1>5. Sound(db') /\ Since(g, db')
  BY <1>1, <1>2, <1>4, StopWorkIsSound
<1>6. db \in Tables /\ f \in Tables /\ g \in Tables /\ db' \in Tables
  BY <1>1, <1>3, <1>4, <1>5 DEF Sound, SoundBut
<1>7. Since(db, db')
  <2>1. Since(db, g)
    BY <1>3, <1>4, <1>6, SinceTwice
  <2> QED  BY <1>5, <1>6, <2>1, SinceTwice
<1> QED  BY <1>5, <1>7, TablesAlone DEF RetryChange

-----------------------------------------------------------------------------
(* The invariant, and what it gives. *)

\* The empty tables.
LEMMA InitIsSound ==
    ASSUME Init
    PROVE  Inv
<1>1. /\ None \notin Key /\ None \notin Worker /\ None \notin Work /\ MaxAttempts \in Nat
  BY IntakeConstants DEF Key, Worker
<1>2. 0 \in Nat /\ 1 \in Nat \ {0} /\ 0 \in 0 .. MaxAttempts /\ "PENDING" \in State
  BY <1>1 DEF State
<1>3. NewEntry \in Entry /\ Unseen \in Observation /\ NoWork \in Found /\ NoChange \in Change /\ Idle \in Claim
  BY <1>2 DEF NewEntry, Entry, Unseen, Observation, NoWork, Found, NoChange, Change, Idle, Claim
<1>4. db \in Tables
  BY <1>3 DEF Init, Tables
<1>5. /\ \A k \in Key : db.entry[k] = NewEntry
      /\ \A p \in Post : db.obs[p] = Unseen
      /\ \A c \in Work : ~db.work[c].is
      /\ db.link = {}
  BY DEF Init, NoWork
<1>6. \A p \in Post : ~Known(db, p) /\ db.obs[p].rev = 0
  BY <1>5 DEF Known, Unseen
<1>7. Shaped(db) /\ Reborn(db)
  BY <1>1, <1>5 DEF Shaped, Reborn, NewEntry
<1>8. Dated(db) /\ Named(db, {}) /\ Unique(db) /\ Linked(db) /\ Late(db, {})
  BY <1>5, <1>6 DEF Dated, Named, Unique, Linked, Late
<1>9. Kept(db, {})
  BY <1>5 DEF Kept, NewEntry
<1>10. Sound(db)
  BY <1>4, <1>7, <1>8, <1>9 DEF Sound, SoundBut
<1>11. Claims
  <2>1. <<>> \in Seq(Update)
    OBVIOUS
  <2> QED  BY <1>3, <2>1 DEF Init, Claims
<1> QED  BY <1>10, <1>11 DEF Inv

\* One step for each action.
LEMMA NextKeepsInv ==
    ASSUME Inv, [Next]_vars
    PROVE  Inv'
<1>1. ASSUME NEW m \in Message, NEW t \in Text, Write(m, t) \/ EditMessage(m, t)
      PROVE  Inv'
  <2>1. written \subseteq Message
    BY DEF Inv, Claims
  <2>2. CASE Write(m, t)
    <3>1. Sent(m, t, FALSE) /\ UNCHANGED <<db, worker>> /\ written' \subseteq Message
      BY <2>1, <2>2 DEF Write
    <3> QED  BY <3>1, SentKeepsInv
  <2>3. CASE EditMessage(m, t)
    <3>1. Sent(m, t, TRUE) /\ UNCHANGED <<db, worker>> /\ written' \subseteq Message
      BY <2>1, <2>3 DEF EditMessage
    <3> QED  BY <3>1, SentKeepsInv
  <2> QED  BY <1>1, <2>2, <2>3
<1>2. ASSUME UNCHANGED <<db, worker, wire, written>>
      PROVE  Inv'
  <2>1. db \in Tables /\ Sound(db')
    BY <1>2 DEF Inv, Sound, SoundBut
  <2>2. Since(db, db')
    BY <1>2, <2>1, SinceItself
  <2> QED  BY <1>2, <2>1, <2>2, TablesAlone
<1>3. ASSUME NEW p \in Post, Receive(p) \/ Reject(p) \/ Recover(p) \/ ProcessChange(p) \/ RetryChange(p)
      PROVE  Inv'
  BY <1>3, ReceiveKeepsInv, RejectKeepsInv, RecoverKeepsInv, ProcessChangeKeepsInv, RetryChangeKeepsInv
<1>4. ASSUME NEW k \in Key, Scan(k) \/ LeaseExpires(k)
      PROVE  Inv'
  BY <1>4, ScanKeepsInv, LeaseExpiresKeepsInv
<1>5. ASSUME NEW w \in Worker, Publish(w) \/ Withdraw(w) \/ ProcessorFails(w)
      PROVE  Inv'
  BY <1>5, PublishKeepsInv, WithdrawKeepsInv, ProcessorFailsKeepsInv
<1>6. ASSUME NEW c \in Work, Download(c) \/ DownloadEnds(c) \/ Remove(c)
      PROVE  Inv'
  BY <1>6, DownloadKeepsInv, RemoveKeepsInv
<1>7. ASSUME NEW a \in Account, Subscription(a)
      PROVE  Inv'
  BY <1>2, <1>7 DEF Subscription
<1>8. CASE UNCHANGED vars
  BY <1>2, <1>8 DEF vars
<1> QED
  BY <1>1, <1>3, <1>4, <1>5, <1>6, <1>7, <1>8, AddGalleryKeepsInv, PublishManualKeepsInv, CrashKeepsInv DEF Next

(* The invariant of the intake: every transaction leaves the tables sound, and
   what each running processor was given is in them. *)
THEOREM InvHolds == Spec => []Inv
<1>1. Init => Inv
  BY InitIsSound
<1>2. Inv /\ [Next]_vars => Inv'
  BY NextKeepsInv
<1> QED  BY <1>1, <1>2, PTL DEF Spec

(* The tables keep their types and shapes: an owner and a lease exist exactly
   while an entry is being processed, and a linked entry names an existing work
   (the CHECKs of ingest_entries and what the code adds to them). *)
THEOREM TypesHold == Spec => []TypeOK
<1>1. Inv => TypeOK
  BY DEF Inv, Sound, SoundBut, Tables, Entry, State, Shaped, TypeOK
<1> QED  BY <1>1, InvHolds, PTL

(* Two works are never one gallery, for any number of accounts, messages and
   works (publish_candidate, edit_observation, merge_candidates). *)
THEOREM WorksStayUnique == Spec => []OneWorkPerGallery
<1>1. Inv => OneWorkPerGallery
  BY DEF Inv, Sound, SoundBut, Unique, OneWorkPerGallery
<1> QED  BY <1>1, InvHolds, PTL

(* The sources of a work are active observations of the current generation of an
   entry linked to it: edits, moves, withdrawals and removals leave none behind. *)
THEOREM SourcesStayCurrent == Spec => []SourcesAreCurrent
<1>1. Inv => SourcesAreCurrent
  BY DEF Inv, Sound, SoundBut, Linked, SourcesAreCurrent
<1> QED  BY <1>1, InvHolds, PTL

(* Every eligible observation of a linked entry is a source of its work,
   whenever it arrived (finish_claim, register_observation, edit_observation). *)
THEOREM PostsStayLinked == Spec => []PostsAreKept
<1>1. Inv => PostsAreKept
  BY DEF Inv, Sound, SoundBut, Kept, PostsAreKept
<1> QED  BY <1>1, InvHolds, PTL

(* A post of before the removal of its work, never edited, does not come back as
   a source of the work that is added later (_observation_generation). *)
THEOREM OldPostsRemainOut == Spec => []OldPostsStayOut
<1>1. Inv => OldPostsStayOut
  <2> SUFFICES ASSUME Inv, NEW l \in db.link, \A q \in Post : q[1] = l[2][1] => db.obs[q].rev <= 1,
                      l[2][1] \in db.entry[db.obs[l[2]].on].before
               PROVE  FALSE
    BY DEF OldPostsStayOut
  <2>1. l[2] \in Post /\ Unedited(db, l[2][1])
    BY DEF Inv, Sound, SoundBut, Tables, Unedited
  <2>2. Known(db, l[2]) /\ db.entry[db.obs[l[2]].on].st = "LINKED" /\ db.entry[db.obs[l[2]].on].gen = db.obs[l[2]].gen
    BY DEF Inv, Sound, SoundBut, Linked
  <2>3. db.obs[l[2]].gen < db.entry[db.obs[l[2]].on].gen
    BY <2>1, <2>2 DEF Inv, Sound, SoundBut, Late
  <2>4. db.obs[l[2]].gen \in Nat
    BY <2>1 DEF Inv, Sound, SoundBut, Tables, Observation
  <2> QED  BY <2>2, <2>3, <2>4
<1> QED  BY <1>1, InvHolds, PTL
=============================================================================
