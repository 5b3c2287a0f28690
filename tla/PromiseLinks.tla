---------------------------- MODULE PromiseLinks ----------------------------
(***************************************************************************)
(* The invariant of what becomes of Promises, and that the functions of a  *)
(* runtime keep it: creation, then(), the resolving functions, combinators *)
(* and the end of a reaction's job, finally()'s too.  PromiseOutcomes goes *)
(* on from here.                                                           *)
(*                                                                         *)
(* The model does not say what a pair of resolving functions is for; the   *)
(* inductive invariant says that there is an assignment, use, of a purpose *)
(* to every pair, for which what is listed, queued, in a batch or running  *)
(* fits, and what has been used has had its effect.                        *)
(***************************************************************************)
EXTENDS PromisesProofs

-----------------------------------------------------------------------------
(* What a pair of functions is for: "open", which anybody may call;        *)
(* "derived", which only the end of a reaction's job calls, of the         *)
(* reactions f and g to promise p; "adopting", which only the reactions of *)
(* promise p call, with its outcome.                                       *)
Use(kind, p, f, g) == [kind |-> kind, p |-> p, f |-> f, g |-> g]
Open == Use("open", 0, NoFn, NoFn)
Derived(p, f, g) == Use("derived", p, f, g)
Adopting(p) == Use("adopting", p, NoFn, NoFn)

PairsOf(r) == 1..Len(r.pairs)
PromisesOf(r) == 1..Len(r.promises)
IsUsed(r, k) == r.pairs[k].alreadyResolved
OwnerOf(r, k) == r.pairs[k].promise
Now(r, p) == r.promises[p].state
Gone(r, p) == Now(r, p) # "pending"
ResultOf(r, p) == r.promises[p].result
OutcomeOf(r, p) == <<Now(r, p), ResultOf(r, p)>>
Alike(r, p, q) == Gone(r, p) /\ Gone(r, q) /\ OutcomeOf(r, p) = OutcomeOf(r, q)
Simple(x) == x.t \notin {"promise", "thenable", "trap"}

(* A function that user code may have, or a combinator.                    *)
Public(r, use, h) == h.f \in {"resolve", "reject"} => h.a \in PairsOf(r) /\ use[h.a].kind = "open"

HandlersOK(r, use, p, f, g) ==
  \/ \E m \in PairsOf(r) : use[m] = Adopting(p) /\ f = ResolveFn(m) /\ g = RejectFn(m)
  \/ Public(r, use, f) /\ Public(r, use, g) /\ (f.f = "thunk" => Simple(f.x)) /\ g.f # "thunk"

Purposed(r, use, k) ==
  /\ use[k].kind \in {"open", "derived", "adopting"}
  /\ use[k].kind # "open" => use[k].p \in PromisesOf(r)
  /\ use[k].kind = "derived" => HandlersOK(r, use, use[k].p, use[k].f, use[k].g)
Uses(r, use) == \A k \in PairsOf(r) : Purposed(r, use, k)

(* The reactions that wait for a promise.                                  *)
Listed(r, p, i, k) == i \in 1..Len(r.promises[p].fulfillReactions) /\ r.promises[p].fulfillReactions[i].cap = k
ListsOK(r, use, p) ==
  LET fs == r.promises[p].fulfillReactions
      gs == r.promises[p].rejectReactions
  IN /\ Now(r, p) = "fulfilled" => Simple(ResultOf(r, p))
     /\ Gone(r, p) => fs = <<>> /\ gs = <<>>
     /\ Len(fs) = Len(gs)
     /\ \A i \in 1..Len(fs) :
          /\ fs[i].cap \in PairsOf(r) /\ gs[i].cap = fs[i].cap /\ ~IsUsed(r, fs[i].cap)
          /\ use[fs[i].cap] = Derived(p, fs[i].handler, gs[i].handler)
          /\ \A j \in 1..Len(fs) : fs[i].cap = fs[j].cap => i = j
Lists(r, use) == \A p \in PromisesOf(r) : ListsOK(r, use, p)

(* A job is what its pair is for, with the outcome of its promise.         *)
IsReaction(job) == job.k = "reaction"
JobFor(r, use, k) ==
  IF Now(r, use[k].p) = "fulfilled" THEN Job("reaction", "fulfill", k, use[k].f, ResultOf(r, use[k].p))
  ELSE Job("reaction", "reject", k, use[k].g, ResultOf(r, use[k].p))
JobOK(r, use, job) ==
  IsReaction(job) =>
    /\ job.cap \in PairsOf(r) /\ use[job.cap].kind = "derived" /\ ~IsUsed(r, job.cap)
    /\ Gone(r, use[job.cap].p) /\ job = JobFor(r, use, job.cap)

QueueOK(r, use) == \A n \in 1..Len(r.jobQueue) : JobOK(r, use, r.jobQueue[n])

(* jobs: those of the batches; hands: the pairs of reactions that run.     *)
BatchesOK(r, use, jobs) == \A job \in jobs : JobOK(r, use, job)
HandOK(r, use, k) == k \in PairsOf(r) /\ use[k].kind = "derived" /\ ~IsUsed(r, k)
HandsOK(r, use, hands) == \A k \in hands : HandOK(r, use, k)

IsListed(r, k) == \E p \in PromisesOf(r) : \E i : Listed(r, p, i, k)
IsQueued(r, n, k) == n \in 1..Len(r.jobQueue) /\ IsReaction(r.jobQueue[n]) /\ r.jobQueue[n].cap = k
InQueue(r, k) == \E n : IsQueued(r, n, k)
InBatch(jobs, k) == \E job \in jobs : IsReaction(job) /\ job.cap = k

(* A reaction is in one place only.                                        *)
Apart(r, jobs, hands) ==
  /\ \A k \in hands : ~IsListed(r, k) /\ ~InQueue(r, k) /\ ~InBatch(jobs, k)
  /\ \A k : InQueue(r, k) => ~InBatch(jobs, k)
  /\ \A m, n, k : IsQueued(r, m, k) /\ IsQueued(r, n, k) => m = n

(* What has been done when a pair has been used.                           *)
Passing(st, x) == Fn(IF st = "fulfilled" THEN "thunk" ELSE "thrower", 0, 0, x)
FinDone(r, use, n, k) ==
  LET f == r.finals[n]
      p == use[k].p
      d == OwnerOf(r, k)
  IN IF f.threw THEN OutcomeOf(r, d) = <<"rejected", f.via>>
     ELSE \E e \in PromisesOf(r), m \in PairsOf(r) :
            /\ <<d, PromiseVal(e)>> \in r.adopted /\ OwnerOf(r, m) = e
            /\ use[m] = Derived(use[m].p, Passing(Now(r, p), ResultOf(r, p)), NoFn)
            /\ f.via.t = "promise" => use[m].p = f.via.n
            /\ f.via.t = "plain" => Now(r, use[m].p) = "fulfilled"
Effect(r, use, k, h) ==
  /\ h.f = "none" => Alike(r, OwnerOf(r, k), use[k].p)
  /\ h.f = "thunk" => OutcomeOf(r, OwnerOf(r, k)) = <<"fulfilled", h.x>>
  /\ h.f = "thrower" => OutcomeOf(r, OwnerOf(r, k)) = <<"rejected", h.x>>
  /\ h.f \in {"resolve", "reject"} /\ use[h.a].kind = "adopting" => IsUsed(r, h.a)
  /\ h.f \in {"finThen", "finCatch"} => FinDone(r, use, h.a, k)
Chosen(r, use, k) == IF Now(r, use[k].p) = "fulfilled" THEN use[k].f ELSE use[k].g
Done(r, use, k) ==
  /\ use[k].kind = "adopting" => Alike(r, OwnerOf(r, k), use[k].p)
  /\ use[k].kind = "derived" => Gone(r, use[k].p) /\ Effect(r, use, k, Chosen(r, use, k))
(* now: pairs whose use is going on.                                       *)
Effects(r, use, now) == \A k \in PairsOf(r) : IsUsed(r, k) => k \in now \/ Done(r, use, k)

Derivation(r, use, d) == d.pair \in PairsOf(r) /\ use[d.pair].kind = "derived" /\ use[d.pair].p = d.from
Derivations(r, use) ==
  r.derived \in Seq([from : Nat, pair : Nat]) /\ \A i \in 1..Len(r.derived) : Derivation(r, use, r.derived[i])
Openly(r, use) == \A c \in 1..Len(r.combs) : use[r.combs[c].cap].kind = "open"

(* The context tracker has been asked for a context for every reaction     *)
(* that waits.                                                             *)
Waits(r, jobs, k) == IsListed(r, k) \/ InQueue(r, k) \/ InBatch(jobs, k)
Waiting(r, jobs) == {k \in PairsOf(r) : Waits(r, jobs, k)}
Owed(r, jobs) == r.grabs \in Nat /\ Cardinality(Waiting(r, jobs)) <= r.grabs

(* No reaction is lost, and the job of a promise resolved with another     *)
(* leads to reactions that adopt, but for the jobs that interrupts dropped.*)
Missed(r, k) == InBatch(r.lost, k)
Tended(r, use, jobs, hands) ==
  \A k \in PairsOf(r) : use[k].kind = "derived" => IsUsed(r, k) \/ k \in hands \/ Waits(r, jobs, k) \/ Missed(r, k)

Thenable(p, x) == Job("thenable", "none", p, NoFn, x)
Adopted(r, use, jobs, p, x) ==
  \/ \E n \in 1..Len(r.jobQueue) : r.jobQueue[n] = Thenable(p, x)
  \/ Thenable(p, x) \in jobs \cup r.lost
  \/ \E k, c \in PairsOf(r) : /\ OwnerOf(r, k) = p /\ use[k] = Adopting(x.n)
                              /\ use[c] = Derived(x.n, ResolveFn(k), RejectFn(k))
Adoptions(r, use, jobs) == \A a \in r.adopted : a[2].t = "promise" => Adopted(r, use, jobs, a[1], a[2])

(* A reaction whose job was dropped was one of those of its pair.          *)
Belongs(r, use, job) ==
  IsReaction(job) =>
    job.cap \in PairsOf(r) /\ use[job.cap].kind = "derived" /\ job.handler \in {use[job.cap].f, use[job.cap].g}
Losses(r, use) == \A job \in r.lost : Belongs(r, use, job)

Linked(r, use, jobs, hands, now) ==
  /\ Uses(r, use) /\ Lists(r, use) /\ QueueOK(r, use) /\ BatchesOK(r, use, jobs) /\ HandsOK(r, use, hands)
  /\ Apart(r, jobs, hands) /\ Effects(r, use, now) /\ Derivations(r, use) /\ Openly(r, use) /\ Owed(r, jobs)
  /\ Tended(r, use, jobs, hands) /\ Adoptions(r, use, jobs) /\ Losses(r, use)

(* What finally() has been called for.                                     *)
FinThen(n) == Fn("finThen", n, 0, Undefined)
FinCatch(n) == Fn("finCatch", n, 0, Undefined)
IsFor(r, k, n) == n \in 1..Len(r.finals) /\ r.finals[n].pair = k
Fins(r, use) ==
  /\ \A n \in 1..Len(r.finals) :
       /\ r.finals[n].pair \in PairsOf(r)
       /\ use[r.finals[n].pair] = Derived(r.finals[n].from, FinThen(n), FinCatch(n))
  /\ \A k \in PairsOf(r) : use[k].kind = "derived" =>
       /\ use[k].f.f = "finThen" => IsFor(r, k, use[k].f.a)
       /\ use[k].g.f = "finCatch" => IsFor(r, k, use[k].g.a)
       /\ use[k].f.f # "finCatch" /\ use[k].g.f # "finThen"

(* The stack: what is in the batches, and which reactions run.             *)
JobsOn(st) == UNION {{st[j].batch[i] : i \in 1..Len(st[j].batch)} : j \in 1..Len(st)}
HandlerAt(st, j) == j \in 1..Len(st) /\ st[j].k = "handler" /\ IsReaction(st[j].job)
HandsOn(st) == {st[j].job.cap : j \in {j \in 1..Len(st) : HandlerAt(st, j)}}
BatchHas(st, j, i, k) ==
  j \in 1..Len(st) /\ i \in 1..Len(st[j].batch) /\ IsReaction(st[j].batch[i]) /\ st[j].batch[i].cap = k
BatchesOnce(st) == \A j, l, i, m, k : BatchHas(st, j, i, k) /\ BatchHas(st, l, m, k) => j = l /\ i = m
HandsOnce(st) ==
  \A j, l : HandlerAt(st, j) /\ HandlerAt(st, l) /\ st[j].job.cap = st[l].job.cap => j = l
FrameOK(r, use, f) ==
  /\ f.k # "leave" => f.batch = <<>>
  /\ f.k = "handler" =>
       /\ ~IsReaction(f.job) => f.job.k = "thenable" /\ f.n \in PairsOf(r) /\ use[f.n].kind = "open"
       /\ IsReaction(f.job) => JobOK(r, use, f.job) /\ f.job.handler.f \notin Internal \cup {"none"}
FramesOK(r, use, st) == \A j \in 1..Len(st) : FrameOK(r, use, st[j])
StackOK(r, use, st) ==
  FramesOK(r, use, st) /\ BatchesOnce(st) /\ HandsOnce(st) /\ (st = <<>> => r.jobQueue = <<>>)

(* A call of finally() whose callback has thrown has ended.                *)
Untried(r) == \A n \in 1..Len(r.finals) : r.finals[n].threw => IsUsed(r, r.finals[n].pair)

(* Every reaction that runs has been given its context.                    *)
Attended(r, hands) == IsFiniteSet(hands) /\ r.resumed \in Nat /\ Cardinality(hands) <= r.resumed

(* The invariant.                                                          *)
Sound(r, use, jobs, hands) ==
  Linked(r, use, jobs, hands, {}) /\ Fins(r, use) /\ Untried(r) /\ Attended(r, hands)
Outcomes(r, use, h, st) ==
  Sound(r, use, JobsOn(st), HandsOn(st)) /\ StackOK(r, use, st) /\ \A f \in h : Public(r, use, f)

-----------------------------------------------------------------------------
(* What stays so when the runtime grows.                                   *)

Ext(use, v, r) == \A k \in PairsOf(r) : v[k] = use[k]
With(use, n, u) == [k \in Nat |-> IF k = n THEN u ELSE use[k]]

LEMMA Remain ==
  ASSUME NEW r, NEW s, Keeps(r, s)
  PROVE  /\ \A k \in PairsOf(r) : k \in PairsOf(s) /\ OwnerOf(s, k) = OwnerOf(r, k) /\ (IsUsed(r, k) => IsUsed(s, k))
         /\ \A p \in PromisesOf(r) : p \in PromisesOf(s)
         /\ \A p \in PromisesOf(r) : Gone(r, p) => /\ Gone(s, p) /\ Now(s, p) = Now(r, p)
                                                   /\ ResultOf(s, p) = ResultOf(r, p)
                                                   /\ OutcomeOf(s, p) = OutcomeOf(r, p)
<1>1. (\A p : Has(r, p) => Has(s, p)) /\ (\A k : HasPair(r, k) => HasPair(s, k))
  BY KeepsAll
<1> QED BY <1>1 DEF Keeps, Has, HasPair, PairsOf, PromisesOf, OwnerOf, IsUsed, Gone, Now, ResultOf, OutcomeOf

LEMMA Owners ==
  ASSUME NEW r, NEW busy, Good(r, busy)
  PROVE  /\ \A k \in PairsOf(r) : OwnerOf(r, k) \in PromisesOf(r)
         /\ Len(r.pairs) \in Nat /\ Len(r.promises) \in Nat /\ Len(r.jobQueue) \in Nat
<1>1. Typed(r)
  BY DEF Good
<1>2. \A k \in 1..Len(r.pairs) : r.pairs[k] \in Pairs(Size(r))
  BY <1>1, Elements
<1> QED BY <1>1, <1>2, Sizes DEF Pairs, PairsOf, PromisesOf, OwnerOf

(* A pair that has not been used has a promise that is pending.            *)
LEMMA UnusedPending ==
  ASSUME NEW r, NEW busy, Good(r, busy), NEW k \in PairsOf(r), ~IsUsed(r, k)
  PROVE  ~Gone(r, OwnerOf(r, k))
<1>1. OwnerOf(r, k) \in PromisesOf(r)
  BY Owners
<1> QED BY <1>1 DEF Good, OneEach, Free, Unused, Gone, Now, OwnerOf, IsUsed, PairsOf, PromisesOf

LEMMA AlikeStays ==
  ASSUME NEW r, NEW s, Keeps(r, s), NEW p \in PromisesOf(r), NEW q \in PromisesOf(r), Alike(r, p, q)
  PROVE  Alike(s, p, q)
BY Remain DEF Alike

LEMMA HandlersStay ==
  ASSUME NEW r, NEW s, Keeps(r, s), NEW use, NEW v, Ext(use, v, r), NEW p, NEW f, NEW g,
         HandlersOK(r, use, p, f, g)
  PROVE  HandlersOK(s, v, p, f, g)
<1>1. \A h : Public(r, use, h) => Public(s, v, h)
  BY Remain DEF Public, Ext
<1> QED BY <1>1, Remain DEF HandlersOK, Ext

LEMMA PurposeStays ==
  ASSUME NEW r, NEW s, Keeps(r, s), NEW use, NEW v, Ext(use, v, r), NEW k \in PairsOf(r), Purposed(r, use, k)
  PROVE  Purposed(s, v, k)
<1>1. v[k] = use[k]
  BY DEF Ext
<1>2. use[k].kind = "derived" => HandlersOK(s, v, use[k].p, use[k].f, use[k].g)
  BY HandlersStay DEF Purposed
<1> QED BY <1>1, <1>2, Remain DEF Purposed

LEMMA JobForStays ==
  ASSUME NEW r, NEW s, Keeps(r, s), NEW use, NEW v, NEW k, v[k] = use[k], use[k].p \in PromisesOf(r),
         Gone(r, use[k].p)
  PROVE  JobFor(s, v, k) = JobFor(r, use, k) /\ Chosen(s, v, k) = Chosen(r, use, k)
BY Remain DEF JobFor, Chosen

LEMMA JobStays ==
  ASSUME NEW r, NEW s, Keeps(r, s), NEW use, NEW v, Ext(use, v, r), Uses(r, use), NEW job, JobOK(r, use, job),
         IsReaction(job) => ~IsUsed(s, job.cap)
  PROVE  JobOK(s, v, job)
<1> SUFFICES ASSUME IsReaction(job)
             PROVE  /\ job.cap \in PairsOf(s) /\ v[job.cap].kind = "derived" /\ ~IsUsed(s, job.cap)
                    /\ Gone(s, v[job.cap].p) /\ job = JobFor(s, v, job.cap)
  BY DEF JobOK
<1>1. /\ job.cap \in PairsOf(r) /\ use[job.cap].kind = "derived"
      /\ Gone(r, use[job.cap].p) /\ job = JobFor(r, use, job.cap)
  BY DEF JobOK
<1>2. use[job.cap].p \in PromisesOf(r) /\ v[job.cap] = use[job.cap]
  BY <1>1 DEF Uses, Purposed, Ext
<1>3. JobFor(s, v, job.cap) = JobFor(r, use, job.cap)
  BY <1>1, <1>2, JobForStays
<1> QED BY <1>1, <1>2, <1>3, Remain

(* finals and adopted are only read of the runtime.                        *)
SameFinals(r, s) == s.finals = r.finals /\ r.adopted \subseteq s.adopted

LEMMA FinDoneStays ==
  ASSUME NEW r, NEW busy, Good(r, busy), NEW s, Keeps(r, s), SameFinals(r, s), NEW use, NEW v, Ext(use, v, r),
         Uses(r, use), NEW k \in PairsOf(r), use[k].p \in PromisesOf(r), Gone(r, use[k].p), NEW n, FinDone(r, use, n, k)
  PROVE  FinDone(s, v, n, k)
<1> DEFINE f == r.finals[n]
           p == use[k].p
           d == OwnerOf(r, k)
<1>1. s.finals[n] = f /\ v[k].p = p /\ OwnerOf(s, k) = d /\ d \in PromisesOf(r)
  BY Remain, Owners DEF SameFinals, Ext
<1>2. Now(s, p) = Now(r, p) /\ ResultOf(s, p) = ResultOf(r, p)
  BY Remain
<1>3. CASE f.threw
  <2>1. OutcomeOf(r, d) = <<"rejected", f.via>>
    BY <1>3 DEF FinDone
  <2>2. Gone(r, d)
    BY <2>1 DEF Gone, OutcomeOf
  <2>3. OutcomeOf(s, d) = <<"rejected", f.via>>
    BY <1>1, <2>1, <2>2, Remain
  <2> QED BY <1>1, <1>3, <2>3 DEF FinDone
<1>4. CASE ~f.threw
  <2>1. PICK e \in PromisesOf(r), m \in PairsOf(r) :
            /\ <<d, PromiseVal(e)>> \in r.adopted /\ OwnerOf(r, m) = e
            /\ use[m] = Derived(use[m].p, Passing(Now(r, p), ResultOf(r, p)), NoFn)
            /\ f.via.t = "promise" => use[m].p = f.via.n
            /\ f.via.t = "plain" => Now(r, use[m].p) = "fulfilled"
    BY <1>4 DEF FinDone
  <2>2. e \in PromisesOf(s) /\ m \in PairsOf(s) /\ v[m] = use[m] /\ OwnerOf(s, m) = e
    BY <2>1, Remain DEF Ext
  <2>3. f.via.t = "plain" => Now(s, v[m].p) = "fulfilled"
    <3>1. use[m].kind = "derived"
      BY <2>1 DEF Derived, Use
    <3>2. use[m].p \in PromisesOf(r)
      BY <3>1 DEF Uses, Purposed
    <3> QED BY <2>1, <2>2, <3>2, Remain DEF Gone
  <2>4. v[m] = Derived(v[m].p, Passing(Now(s, p), ResultOf(s, p)), NoFn)
    BY <1>2, <2>1, <2>2
  <2>5. <<d, PromiseVal(e)>> \in s.adopted
    BY <2>1 DEF SameFinals
  <2> HIDE DEF f, p, d
  <2>6. f.via.t = "promise" => v[m].p = f.via.n
    BY <2>1, <2>2
  <2> QED BY <1>1, <1>4, <2>2, <2>3, <2>4, <2>5, <2>6 DEF FinDone
<1> QED BY <1>3, <1>4

LEMMA DoneStays ==
  ASSUME NEW r, NEW busy, Good(r, busy), NEW s, Keeps(r, s), SameFinals(r, s), NEW use, NEW v, Ext(use, v, r),
         Uses(r, use), NEW k \in PairsOf(r), Done(r, use, k)
  PROVE  Done(s, v, k)
<1> DEFINE p == use[k].p
           d == OwnerOf(r, k)
<1>1. v[k] = use[k] /\ OwnerOf(s, k) = d /\ d \in PromisesOf(r)
  BY Remain, Owners DEF Ext
<1>2. use[k].kind # "open" => p \in PromisesOf(r)
  BY DEF Uses, Purposed
<1>3. ASSUME use[k].kind = "adopting" PROVE Alike(s, d, p)
  BY <1>1, <1>2, <1>3, AlikeStays DEF Done
<1>4. ASSUME use[k].kind = "derived"
      PROVE  Gone(s, p) /\ Effect(s, v, k, Chosen(s, v, k))
  <2> DEFINE h == Chosen(r, use, k)
  <2>1. Gone(r, p) /\ Effect(r, use, k, h) /\ p \in PromisesOf(r)
    BY <1>2, <1>4 DEF Done
  <2>2. Gone(s, p) /\ Chosen(s, v, k) = h
    BY <1>1, <2>1, Remain, JobForStays
  <2>3. h.f \in {"resolve", "reject"} => h.a \in PairsOf(r)
    <3>1. HandlersOK(r, use, p, use[k].f, use[k].g)
      BY <1>4 DEF Uses, Purposed
    <3>2. \A m : ResolveFn(m).a = m /\ RejectFn(m).a = m
      BY DEF ResolveFn, RejectFn, Fn
    <3>3. h = use[k].f \/ h = use[k].g
      BY DEF Chosen
    <3> HIDE DEF h, p
    <3> QED BY <3>1, <3>2, <3>3 DEF HandlersOK, Public
  <2> HIDE DEF h
  <2>4. h.f = "none" => Alike(s, d, p)
    BY <1>1, <2>1, AlikeStays DEF Effect
  <2>5. \A x : OutcomeOf(r, d) = <<"fulfilled", x>> \/ OutcomeOf(r, d) = <<"rejected", x>> => OutcomeOf(s, d) = OutcomeOf(r, d)
    <3>1. \A x : OutcomeOf(r, d) = <<"fulfilled", x>> \/ OutcomeOf(r, d) = <<"rejected", x>> => Gone(r, d)
      BY DEF OutcomeOf, Gone
    <3> QED BY <1>1, <3>1, Remain
  <2>6. h.f \in {"resolve", "reject"} /\ v[h.a].kind = "adopting" => IsUsed(s, h.a)
    BY <2>1, <2>3, Remain DEF Effect, Ext
  <2>7. h.f \in {"finThen", "finCatch"} => FinDone(s, v, h.a, k)
    BY <2>1, FinDoneStays DEF Effect
  <2> HIDE DEF p, d
  <2>8. Effect(s, v, k, h)
    BY <1>1, <2>1, <2>4, <2>5, <2>6, <2>7 DEF Effect, p, d
  <2> QED BY <2>2, <2>8
<1> QED BY <1>1, <1>3, <1>4 DEF Done

-----------------------------------------------------------------------------
(* A step: new pairs are for something, and whose functions are used,      *)
(* is used on purpose; new jobs are what they should be; nobody is lost.   *)

NewPairsFine(r, s, v, hands) ==
  \A k \in PairsOf(s) :
    k \in PairsOf(r) \/ (Purposed(s, v, k) /\ ~IsUsed(s, k) /\ (v[k].kind = "derived" => k \in hands))
UsedFine(r, s, use, hands, hands2, now) ==
  \A k \in PairsOf(r) : IsUsed(s, k) =>
    IsUsed(r, k) \/ use[k].kind = "open" \/ (k \in now /\ (use[k].kind = "derived" => k \in hands /\ k \notin hands2))
NewJobsFine(r, s, v) == \A n \in 1..Len(s.jobQueue) : n \in 1..Len(r.jobQueue) \/ JobOK(s, v, s.jobQueue[n])
Placed(r, s, hands, hands2) ==
  \A k \in PairsOf(r) :
    /\ IsListed(r, k) => IsListed(s, k) \/ InQueue(s, k)
    /\ k \in hands => k \in hands2 \/ IsUsed(s, k) \/ IsListed(s, k) \/ InQueue(s, k)
NewAdopted(r, s) ==
  \A a \in s.adopted : a \in r.adopted \/ (a[2].t = "promise" =>
    \E n \in 1..Len(s.jobQueue) : s.jobQueue[n] = Thenable(a[1], a[2]))

LEMMA Onward ==
  ASSUME NEW r, NEW busy, Good(r, busy), NEW s, Grown(r, s), SameFinals(r, s), s.lost = r.lost,
         NEW use, NEW v, Ext(use, v, r), NEW jobs, NEW hands, NEW hands2, NEW now, NEW now2, now \subseteq now2,
         Linked(r, use, jobs, hands, now),
         NewPairsFine(r, s, v, hands2), UsedFine(r, s, use, hands, hands2, now2), NewJobsFine(r, s, v),
         Placed(r, s, hands, hands2), NewAdopted(r, s),
         Lists(s, v), HandsOK(s, v, hands2), Apart(s, jobs, hands2), Derivations(s, v), Openly(s, v), Owed(s, jobs)
  PROVE  Linked(s, v, jobs, hands2, now2)
<1>0. /\ Keeps(r, s) /\ Uses(r, use) /\ Apart(r, jobs, hands) /\ QueueOK(r, use) /\ BatchesOK(r, use, jobs)
      /\ HandsOK(r, use, hands) /\ Effects(r, use, now)
      /\ Tended(r, use, jobs, hands) /\ Adoptions(r, use, jobs) /\ Losses(r, use)
  BY DEF Linked, Grown
<1>1. /\ \A k \in PairsOf(r) : k \in PairsOf(s) /\ OwnerOf(s, k) = OwnerOf(r, k) /\ v[k] = use[k]
      /\ \A k \in PairsOf(r) : IsUsed(r, k) => IsUsed(s, k)
  BY <1>0, Remain DEF Ext
<1>2. /\ Len(r.jobQueue) <= Len(s.jobQueue) /\ Len(r.jobQueue) \in Nat
      /\ \A n \in 1..Len(r.jobQueue) : s.jobQueue[n] = r.jobQueue[n]
  BY Owners DEF Grown, Longer
<1>3. Uses(s, v)
  <2> SUFFICES ASSUME NEW k \in PairsOf(s), k \in PairsOf(r) PROVE Purposed(s, v, k)
    BY DEF Uses, NewPairsFine
  <2> QED BY <1>0, PurposeStays DEF Uses
<1>4. \A job : JobOK(r, use, job) /\ (IsReaction(job) => job.cap \notin hands) => JobOK(s, v, job)
  <2> SUFFICES ASSUME NEW job, JobOK(r, use, job), IsReaction(job) => job.cap \notin hands PROVE JobOK(s, v, job)
    OBVIOUS
  <2>1. IsReaction(job) => ~IsUsed(s, job.cap)
    BY <1>1 DEF JobOK, UsedFine
  <2> QED BY <1>0, <2>1, JobStays
<1>5. QueueOK(s, v)
  <2> SUFFICES ASSUME NEW n \in 1..Len(r.jobQueue) PROVE JobOK(s, v, s.jobQueue[n])
    BY DEF QueueOK, NewJobsFine
  <2>1. JobOK(r, use, r.jobQueue[n]) /\ s.jobQueue[n] = r.jobQueue[n]
    BY <1>0, <1>2 DEF QueueOK
  <2>2. IsReaction(r.jobQueue[n]) => r.jobQueue[n].cap \notin hands
    BY <1>0 DEF Apart, InQueue, IsQueued
  <2> QED BY <1>4, <2>1, <2>2
<1>6. BatchesOK(s, v, jobs)
  <2> SUFFICES ASSUME NEW job \in jobs PROVE JobOK(s, v, job)
    BY DEF BatchesOK
  <2>1. JobOK(r, use, job) /\ (IsReaction(job) => job.cap \notin hands)
    BY <1>0 DEF BatchesOK, Apart, InBatch
  <2> QED BY <1>4, <2>1
<1>7. Effects(s, v, now2)
  <2> SUFFICES ASSUME NEW k \in PairsOf(s), IsUsed(s, k), k \notin now2 PROVE Done(s, v, k)
    BY DEF Effects
  <2>1. k \in PairsOf(r)
    BY DEF NewPairsFine
  <2>2. CASE IsUsed(r, k)
    <3>1. Done(r, use, k)
      BY <1>0, <2>1, <2>2 DEF Effects
    <3> QED BY <1>0, <2>1, <3>1, DoneStays
  <2>3. CASE ~IsUsed(r, k)
    <3>1. v[k].kind = "open"
      BY <1>1, <2>1, <2>3 DEF UsedFine
    <3> QED BY <3>1 DEF Done
  <2> QED BY <2>2, <2>3
<1>8. Tended(s, v, jobs, hands2)
  <2> SUFFICES ASSUME NEW k \in PairsOf(s), v[k].kind = "derived"
               PROVE  IsUsed(s, k) \/ k \in hands2 \/ Waits(s, jobs, k) \/ Missed(s, k)
    BY DEF Tended
  <2>1. CASE k \notin PairsOf(r)
    BY <2>1 DEF NewPairsFine
  <2>2. CASE k \in PairsOf(r)
    <3>1. IsUsed(r, k) \/ k \in hands \/ Waits(r, jobs, k) \/ Missed(r, k)
      BY <1>0, <1>1, <2>2 DEF Tended
    <3>2. InQueue(r, k) => InQueue(s, k)
      BY <1>2 DEF InQueue, IsQueued
    <3>3. Missed(r, k) => Missed(s, k)
      BY DEF Missed
    <3> QED BY <1>1, <2>2, <3>1, <3>2, <3>3 DEF Waits, Placed
  <2> QED BY <2>1, <2>2
<1>9. Adoptions(s, v, jobs)
  <2> SUFFICES ASSUME NEW a \in s.adopted, a[2].t = "promise" PROVE Adopted(s, v, jobs, a[1], a[2])
    BY DEF Adoptions
  <2>1. CASE a \notin r.adopted
    BY <2>1 DEF NewAdopted, Adopted
  <2>2. CASE a \in r.adopted
    <3>1. Adopted(r, use, jobs, a[1], a[2])
      BY <1>0, <2>2 DEF Adoptions
    <3>2. ASSUME NEW n \in 1..Len(r.jobQueue), r.jobQueue[n] = Thenable(a[1], a[2])
          PROVE  n \in 1..Len(s.jobQueue) /\ s.jobQueue[n] = Thenable(a[1], a[2])
      BY <1>2, <3>2
    <3>3. ASSUME NEW k \in PairsOf(r), NEW c \in PairsOf(r), OwnerOf(r, k) = a[1], use[k] = Adopting(a[2].n),
                 use[c] = Derived(a[2].n, ResolveFn(k), RejectFn(k))
          PROVE  Adopted(s, v, jobs, a[1], a[2])
      BY <1>1, <3>3 DEF Adopted
    <3> QED BY <3>1, <3>2, <3>3 DEF Adopted
  <2> QED BY <2>1, <2>2
<1>10. Losses(s, v)
  BY <1>0, <1>1 DEF Losses, Belongs
<1> QED BY <1>0, <1>3, <1>5, <1>6, <1>7, <1>8, <1>9, <1>10 DEF Linked

(* The parts that a step does not touch.                                   *)
LEMMA DerivationsStay ==
  ASSUME NEW r, NEW s, Keeps(r, s), NEW use, NEW v, Ext(use, v, r), Derivations(r, use), s.derived = r.derived
  PROVE  Derivations(s, v)
BY Remain DEF Derivations, Derivation, Ext

LEMMA OpenlyStays ==
  ASSUME NEW r, NEW busy, Good(r, busy), NEW s, s.combs = r.combs, NEW use, NEW v, Ext(use, v, r), Openly(r, use)
  PROVE  Openly(s, v)
<1>1. \A c \in 1..Len(r.combs) : r.combs[c].cap \in PairsOf(r)
  BY CombIs DEF HasComb, HasPair, PairsOf
<1> QED BY <1>1 DEF Openly, Ext

LEMMA WaitingFinite ==
  ASSUME NEW r, NEW busy, Good(r, busy), NEW jobs
  PROVE  IsFiniteSet(Waiting(r, jobs)) /\ Cardinality(Waiting(r, jobs)) \in Nat
<1>1. IsFiniteSet(1..Len(r.pairs))
  BY Owners, FS_Interval
<1>2. Waiting(r, jobs) \subseteq 1..Len(r.pairs)
  BY DEF Waiting, PairsOf
<1>3. IsFiniteSet(Waiting(r, jobs))
  BY <1>1, <1>2, FS_Subset
<1> QED BY <1>3, FS_CardinalityType

LEMMA OwedStill ==
  ASSUME NEW r, NEW busy, Good(r, busy), NEW jobs, Owed(r, jobs), NEW s, NEW less, s.grabs = r.grabs,
         Waiting(s, less) \subseteq Waiting(r, jobs)
  PROVE  Owed(s, less)
<1>1. Cardinality(Waiting(s, less)) <= Cardinality(Waiting(r, jobs)) /\ IsFiniteSet(Waiting(s, less))
  BY WaitingFinite, FS_Subset
<1>2. Cardinality(Waiting(s, less)) \in Nat /\ Cardinality(Waiting(r, jobs)) \in Nat
  BY <1>1, WaitingFinite, FS_CardinalityType
<1> QED BY <1>1, <1>2 DEF Owed

(* The functions that a pair may be used with in between.                  *)
LEMMA DoneNow ==
  ASSUME NEW r, NEW use, NEW jobs, NEW hands, NEW now, NEW k, Linked(r, use, jobs, hands, now \cup {k}),
         k \in PairsOf(r) => Done(r, use, k)
  PROVE  Linked(r, use, jobs, hands, now)
BY DEF Linked, Effects

-----------------------------------------------------------------------------
(* The kinds of change that native functions consist of.                   *)

LEMMA DerivedIs ==
  ASSUME NEW p, NEW f, NEW g
  PROVE  /\ Derived(p, f, g).kind = "derived" /\ Derived(p, f, g).p = p
         /\ Derived(p, f, g).f = f /\ Derived(p, f, g).g = g
BY DEF Derived, Use

LEMMA JobIs ==
  ASSUME NEW k, NEW typ, NEW cap, NEW h, NEW x
  PROVE  /\ Job(k, typ, cap, h, x).k = k /\ Job(k, typ, cap, h, x).typ = typ /\ Job(k, typ, cap, h, x).cap = cap
         /\ Job(k, typ, cap, h, x).handler = h /\ Job(k, typ, cap, h, x).arg = x
BY DEF Job

(* Combinators and counters change, or what then() derived is noted.       *)
LEMMA Untouched ==
  ASSUME NEW r, NEW busy, Good(r, busy), NEW s, Grown(r, s), NEW use, NEW jobs, NEW hands, NEW now,
         Linked(r, use, jobs, hands, now), Only(r, s, {"combs", "grabs", "resumed", "derived"}),
         Openly(s, use), Owed(s, jobs), Derivations(s, use)
  PROVE  Linked(s, use, jobs, hands, now)
<1>1. /\ s.promises = r.promises /\ s.pairs = r.pairs /\ s.jobQueue = r.jobQueue
      /\ s.adopted = r.adopted /\ s.finals = r.finals /\ s.lost = r.lost
  BY DEF Only
<1>2. Ext(use, use, r) /\ SameFinals(r, s) /\ NewAdopted(r, s)
  BY <1>1 DEF Ext, SameFinals, NewAdopted
<1>3. NewPairsFine(r, s, use, hands) /\ UsedFine(r, s, use, hands, hands, now) /\ NewJobsFine(r, s, use)
  BY <1>1 DEF NewPairsFine, UsedFine, NewJobsFine, PairsOf, IsUsed
<1>4. (\A k : IsListed(s, k) <=> IsListed(r, k)) /\ (\A n, k : IsQueued(s, n, k) <=> IsQueued(r, n, k))
  BY <1>1 DEF IsListed, Listed, PromisesOf, IsQueued
<1>5. Placed(r, s, hands, hands) /\ Apart(s, jobs, hands)
  BY <1>4 DEF Placed, Apart, Linked, InQueue
<1>6. Lists(s, use)
  BY <1>1 DEF Linked, Lists, ListsOK, Now, Gone, ResultOf, IsUsed, PairsOf, PromisesOf
<1>7. HandsOK(s, use, hands)
  BY <1>1 DEF Linked, HandsOK, HandOK, PairsOf, IsUsed
<1> QED BY <1>1, <1>2, <1>3, <1>5, <1>6, <1>7, Onward

(* A pair is used.                                                         *)
Marks(r, s, k) ==
  /\ Only(r, s, {"pairs"}) /\ PairsOf(s) = PairsOf(r) /\ IsUsed(s, k) /\ ~IsUsed(r, k)
  /\ \A m \in PairsOf(r) : m # k => (IsUsed(s, m) <=> IsUsed(r, m))

LEMMA MarksUsed ==
  ASSUME NEW r, NEW busy, Good(r, busy), NEW k, HasPair(r, k), ~r.pairs[k].alreadyResolved,
         NEW s, s = [r EXCEPT !.pairs[k].alreadyResolved = TRUE]
  PROVE  Marks(r, s, k)
<1> DEFINE e == [r.pairs[k] EXCEPT !.alreadyResolved = TRUE]
           q == Put(r.pairs, k, e)
           u == [r EXCEPT !.pairs = q]
<1>1. s = u
  BY DEF Put
<1>2. /\ r.pairs[k] \in Pairs(Size(r)) /\ Shape(r) /\ k \in 1..Len(r.pairs) /\ r.pairs \in Seq(Pairs(Size(r)))
  BY Elements DEF HasPair, Good, Typed
<1>3. e.alreadyResolved /\ e \in Pairs(Size(r)) /\ q = Put(r.pairs, k, e)
  BY <1>2, Zenon DEF Pairs
<1> HIDE DEF e, q
<1>4. Only(r, u, {"pairs"}) /\ u.pairs = q
  BY <1>2, Set_pairs, Zenon
<1> HIDE DEF u
<1>5. Len(u.pairs) = Len(r.pairs) /\ \A m \in 1..Len(r.pairs) : u.pairs[m] = IF m = k THEN e ELSE r.pairs[m]
  BY <1>2, <1>3, <1>4, ExceptSeq DEF Put
<1>6. PairsOf(u) = PairsOf(r) /\ k \in PairsOf(r) /\ IsUsed(u, k) /\ ~IsUsed(r, k)
  BY <1>2, <1>3, <1>5 DEF PairsOf, IsUsed
<1>7. \A m \in PairsOf(r) : m # k => (IsUsed(u, m) <=> IsUsed(r, m))
  BY <1>5 DEF PairsOf, IsUsed
<1> QED BY <1>1, <1>4, <1>6, <1>7, Zenon DEF Marks

LEMMA UsedLinked ==
  ASSUME NEW r, NEW busy, Good(r, busy), NEW use, NEW jobs, NEW hands, NEW now,
         Linked(r, use, jobs, hands, now), NEW k, k \in PairsOf(r), NEW s, Marks(r, s, k), Grown(r, s),
         use[k].kind = "derived" => k \in hands
  PROVE  Linked(s, use, jobs, hands \ {k}, now \cup {k})
<1> DEFINE less == hands \ {k}
<1>5. /\ s.promises = r.promises /\ s.jobQueue = r.jobQueue /\ s.derived = r.derived /\ s.combs = r.combs
      /\ s.adopted = r.adopted /\ s.finals = r.finals /\ s.lost = r.lost /\ s.grabs = r.grabs
  BY DEF Marks, Only
<1>6. /\ PairsOf(s) = PairsOf(r) /\ IsUsed(s, k) /\ ~IsUsed(r, k)
      /\ \A m \in PairsOf(r) : m # k => (IsUsed(s, m) <=> IsUsed(r, m))
  BY DEF Marks
<1>7. Ext(use, use, r) /\ SameFinals(r, s) /\ NewAdopted(r, s) /\ Keeps(r, s)
  BY <1>5 DEF Ext, SameFinals, NewAdopted, Grown
<1>8. (\A m : IsListed(s, m) <=> IsListed(r, m)) /\ (\A n, m : IsQueued(s, n, m) <=> IsQueued(r, n, m))
  BY <1>5 DEF IsListed, Listed, PromisesOf, IsQueued
<1>9. /\ Lists(r, use) /\ HandsOK(r, use, hands) /\ Apart(r, jobs, hands) /\ Derivations(r, use) /\ Openly(r, use)
      /\ Owed(r, jobs)
  BY DEF Linked
<1>10. NewPairsFine(r, s, use, less) /\ NewJobsFine(r, s, use)
  BY <1>5, <1>6 DEF NewPairsFine, NewJobsFine
<1>11. UsedFine(r, s, use, hands, less, now \cup {k})
  BY <1>6 DEF UsedFine
<1>12. Placed(r, s, hands, less)
  BY <1>6, <1>8 DEF Placed
<1>13. Apart(s, jobs, less)
  BY <1>8, <1>9 DEF Apart, InQueue
<1>14. HandsOK(s, use, less)
  BY <1>6, <1>9 DEF HandsOK, HandOK
<1>15. Lists(s, use)
  <2> SUFFICES ASSUME NEW p \in PromisesOf(r) PROVE ListsOK(s, use, p)
    BY <1>5 DEF Lists, PromisesOf
  <2>1. ListsOK(r, use, p) /\ s.promises[p] = r.promises[p]
    BY <1>5, <1>9 DEF Lists
  <2>2. \A i \in 1..Len(r.promises[p].fulfillReactions) : r.promises[p].fulfillReactions[i].cap # k
    <3> SUFFICES ASSUME NEW i \in 1..Len(r.promises[p].fulfillReactions), r.promises[p].fulfillReactions[i].cap = k
                 PROVE  FALSE
      OBVIOUS
    <3>1. use[k].kind = "derived"
      <4>1. use[k] = Derived(p, r.promises[p].fulfillReactions[i].handler, r.promises[p].rejectReactions[i].handler)
        BY <2>1 DEF ListsOK
      <4> QED BY <4>1, DerivedIs
    <3>2. IsListed(r, k)
      BY DEF IsListed, Listed
    <3> QED BY <1>9, <3>1, <3>2 DEF Apart
  <2> QED BY <1>6, <2>1, <2>2, Zenon DEF ListsOK, Now, Gone, ResultOf
<1>16. Derivations(s, use) /\ Openly(s, use)
  BY <1>5, <1>7, <1>9, DerivationsStay, OpenlyStays
<1>17. Owed(s, jobs)
  <2>1. Waiting(s, jobs) \subseteq Waiting(r, jobs)
    BY <1>6, <1>8 DEF Waiting, Waits, InQueue
  <2> QED BY <1>5, <1>9, <2>1, OwedStill
<1> HIDE DEF less
<1>18. Linked(s, use, jobs, less, now \cup {k})
  BY <1>5, <1>7, <1>10, <1>11, <1>12, <1>13, <1>14, <1>15, <1>16, <1>17, Onward
<1> QED BY <1>18 DEF less

(* A promise is settled, and its reactions become jobs.                    *)
ReactionsFor(r, p, st) ==
  IF st = "fulfilled" THEN r.promises[p].fulfillReactions ELSE r.promises[p].rejectReactions
ReactionJob(e, st, x) == Job("reaction", IF st = "fulfilled" THEN "fulfill" ELSE "reject", e.cap, e.handler, x)
Settles(r, s, p, st, x) ==
  /\ Only(r, s, {"promises", "jobQueue"}) /\ Len(s.promises) = Len(r.promises)
  /\ \A q \in PromisesOf(r) : q # p => s.promises[q] = r.promises[q]
  /\ Now(s, p) = st /\ ResultOf(s, p) = x
  /\ s.promises[p].fulfillReactions = <<>> /\ s.promises[p].rejectReactions = <<>>
  /\ Len(s.jobQueue) = Len(r.jobQueue) + Len(ReactionsFor(r, p, st))
  /\ \A n \in 1..Len(r.jobQueue) : s.jobQueue[n] = r.jobQueue[n]
  /\ \A i \in 1..Len(ReactionsFor(r, p, st)) :
       s.jobQueue[Len(r.jobQueue) + i] = ReactionJob(ReactionsFor(r, p, st)[i], st, x)

LEMMA SettledLinked ==
  ASSUME NEW r, NEW busy, Good(r, busy), NEW use, NEW jobs, NEW hands, NEW now,
         Linked(r, use, jobs, hands, now), NEW p \in PromisesOf(r), ~Gone(r, p),
         NEW st \in {"fulfilled", "rejected"}, NEW x, st = "fulfilled" => Simple(x),
         NEW s, Grown(r, s), Settles(r, s, p, st, x)
  PROVE  Linked(s, use, jobs, hands, now)
<1> DEFINE fs == r.promises[p].fulfillReactions
           gs == r.promises[p].rejectReactions
           rs == ReactionsFor(r, p, st)
           l == Len(r.jobQueue)
<1>1. /\ s.pairs = r.pairs /\ s.derived = r.derived /\ s.combs = r.combs /\ s.adopted = r.adopted
      /\ s.finals = r.finals /\ s.lost = r.lost /\ s.grabs = r.grabs
      /\ PairsOf(s) = PairsOf(r) /\ PromisesOf(s) = PromisesOf(r)
      /\ \A k : IsUsed(s, k) <=> IsUsed(r, k)
  BY DEF Settles, Only, PairsOf, PromisesOf, IsUsed
<1>2. /\ Uses(r, use) /\ Lists(r, use) /\ QueueOK(r, use) /\ BatchesOK(r, use, jobs) /\ HandsOK(r, use, hands)
      /\ Apart(r, jobs, hands) /\ Derivations(r, use) /\ Openly(r, use) /\ Owed(r, jobs)
  BY DEF Linked
<1>3. Ext(use, use, r) /\ SameFinals(r, s) /\ NewAdopted(r, s) /\ Keeps(r, s)
  BY <1>1 DEF Ext, SameFinals, NewAdopted, Grown
<1>4. NewPairsFine(r, s, use, hands) /\ UsedFine(r, s, use, hands, hands, now)
  BY <1>1 DEF NewPairsFine, UsedFine
<1>5. /\ Len(rs) = Len(fs) /\ Len(fs) = Len(gs) /\ l \in Nat
      /\ \A i \in 1..Len(fs) : /\ rs[i].cap = fs[i].cap /\ rs[i].handler = IF st = "fulfilled" THEN fs[i].handler ELSE gs[i].handler
                               /\ fs[i].cap \in PairsOf(r) /\ ~IsUsed(r, fs[i].cap)
                               /\ use[fs[i].cap] = Derived(p, fs[i].handler, gs[i].handler)
                               /\ \A j \in 1..Len(fs) : fs[i].cap = fs[j].cap => i = j
  BY <1>2, Owners DEF Lists, ListsOK, ReactionsFor
<1>6. Len(fs) \in Nat
  <2>1. r.promises[p] \in PromiseObjects(Size(r))
    BY Elements DEF Good, PromisesOf
  <2> QED BY <2>1, LenProperties DEF PromiseObjects
<1>7. \A i \in 1..Len(fs) : IsListed(r, fs[i].cap) /\ use[fs[i].cap].p = p /\ use[fs[i].cap].kind = "derived"
  <2> SUFFICES ASSUME NEW i \in 1..Len(fs)
               PROVE  IsListed(r, fs[i].cap) /\ use[fs[i].cap].p = p /\ use[fs[i].cap].kind = "derived"
    OBVIOUS
  <2>1. use[fs[i].cap].p = p /\ use[fs[i].cap].kind = "derived"
    <3>1. use[fs[i].cap] = Derived(p, fs[i].handler, gs[i].handler)
      BY <1>5
    <3> QED BY <3>1, DerivedIs
  <2>2. Listed(r, p, i, fs[i].cap)
    BY DEF Listed
  <2> QED BY <2>1, <2>2 DEF IsListed
<1>8. /\ Now(s, p) = st /\ ResultOf(s, p) = x /\ Len(s.jobQueue) = l + Len(fs)
      /\ \A n \in 1..l : s.jobQueue[n] = r.jobQueue[n]
      /\ \A i \in 1..Len(fs) : s.jobQueue[l + i] = ReactionJob(rs[i], st, x)
  BY <1>5, Zenon DEF Settles
<1> HIDE DEF rs, fs, gs, l
<1>9. \A n \in 1..Len(s.jobQueue) : n \in 1..l \/ \E i \in 1..Len(fs) : n = l + i
  <2> SUFFICES ASSUME NEW n \in 1..Len(s.jobQueue), n \notin 1..l PROVE n - l \in 1..Len(fs) /\ n = l + (n - l)
    OBVIOUS
  <2> QED BY <1>5, <1>6, <1>8
<1>10. NewJobsFine(r, s, use)
  <2> SUFFICES ASSUME NEW i \in 1..Len(fs) PROVE JobOK(s, use, s.jobQueue[l + i])
    BY <1>9 DEF NewJobsFine, l
  <2>1. s.jobQueue[l + i] = ReactionJob(rs[i], st, x)
    BY <1>8
  <2>2. JobFor(s, use, fs[i].cap) = ReactionJob(rs[i], st, x)
    <3>1. use[fs[i].cap].f = fs[i].handler /\ use[fs[i].cap].g = gs[i].handler
      <4>1. use[fs[i].cap] = Derived(p, fs[i].handler, gs[i].handler)
        BY <1>5
      <4> QED BY <4>1, DerivedIs
    <3>2. rs[i].cap = fs[i].cap /\ rs[i].handler = IF st = "fulfilled" THEN fs[i].handler ELSE gs[i].handler
      BY <1>5
    <3>3. CASE st = "fulfilled"
      BY <1>7, <1>8, <3>1, <3>2, <3>3 DEF JobFor, ReactionJob
    <3>4. CASE st # "fulfilled"
      BY <1>7, <1>8, <3>1, <3>2, <3>4 DEF JobFor, ReactionJob
    <3> QED BY <3>3, <3>4
  <2>3. ReactionJob(rs[i], st, x).cap = fs[i].cap
    BY <1>5, JobIs DEF ReactionJob
  <2>4. Gone(s, p)
    BY <1>8 DEF Gone
  <2> QED BY <1>1, <1>5, <1>7, <2>1, <2>2, <2>3, <2>4 DEF JobOK
<1>11. \A n, k : IsQueued(s, n, k) => IsQueued(r, n, k) \/ \E i \in 1..Len(fs) : n = l + i /\ k = fs[i].cap
  <2> SUFFICES ASSUME NEW n, NEW k, IsQueued(s, n, k)
               PROVE  IsQueued(r, n, k) \/ \E i \in 1..Len(fs) : n = l + i /\ k = fs[i].cap
    OBVIOUS
  <2>1. n \in 1..Len(s.jobQueue)
    BY DEF IsQueued
  <2>2. CASE n \in 1..l
    BY <1>8, <2>2 DEF IsQueued, l
  <2>3. CASE \E i \in 1..Len(fs) : n = l + i
    <3>1. PICK i \in 1..Len(fs) : n = l + i
      BY <2>3
    <3>2. s.jobQueue[n].cap = fs[i].cap
      <4>1. s.jobQueue[n] = ReactionJob(rs[i], st, x) /\ rs[i].cap = fs[i].cap
        BY <1>5, <1>8, <3>1, Zenon
      <4> QED BY <4>1, JobIs DEF ReactionJob
    <3> QED BY <3>1, <3>2 DEF IsQueued
  <2> QED BY <1>9, <2>1, <2>2, <2>3
<1>12. \A i \in 1..Len(fs) : InQueue(s, fs[i].cap)
  <2> SUFFICES ASSUME NEW i \in 1..Len(fs) PROVE IsQueued(s, l + i, fs[i].cap)
    BY DEF InQueue
  <2>1. l + i \in 1..Len(s.jobQueue)
    BY <1>5, <1>6, <1>8
  <2>2. s.jobQueue[l + i] = ReactionJob(rs[i], st, x) /\ rs[i].cap = fs[i].cap
    BY <1>5, <1>8
  <2>3. ReactionJob(rs[i], st, x).k = "reaction" /\ ReactionJob(rs[i], st, x).cap = fs[i].cap
    BY <2>2, JobIs DEF ReactionJob
  <2> QED BY <2>1, <2>2, <2>3 DEF IsQueued, IsReaction
<1>13. \A n, k : IsQueued(r, n, k) => IsQueued(s, n, k)
  <2>1. \A n \in 1..l : n \in 1..Len(s.jobQueue)
    BY <1>5, <1>6, <1>8
  <2> QED BY <1>8, <2>1 DEF IsQueued, l
<1>14. \A k : IsListed(s, k) => IsListed(r, k)
  <2> SUFFICES ASSUME NEW k, NEW q \in PromisesOf(r), NEW i, Listed(s, q, i, k) PROVE Listed(r, q, i, k)
    BY <1>1 DEF IsListed
  <2>1. q # p
    BY DEF Listed, Settles
  <2> QED BY <2>1 DEF Listed, Settles
<1>15. \A k : IsListed(r, k) => IsListed(s, k) \/ InQueue(s, k)
  <2> SUFFICES ASSUME NEW k, NEW q \in PromisesOf(r), NEW i, Listed(r, q, i, k) PROVE IsListed(s, k) \/ InQueue(s, k)
    BY DEF IsListed
  <2>1. CASE q = p
    BY <1>12, <2>1 DEF Listed, fs
  <2>2. CASE q # p
    <3>1. Listed(s, q, i, k)
      BY <2>2 DEF Listed, Settles
    <3> QED BY <1>1, <3>1 DEF IsListed
  <2> QED BY <2>1, <2>2
<1>16. Placed(r, s, hands, hands)
  BY <1>15 DEF Placed
<1>17. Lists(s, use)
  <2> SUFFICES ASSUME NEW q \in PromisesOf(r) PROVE ListsOK(s, use, q)
    BY <1>1 DEF Lists
  <2>1. CASE q = p
    <3>1. Len(<<>>) = 0 /\ 1..0 = {}
      OBVIOUS
    <3> QED BY <1>8, <2>1, <3>1 DEF ListsOK, Settles
  <2>2. CASE q # p
    <3>1. s.promises[q] = r.promises[q] /\ ListsOK(r, use, q)
      BY <1>2, <2>2 DEF Settles, Lists
    <3> QED BY <1>1, <3>1 DEF ListsOK, Now, Gone, ResultOf
  <2> QED BY <2>1, <2>2
<1>18. Apart(s, jobs, hands)
  <2>1. \A k \in hands : ~IsListed(s, k) /\ ~InQueue(s, k) /\ ~InBatch(jobs, k)
    BY <1>2, <1>7, <1>11, <1>14 DEF Apart, InQueue
  <2>2. \A i \in 1..Len(fs) : ~InBatch(jobs, fs[i].cap)
    BY <1>2, <1>7 DEF InBatch, BatchesOK, JobOK
  <2>3. \A k : InQueue(s, k) => ~InBatch(jobs, k)
    BY <1>2, <1>11, <2>2 DEF Apart, InQueue
  <2>4. \A i \in 1..Len(fs) : \A n : ~IsQueued(r, n, fs[i].cap)
    BY <1>2, <1>7, Zenon DEF IsQueued, QueueOK, JobOK
  <2>5. \A m, n, k : IsQueued(s, m, k) /\ IsQueued(s, n, k) => m = n
    <3> SUFFICES ASSUME NEW m, NEW n, NEW k, IsQueued(s, m, k), IsQueued(s, n, k) PROVE m = n
      OBVIOUS
    <3>1. IsQueued(r, m, k) \/ \E i \in 1..Len(fs) : m = l + i /\ k = fs[i].cap
      BY <1>11
    <3>2. IsQueued(r, n, k) \/ \E i \in 1..Len(fs) : n = l + i /\ k = fs[i].cap
      BY <1>11
    <3>3. IsQueued(r, m, k) /\ IsQueued(r, n, k) => m = n
      BY <1>2 DEF Apart
    <3>4. \A i, j \in 1..Len(fs) : fs[i].cap = fs[j].cap => i = j
      BY <1>5
    <3> QED BY <2>4, <3>1, <3>2, <3>3, <3>4, Zenon
  <2> QED BY <2>1, <2>3, <2>5 DEF Apart
<1>19. HandsOK(s, use, hands)
  BY <1>1, <1>2 DEF HandsOK, HandOK
<1>20. Derivations(s, use) /\ Openly(s, use)
  BY <1>1, <1>2, <1>3, DerivationsStay, OpenlyStays
<1>21. Owed(s, jobs)
  <2>1. Waiting(s, jobs) \subseteq Waiting(r, jobs)
    <3>1. \A k : InQueue(s, k) => InQueue(r, k) \/ IsListed(r, k)
      BY <1>7, <1>11 DEF InQueue
    <3> QED BY <1>1, <1>14, <3>1 DEF Waiting, Waits
  <2> QED BY <1>1, <1>2, <2>1, OwedStill
<1> QED BY <1>1, <1>3, <1>4, <1>10, <1>16, <1>17, <1>18, <1>19, <1>20, <1>21, Onward

-----------------------------------------------------------------------------
(* fulfill, reject and the resolving functions.                            *)

Joins(t, q, js) ==
  /\ Len(t) = Len(q) + Len(js) /\ \A n \in 1..Len(q) : t[n] = q[n]
  /\ \A i \in 1..Len(js) : t[Len(q) + i] = js[i]

LEMMA Joined ==
  ASSUME NEW S, NEW q, q \in Seq(S), NEW js, js \in Seq(S), NEW t, t = q \o js
  PROVE  Joins(t, q, js)
<1>1. Len(q) \in Nat /\ Len(js) \in Nat
  BY LenProperties
<1>2. /\ Len(t) = Len(q) + Len(js)
      /\ \A n \in 1..Len(q) + Len(js) : t[n] = IF n <= Len(q) THEN q[n] ELSE js[n - Len(q)]
  BY ConcatProperties
<1>3. \A n \in 1..Len(q) : t[n] = q[n]
  BY <1>1, <1>2
<1>4. ASSUME NEW i \in 1..Len(js) PROVE t[Len(q) + i] = js[i]
  <2>1. /\ Len(q) + i \in 1..Len(q) + Len(js) /\ ~(Len(q) + i <= Len(q)) /\ Len(q) + i - Len(q) = i
    BY <1>1
  <2>2. t[Len(q) + i] = js[Len(q) + i - Len(q)]
    BY <1>2, <2>1
  <2> QED BY <2>1, <2>2
<1> QED BY <1>2, <1>3, <1>4 DEF Joins

Triggers(r, s, reactions, typ, x) ==
  /\ Only(r, s, {"jobQueue"}) /\ Len(s.jobQueue) = Len(r.jobQueue) + Len(reactions)
  /\ \A n \in 1..Len(r.jobQueue) : s.jobQueue[n] = r.jobQueue[n]
  /\ \A i \in 1..Len(reactions) :
       s.jobQueue[Len(r.jobQueue) + i] = Job("reaction", typ, reactions[i].cap, reactions[i].handler, x)

LEMMA Triggered ==
  ASSUME NEW r, NEW busy, Good(r, busy), NEW reactions, reactions \in Seq(Reactions(Size(r))),
         NEW typ, typ \in {"fulfill", "reject"}, NEW x, x \in Values(Size(r)),
         NEW s, s = triggerPromiseReactions(r, reactions, typ, x)
  PROVE  Triggers(r, s, reactions, typ, x)
<1> DEFINE js == [i \in 1..Len(reactions) |-> Job("reaction", typ, reactions[i].cap, reactions[i].handler, x)]
           q == r.jobQueue \o js
<1>1. Len(reactions) \in Nat /\ \A i \in 1..Len(reactions) : reactions[i] \in Reactions(Size(r))
  BY ElementOfSeq, LenProperties
<1>2. \A i \in 1..Len(reactions) : js[i] = Job("reaction", typ, reactions[i].cap, reactions[i].handler, x)
  OBVIOUS
<1>3. \A i \in 1..Len(reactions) : js[i] \in JobsOf(Size(r))
  <2>1. Size(r).k \in Nat
    BY Sizes DEF Good
  <2> SUFFICES ASSUME NEW i \in 1..Len(reactions) PROVE js[i] \in JobsOf(Size(r))
    OBVIOUS
  <2>2. reactions[i].cap \in 0..Size(r).k /\ reactions[i].handler \in Functions(Size(r))
    BY <1>1 DEF Reactions
  <2>3. js[i] = Job("reaction", typ, reactions[i].cap, reactions[i].handler, x)
    OBVIOUS
  <2> HIDE DEF js
  <2> QED BY <2>1, <2>2, <2>3 DEF Job, JobsOf
<1>4. js \in [1..Len(reactions) -> JobsOf(Size(r))]
  BY <1>3
<1>5. s = [r EXCEPT !.jobQueue = q] /\ Shape(r) /\ q = r.jobQueue \o js /\ r.jobQueue \in Seq(JobsOf(Size(r)))
  BY DEF triggerPromiseReactions, Good, Typed
<1> HIDE DEF js, q
<1>6. js \in Seq(JobsOf(Size(r))) /\ Len(js) = Len(reactions)
  BY <1>1, <1>4, SeqDef, LenProperties
<1>7. Only(r, s, {"jobQueue"}) /\ s.jobQueue = q
  BY <1>5, Set_jobQueue, Zenon
<1>8. Joins(q, r.jobQueue, js)
  BY <1>5, <1>6, Joined, Zenon
<1> QED BY <1>2, <1>6, <1>7, <1>8 DEF Joins, Triggers

(* The promise object is replaced, then its reactions become jobs.         *)
LEMMA SettlesBy ==
  ASSUME NEW r, NEW busy, Good(r, busy), NEW p \in PromisesOf(r), NEW st \in {"fulfilled", "rejected"}, NEW x,
         x \in Values(Size(r)), NEW u, Good(u, busy), Only(r, u, {"promises"}), Size(u) = Size(r), NEW e, u.promises = Put(r.promises, p, e),
         e.state = st, e.result = x, e.fulfillReactions = <<>>, e.rejectReactions = <<>>,
         NEW s, s = triggerPromiseReactions(u, ReactionsFor(r, p, st), IF st = "fulfilled" THEN "fulfill" ELSE "reject", x)
  PROVE  Settles(r, s, p, st, x)
<1> DEFINE rs == ReactionsFor(r, p, st)
<1>1. r.promises \in Seq(PromiseObjects(Size(r))) /\ p \in 1..Len(r.promises)
  BY DEF Good, Typed, PromisesOf
<1>2. u.jobQueue = r.jobQueue /\ u.pairs = r.pairs /\ u.combs = r.combs /\ u.derived = r.derived
      /\ u.adopted = r.adopted /\ u.finals = r.finals /\ u.grabs = r.grabs /\ u.resumed = r.resumed /\ u.lost = r.lost
  BY DEF Only
<1>3. rs \in Seq(Reactions(Size(u)))
  <2>1. r.promises[p] \in PromiseObjects(Size(r))
    BY <1>1, ElementOfSeq
  <2> QED BY <2>1 DEF ReactionsFor, PromiseObjects
<1>4. /\ Only(u, s, {"jobQueue"}) /\ Len(s.jobQueue) = Len(u.jobQueue) + Len(rs)
      /\ \A n \in 1..Len(u.jobQueue) : s.jobQueue[n] = u.jobQueue[n]
      /\ \A i \in 1..Len(rs) :
           s.jobQueue[Len(u.jobQueue) + i]
             = Job("reaction", IF st = "fulfilled" THEN "fulfill" ELSE "reject", rs[i].cap, rs[i].handler, x)
  <2> HIDE DEF rs
  <2> DEFINE typ == IF st = "fulfilled" THEN "fulfill" ELSE "reject"
  <2>1. s = triggerPromiseReactions(u, rs, typ, x) /\ typ \in {"fulfill", "reject"} /\ x \in Values(Size(u))
    BY DEF rs
  <2>3. Good(u, busy) /\ rs \in Seq(Reactions(Size(u)))
    BY <1>3
  <2> HIDE DEF typ
  <2>2. Triggers(u, s, rs, typ, x)
    BY <2>1, <2>3, Triggered
  <2> QED BY <2>2 DEF typ, Triggers
<1> HIDE DEF rs
<1>5. Only(r, s, {"promises", "jobQueue"}) /\ s.promises = u.promises
  BY <1>2, <1>4 DEF Only
<1>6. Len(u.promises) = Len(r.promises) /\ u.promises[p] = e /\ \A q \in PromisesOf(r) : q # p => u.promises[q] = r.promises[q]
  BY <1>1 DEF Put, PromisesOf
<1> QED BY <1>2, <1>4, <1>5, <1>6 DEF Settles, ReactionJob, Now, ResultOf, rs

LEMMA FulfillSettles ==
  ASSUME NEW r, NEW busy, Good(r, busy), NEW p, Ready(r, busy, p), NEW x, x \in Values(Size(r)),
         NEW s, s = fulfill(r, p, x)
  PROVE  Settles(r, s, p, "fulfilled", x) /\ Grown(r, s)
<1> DEFINE q == r.promises[p]
           e == settlement(q, "fulfilled", x)
           u == [r EXCEPT !.promises[p] = e]
           reactions == r.promises[p].fulfillReactions
<1>1. s = triggerPromiseReactions(u, reactions, "fulfill", x) /\ q = r.promises[p]
      /\ e = settlement(q, "fulfilled", x)
  BY DEF fulfill
<1>2. Typed(r) /\ Has(r, p) /\ Free(r, busy, p) /\ q.state = "pending" /\ p \in PromisesOf(r)
  BY DEF Good, Ready, Has, PromisesOf
<1>3. q \in PromiseObjects(Size(r)) /\ TrackedWell(q)
  BY <1>2, Elements DEF Has, Good
<1>11. e.state = "fulfilled" /\ e.result = x /\ e.fulfillReactions = <<>> /\ e.rejectReactions = <<>>
  BY DEF settlement
<1> HIDE DEF e
<1>4. u = [r EXCEPT !.promises = Put(r.promises, p, e)] /\ Shape(r)
  BY <1>2 DEF Put, Typed
<1> HIDE DEF u
<1>6. Only(r, u, {"promises"}) /\ u.promises = Put(r.promises, p, e)
  BY <1>4, Set_promises
<1>7. reactions = ReactionsFor(r, p, "fulfilled")
  BY DEF ReactionsFor
<1> HIDE DEF q, reactions
<1>5. e \in PromiseObjects(Size(r)) /\ e.state = "fulfilled" /\ e.handled = q.handled /\ e.tracked = q.tracked
  BY <1>1, <1>3, SettlementIs
<1>8. NextOf(e, r, busy, p)
  BY <1>1, <1>2, <1>3, <1>5 DEF NextOf, TrackedWell
<1>9. Good(u, busy) /\ Size(u) = Size(r)
  <2>1. Good(u, busy) /\ Grown(r, u) /\ Size(u) = Size(r) /\ u.promises[p] = e
    BY <1>2, <1>6, <1>8, PromiseChanged
  <2> QED BY <2>1
<1>10. Settles(r, s, p, "fulfilled", x)
  BY <1>1, <1>2, <1>6, <1>7, <1>9, <1>11, SettlesBy
<1> QED BY <1>10, Fulfilled

LEMMA RejectSettles ==
  ASSUME NEW r, NEW busy, Good(r, busy), NEW p, Ready(r, busy, p), NEW x, x \in Values(Size(r)),
         NEW s, s = reject(r, p, x)
  PROVE  Settles(r, s, p, "rejected", x) /\ Grown(r, s)
<1> DEFINE q == r.promises[p]
           d == settlement(q, "rejected", x)
           t == [r EXCEPT !.promises[p] = d]
           e == [d EXCEPT !.tracked = IF d.handled THEN @ ELSE "reject"]
           u == trackPromiseRejection(t, p, "reject")
           reactions == r.promises[p].rejectReactions
<1>1. s = triggerPromiseReactions(u, reactions, "reject", x) /\ q = r.promises[p]
      /\ d = settlement(q, "rejected", x)
  BY DEF reject
<1>2. Typed(r) /\ Has(r, p) /\ Free(r, busy, p) /\ q.state = "pending" /\ p \in PromisesOf(r)
  BY DEF Good, Ready, Has, PromisesOf
<1>3. q \in PromiseObjects(Size(r)) /\ TrackedWell(q)
  BY <1>2, Elements DEF Has, Good
<1>11. d.result = x /\ d.fulfillReactions = <<>> /\ d.rejectReactions = <<>>
  BY DEF settlement
<1> HIDE DEF d
<1>4. u = [r EXCEPT !.promises = Put(r.promises, p, e)] /\ Shape(r)
  <2>1. r.promises \in Seq(PromiseObjects(Size(r))) /\ Shape(r) /\ p \in 1..Len(r.promises)
    BY <1>2 DEF Typed, Has
  <2>2. t.promises = [r.promises EXCEPT ![p] = d] /\ t.promises[p] = d
    BY <2>1 DEF Shape
  <2>3. u = [t EXCEPT !.promises = [t.promises EXCEPT ![p] = e]]
    BY <2>2, Zenon DEF trackPromiseRejection
  <2>4. [t.promises EXCEPT ![p] = e] = [r.promises EXCEPT ![p] = e]
    <3> HIDE DEF e, t
    <3> QED BY <2>1, <2>2
  <2> QED BY <2>1, <2>3, <2>4, Zenon DEF Shape, Put
<1> HIDE DEF u
<1>6. Only(r, u, {"promises"}) /\ u.promises = Put(r.promises, p, e)
  <2> HIDE DEF e
  <2> QED BY <1>4, Set_promises
<1>7. reactions = ReactionsFor(r, p, "rejected")
  BY DEF ReactionsFor
<1> HIDE DEF q, reactions
<1>5. d \in PromiseObjects(Size(r)) /\ d.state = "rejected" /\ d.handled = q.handled /\ d.tracked = q.tracked
  BY <1>1, <1>3, SettlementIs
<1>8. /\ NextOf(e, r, busy, p)
      /\ e.state = "rejected" /\ e.result = x /\ e.fulfillReactions = <<>> /\ e.rejectReactions = <<>>
  <2>1. e \in PromiseObjects(Size(r)) /\ e.state = "rejected" /\ e.handled = q.handled
        /\ e.tracked = IF q.handled THEN q.tracked ELSE "reject"
    BY <1>5 DEF PromiseObjects
  <2>2. e.result = x /\ e.fulfillReactions = <<>> /\ e.rejectReactions = <<>>
    BY <1>5, <1>11 DEF PromiseObjects
  <2> HIDE DEF e
  <2> QED BY <1>1, <1>2, <1>3, <2>1, <2>2 DEF NextOf, TrackedWell
<1> HIDE DEF e
<1>9. Good(u, busy) /\ Size(u) = Size(r)
  <2>1. Good(u, busy) /\ Grown(r, u) /\ Size(u) = Size(r) /\ u.promises[p] = e
    BY <1>2, <1>6, <1>8, PromiseChanged
  <2> QED BY <2>1
<1>10. Settles(r, s, p, "rejected", x)
  BY <1>1, <1>2, <1>6, <1>7, <1>8, <1>9, SettlesBy
<1> QED BY <1>10, Rejected

(* A promise is resolved with another object: a job will call its then().  *)
Defers(r, s, p, x) ==
  /\ Only(r, s, {"jobQueue", "adopted"}) /\ s.adopted = r.adopted \cup {<<p, x>>}
  /\ Len(s.jobQueue) = Len(r.jobQueue) + 1 /\ s.jobQueue[Len(r.jobQueue) + 1] = Thenable(p, x)
  /\ \A n \in 1..Len(r.jobQueue) : s.jobQueue[n] = r.jobQueue[n]

LEMMA ThenableLinked ==
  ASSUME NEW r, NEW busy, Good(r, busy), NEW use, NEW jobs, NEW hands, NEW now,
         Linked(r, use, jobs, hands, now), NEW p, NEW x, NEW s, Grown(r, s), Defers(r, s, p, x)
  PROVE  Linked(s, use, jobs, hands, now)
<1> DEFINE l == Len(r.jobQueue)
<1>1. /\ s.pairs = r.pairs /\ s.derived = r.derived /\ s.combs = r.combs /\ s.promises = r.promises
      /\ s.finals = r.finals /\ s.lost = r.lost /\ s.grabs = r.grabs
      /\ PairsOf(s) = PairsOf(r) /\ PromisesOf(s) = PromisesOf(r)
      /\ \A k : IsUsed(s, k) <=> IsUsed(r, k)
  BY DEF Defers, Only, PairsOf, PromisesOf, IsUsed
<1>2. /\ Lists(r, use) /\ HandsOK(r, use, hands)
      /\ Apart(r, jobs, hands) /\ Derivations(r, use) /\ Openly(r, use) /\ Owed(r, jobs)
  BY DEF Linked
<1>3. Ext(use, use, r) /\ SameFinals(r, s) /\ Keeps(r, s)
  BY <1>1 DEF Ext, SameFinals, Grown, Defers
<1>4. NewPairsFine(r, s, use, hands) /\ UsedFine(r, s, use, hands, hands, now)
  BY <1>1 DEF NewPairsFine, UsedFine
<1>5. /\ l \in Nat /\ Len(s.jobQueue) = l + 1 /\ s.jobQueue[l + 1] = Thenable(p, x)
      /\ \A n \in 1..l : s.jobQueue[n] = r.jobQueue[n]
  BY Owners DEF Defers
<1>6. ~IsReaction(Thenable(p, x))
  BY JobIs DEF IsReaction, Thenable
<1>7. \A n : n \in 1..Len(s.jobQueue) <=> n \in 1..l \/ n = l + 1
  BY <1>5
<1>8. NewJobsFine(r, s, use)
  BY <1>5, <1>6, <1>7 DEF NewJobsFine, JobOK
<1>9. NewAdopted(r, s)
  <2> SUFFICES ASSUME NEW a \in s.adopted, a \notin r.adopted
               PROVE  \E n \in 1..Len(s.jobQueue) : s.jobQueue[n] = Thenable(a[1], a[2])
    BY DEF NewAdopted
  <2>1. a = <<p, x>>
    BY DEF Defers
  <2> QED BY <1>5, <1>7, <2>1
<1>10. (\A k : IsListed(s, k) <=> IsListed(r, k)) /\ (\A n, k : IsQueued(s, n, k) <=> IsQueued(r, n, k))
  BY <1>1, <1>5, <1>6, <1>7 DEF IsListed, Listed, IsQueued
<1>11. Placed(r, s, hands, hands) /\ Apart(s, jobs, hands)
  BY <1>2, <1>10 DEF Placed, Apart, InQueue
<1>12. Lists(s, use)
  BY <1>1, <1>2 DEF Lists, ListsOK, Now, Gone, ResultOf
<1>13. HandsOK(s, use, hands) /\ Derivations(s, use) /\ Openly(s, use)
  BY <1>1, <1>2 DEF HandsOK, HandOK, Derivations, Derivation, Openly
<1>14. Owed(s, jobs)
  <2>1. Waiting(s, jobs) \subseteq Waiting(r, jobs)
    BY <1>1, <1>10 DEF Waiting, Waits, InQueue
  <2> QED BY <1>1, <1>2, <2>1, OwedStill
<1> QED BY <1>1, <1>3, <1>4, <1>8, <1>9, <1>11, <1>12, <1>13, <1>14, Onward

LEMMA QueuesThenable ==
  ASSUME NEW r, NEW busy, Good(r, busy), NEW p, Ready(r, busy, p), NEW x, x \in Values(Size(r)),
         x # PromiseVal(p), x.t \in {"promise", "thenable"}, NEW s, s = resolution(r, p, x)
  PROVE  Defers(r, s, p, x)
<1> DEFINE u == [r EXCEPT !.adopted = @ \cup {<<p, x>>}]
           a == r.adopted \cup {<<p, x>>}
           job == Job("thenable", "none", p, NoFn, x)
           q == Append(r.jobQueue, job)
<1>1. s = [u EXCEPT !.jobQueue = q] /\ u = [r EXCEPT !.adopted = a] /\ a = r.adopted \cup {<<p, x>>}
  BY DEF resolution, enqueuePromiseJob
<1>2. Shape(r) /\ r.jobQueue \in Seq(JobsOf(Size(r)))
  BY DEF Good, Typed
<1>3. job \in JobsOf(Size(r)) /\ job = Thenable(p, x)
  <2>1. p \in 1..Size(r).p /\ NoFn \in Functions(Size(r))
    BY OwnValues DEF Ready, Has, Size
  <2> QED BY <2>1 DEF Job, JobsOf, Thenable
<1>4. q = Append(r.jobQueue, job)
  OBVIOUS
<1> HIDE DEF u, a, job, q
<1>5. Only(r, u, {"adopted"}) /\ u.adopted = a
  BY <1>1, <1>2, Set_adopted, Zenon
<1>6. Only(u, s, {"jobQueue"}) /\ s.jobQueue = q
  <2>1. Shape(u)
    BY <1>5 DEF Only
  <2>2. s = [u EXCEPT !.jobQueue = q]
    BY <1>1
  <2> QED BY <2>1, <2>2, Set_jobQueue
<1>7. Only(r, s, {"jobQueue", "adopted"}) /\ s.adopted = a
  BY <1>5, <1>6 DEF Only
<1>8. Len(q) = Len(r.jobQueue) + 1 /\ q[Len(r.jobQueue) + 1] = job /\ \A n \in 1..Len(r.jobQueue) : q[n] = r.jobQueue[n]
  BY <1>2, <1>3, <1>4, AppendProperties
<1> QED BY <1>1, <1>3, <1>6, <1>7, <1>8 DEF Defers

(* What comes of a promise that is resolved or rejected.                   *)
Others(r, s) ==
  /\ r.adopted \subseteq s.adopted /\ s.finals = r.finals /\ s.derived = r.derived /\ s.combs = r.combs
  /\ s.grabs = r.grabs /\ s.resumed = r.resumed /\ s.lost = r.lost
Resolves(r, s, p, x) ==
  /\ Others(r, s) /\ (Simple(x) => OutcomeOf(s, p) = <<"fulfilled", x>>)
  /\ x.t = "promise" /\ x.n # p => <<p, x>> \in s.adopted
Rejects(r, s, p, x) == Others(r, s) /\ OutcomeOf(s, p) = <<"rejected", x>>

LEMMA ResolutionLinked ==
  ASSUME NEW r, NEW busy, Good(r, busy), NEW use, NEW jobs, NEW hands, NEW now,
         Linked(r, use, jobs, hands, now), NEW p, Ready(r, busy, p), NEW x, x \in Values(Size(r)),
         NEW s, s = resolution(r, p, x)
  PROVE  Linked(s, use, jobs, hands, now) /\ Resolves(r, s, p, x)
<1>0. p \in PromisesOf(r) /\ ~Gone(r, p) /\ Grown(r, s)
  BY Resolution DEF Ready, Has, PromisesOf, Gone, Now
<1>1. CASE x = PromiseVal(p)
  <2>1. x.t = "promise" /\ x.n = p
    BY <1>1 DEF PromiseVal, Val
  <2>2. s = reject(r, p, TypeError) /\ TypeError \in Values(Size(r))
    BY <1>1, <2>1, OwnValues DEF resolution
  <2>3. Settles(r, s, p, "rejected", TypeError)
    BY <2>2, RejectSettles
  <2>4. Linked(s, use, jobs, hands, now)
    BY <1>0, <2>3, SettledLinked
  <2> QED BY <2>1, <2>3, <2>4 DEF Resolves, Others, Simple, Settles, Only
<1>2. CASE x # PromiseVal(p) /\ x.t = "trap"
  <2>1. s = reject(r, p, Val("plain", 1)) /\ Val("plain", 1) \in Values(Size(r))
    BY <1>2, OwnValues DEF resolution
  <2>2. Settles(r, s, p, "rejected", Val("plain", 1))
    BY <2>1, RejectSettles
  <2>3. Linked(s, use, jobs, hands, now)
    BY <1>0, <2>2, SettledLinked
  <2> QED BY <1>2, <2>2, <2>3 DEF Resolves, Others, Simple, Settles, Only
<1>3. CASE x # PromiseVal(p) /\ x.t \in {"promise", "thenable"}
  <2>1. Defers(r, s, p, x)
    BY <1>3, QueuesThenable
  <2>2. Linked(s, use, jobs, hands, now)
    BY <1>0, <2>1, ThenableLinked
  <2> QED BY <1>3, <2>1, <2>2 DEF Resolves, Others, Simple, Defers, Only
<1>4. CASE x # PromiseVal(p) /\ Simple(x)
  <2>1. s = fulfill(r, p, x)
    BY <1>4 DEF resolution, Simple
  <2>2. Settles(r, s, p, "fulfilled", x)
    BY <2>1, FulfillSettles
  <2>3. Linked(s, use, jobs, hands, now)
    BY <1>0, <1>4, <2>2, SettledLinked
  <2> QED BY <1>4, <2>2, <2>3 DEF Resolves, Others, Simple, Settles, Only, OutcomeOf
<1> QED BY <1>1, <1>2, <1>3, <1>4 DEF Simple


-----------------------------------------------------------------------------
(* The resolving functions.                                                *)
LEMMA NotAgain ==
  ASSUME NEW r, NEW use, NEW jobs, NEW hands, NEW now, Linked(r, use, jobs, hands, now), NEW k, IsUsed(r, k)
  PROVE  Linked(r, use, jobs, hands \ {k}, now \cup {k}) /\ k \notin hands
<1>1. k \notin hands
  BY DEF Linked, HandsOK, HandOK
<1>2. hands \ {k} = hands
  BY <1>1
<1>3. Effects(r, use, now \cup {k})
  BY DEF Linked, Effects
<1> QED BY <1>1, <1>2, <1>3, Zenon DEF Linked

LEMMA ResolveLinked ==
  ASSUME NEW r, NEW busy, Good(r, busy), NEW use, NEW jobs, NEW hands, NEW now,
         Linked(r, use, jobs, hands, now), NEW k, HasPair(r, k), use[k].kind = "derived" => k \in hands \/ IsUsed(r, k),
         NEW x, x \in Values(Size(r)), NEW s, s = resolve(r, k, x)
  PROVE  /\ Linked(s, use, jobs, hands \ {k}, now \cup {k}) /\ IsUsed(s, k)
         /\ IsUsed(r, k) => s = r
         /\ ~IsUsed(r, k) => Resolves(r, s, OwnerOf(r, k), x)
<1>0. k \in PairsOf(r)
  BY DEF HasPair, PairsOf
<1>1. CASE IsUsed(r, k)
  <2>1. s = r
    BY <1>1 DEF resolve, IsUsed
  <2> QED BY <1>1, <2>1, NotAgain
<1>2. CASE ~IsUsed(r, k)
  <2> DEFINE u == [r EXCEPT !.pairs[k].alreadyResolved = TRUE]
             p == OwnerOf(r, k)
  <2>1. s = resolution(u, p, x) /\ ~r.pairs[k].alreadyResolved
    BY <1>2 DEF resolve, IsUsed, OwnerOf
  <2>2. Good(u, busy) /\ Grown(r, u) /\ Size(u) = Size(r) /\ Ready(u, busy, p)
    BY <2>1, UsePair DEF OwnerOf
  <2>3. Marks(r, u, k)
    BY <2>1, MarksUsed
  <2> HIDE DEF u, p
  <2>4. Linked(u, use, jobs, hands \ {k}, now \cup {k})
    BY <1>0, <1>2, <2>2, <2>3, UsedLinked
  <2>5. Linked(s, use, jobs, hands \ {k}, now \cup {k}) /\ Resolves(u, s, p, x) /\ Grown(u, s)
    BY <2>1, <2>2, <2>4, ResolutionLinked, Resolution
  <2>6. IsUsed(s, k)
    BY <1>0, <2>3, <2>5, Remain DEF Marks, Grown
  <2>7. Resolves(r, s, p, x)
    BY <2>3, <2>5 DEF Marks, Only, Resolves, Others
  <2> QED BY <1>2, <2>5, <2>6, <2>7 DEF p
<1> QED BY <1>1, <1>2

LEMMA RejectLinked ==
  ASSUME NEW r, NEW busy, Good(r, busy), NEW use, NEW jobs, NEW hands, NEW now,
         Linked(r, use, jobs, hands, now), NEW k, HasPair(r, k), use[k].kind = "derived" => k \in hands \/ IsUsed(r, k),
         NEW x, x \in Values(Size(r)), NEW s, s = rejectBy(r, k, x)
  PROVE  /\ Linked(s, use, jobs, hands \ {k}, now \cup {k}) /\ IsUsed(s, k)
         /\ IsUsed(r, k) => s = r
         /\ ~IsUsed(r, k) => Rejects(r, s, OwnerOf(r, k), x)
<1>0. k \in PairsOf(r)
  BY DEF HasPair, PairsOf
<1>1. CASE IsUsed(r, k)
  <2>1. s = r
    BY <1>1 DEF rejectBy, IsUsed
  <2> QED BY <1>1, <2>1, NotAgain
<1>2. CASE ~IsUsed(r, k)
  <2> DEFINE u == [r EXCEPT !.pairs[k].alreadyResolved = TRUE]
             p == OwnerOf(r, k)
  <2>1. s = reject(u, p, x) /\ ~r.pairs[k].alreadyResolved
    BY <1>2 DEF rejectBy, IsUsed, OwnerOf
  <2>2. Good(u, busy) /\ Grown(r, u) /\ Size(u) = Size(r) /\ Ready(u, busy, p)
    BY <2>1, UsePair DEF OwnerOf
  <2>3. Marks(r, u, k)
    BY <2>1, MarksUsed
  <2> HIDE DEF u, p
  <2>4. Linked(u, use, jobs, hands \ {k}, now \cup {k})
    BY <1>0, <1>2, <2>2, <2>3, UsedLinked
  <2>8. Settles(u, s, p, "rejected", x) /\ Grown(u, s)
    BY <2>1, <2>2, RejectSettles
  <2>9. p \in PromisesOf(u) /\ ~Gone(u, p)
    BY <2>2 DEF Ready, Has, PromisesOf, Gone, Now
  <2>5. Linked(s, use, jobs, hands \ {k}, now \cup {k})
    BY <2>2, <2>4, <2>8, <2>9, SettledLinked
  <2>6. IsUsed(s, k)
    BY <1>0, <2>3, <2>8, Remain DEF Marks, Grown
  <2>7. Rejects(r, s, p, x)
    BY <2>3, <2>8 DEF Marks, Only, Rejects, Others, Settles, OutcomeOf
  <2> QED BY <1>2, <2>5, <2>6, <2>7 DEF p
<1> QED BY <1>1, <1>2

(* A function that anybody may call.                                       *)
LEMMA OpenDone ==
  ASSUME NEW r, NEW use, NEW jobs, NEW hands, NEW now, NEW k, Linked(r, use, jobs, hands \ {k}, now \cup {k}),
         use[k].kind = "open", k \notin hands
  PROVE  Linked(r, use, jobs, hands, now)
<1>1. hands \ {k} = hands
  OBVIOUS
<1>2. Done(r, use, k)
  BY DEF Done
<1> QED BY <1>1, <1>2, DoneNow

LEMMA OpenResolved ==
  ASSUME NEW r, NEW busy, Good(r, busy), NEW use, NEW jobs, NEW hands, NEW now,
         Linked(r, use, jobs, hands, now), NEW k, HasPair(r, k), use[k].kind = "open",
         NEW x, x \in Values(Size(r)), NEW s, s = resolve(r, k, x) \/ s = rejectBy(r, k, x)
  PROVE  /\ Linked(s, use, jobs, hands, now) /\ Others(r, s) /\ IsUsed(s, k)
         /\ s = resolve(r, k, x) => s = r \/ Resolves(r, s, OwnerOf(r, k), x)
<1>1. k \notin hands
  BY DEF Linked, HandsOK, HandOK
<1>2. CASE s = resolve(r, k, x)
  <2>1. /\ Linked(s, use, jobs, hands \ {k}, now \cup {k}) /\ IsUsed(s, k)
        /\ s = r \/ Resolves(r, s, OwnerOf(r, k), x)
    BY <1>2, ResolveLinked
  <2> QED BY <1>1, <2>1, OpenDone DEF Resolves, Others
<1>3. CASE s = rejectBy(r, k, x) /\ s # resolve(r, k, x)
  <2>1. /\ Linked(s, use, jobs, hands \ {k}, now \cup {k}) /\ IsUsed(s, k)
        /\ s = r \/ Rejects(r, s, OwnerOf(r, k), x)
    BY <1>3, RejectLinked
  <2> QED BY <1>1, <1>3, <2>1, OpenDone DEF Rejects, Others
<1> QED BY <1>2, <1>3

(* The end of a reaction's job.                                            *)
LEMMA SettleLinked ==
  ASSUME NEW r, NEW busy, Good(r, busy), NEW use, NEW jobs, NEW hands, NEW now,
         Linked(r, use, jobs, hands, now), NEW k, k \in hands, NEW ok \in BOOLEAN,
         NEW x, x \in Values(Size(r)), NEW s, s = settle(r, k, ok, x)
  PROVE  /\ Linked(s, use, jobs, hands \ {k}, now \cup {k}) /\ IsUsed(s, k)
         /\ ok => Resolves(r, s, OwnerOf(r, k), x)
         /\ ~ok => Rejects(r, s, OwnerOf(r, k), x)
<1>1. HasPair(r, k) /\ ~IsUsed(r, k) /\ k # 0
  BY DEF Linked, HandsOK, HandOK, HasPair, PairsOf
<1>2. CASE ok
  <2>1. s = resolve(r, k, x)
    BY <1>1, <1>2 DEF settle, NoPair
  <2>2. /\ Linked(s, use, jobs, hands \ {k}, now \cup {k}) /\ IsUsed(s, k)
        /\ Resolves(r, s, OwnerOf(r, k), x)
    BY <1>1, <2>1, ResolveLinked
  <2> QED BY <1>2, <2>2, Zenon
<1>3. CASE ~ok
  <2>1. s = rejectBy(r, k, x)
    BY <1>1, <1>3 DEF settle, NoPair
  <2>2. /\ Linked(s, use, jobs, hands \ {k}, now \cup {k}) /\ IsUsed(s, k)
        /\ Rejects(r, s, OwnerOf(r, k), x)
    BY <1>1, <2>1, RejectLinked
  <2> QED BY <1>3, <2>2
<1> QED BY <1>2, <1>3


-----------------------------------------------------------------------------
(* Combinators, and calls of native functions.                             *)
LEMMA OthersOn ==
  ASSUME NEW r, NEW s, NEW u, Others(r, s), Others(s, u)
  PROVE  Others(r, u)
BY DEF Others

(* What else a native function leaves alone.                               *)
Untold(r, s) ==
  /\ r.adopted \subseteq s.adopted /\ s.finals = r.finals /\ s.derived = r.derived
  /\ s.grabs = r.grabs /\ s.resumed = r.resumed /\ s.lost = r.lost

LEMMA RecountedLinked ==
  ASSUME NEW r, NEW busy, Good(r, busy), NEW use, NEW jobs, NEW hands, NEW now,
         Linked(r, use, jobs, hands, now), NEW s, Recounted(r, s)
  PROVE  Linked(s, use, jobs, hands, now) /\ Untold(r, s)
<1>1. Grown(r, s) /\ Only(r, s, {"combs"}) /\ Len(s.combs) = Len(r.combs)
      /\ \A c \in 1..Len(r.combs) : s.combs[c].cap = r.combs[c].cap
  BY DEF Recounted, Size, HasComb
<1>2. Only(r, s, {"combs", "grabs", "resumed", "derived"}) /\ s.grabs = r.grabs
  BY <1>1 DEF Only
<1>3. Openly(s, use) /\ Derivations(s, use)
  BY <1>1, Zenon DEF Linked, Openly, Only, Derivations, Derivation, PairsOf
<1>4. Owed(s, jobs)
  <2>1. s.promises = r.promises /\ s.pairs = r.pairs /\ s.jobQueue = r.jobQueue
    BY <1>1 DEF Only
  <2>2. Waiting(s, jobs) = Waiting(r, jobs)
    BY <2>1 DEF Waiting, Waits, IsListed, Listed, InQueue, IsQueued, PairsOf, PromisesOf
  <2> QED BY <1>2, <2>2 DEF Linked, Owed
<1>5. Untold(r, s)
  BY <1>1 DEF Untold, Only
<1> QED BY <1>1, <1>2, <1>3, <1>4, <1>5, Untouched

LEMMA FinishLinked ==
  ASSUME NEW r, NEW busy, Good(r, busy), NEW use, NEW jobs, NEW hands, NEW now,
         Linked(r, use, jobs, hands, now), NEW c, HasComb(r, c), NEW s, s = finish(r, c)
  PROVE  Linked(s, use, jobs, hands, now) /\ Others(r, s)
<1> DEFINE k == r.combs[c].cap
           op == IF r.combs[c].remaining = 0 THEN r.combs[c].op ELSE "waiting"
<1>1. HasPair(r, k) /\ List(c) \in Values(Size(r)) /\ AggregateError(c) \in Values(Size(r))
  BY CombIs
<1>2. use[k].kind = "open"
  BY DEF Linked, Openly, HasComb
<1>3. s = CASE op \in {"all", "allSettled"} -> resolve(r, k, List(c))
            [] op = "any"                   -> rejectBy(r, k, AggregateError(c))
            [] OTHER                        -> r
  BY DEF finish
<1> HIDE DEF k, op
<1>4. CASE s = resolve(r, k, List(c))
  BY <1>1, <1>2, <1>4, OpenResolved
<1>5. CASE s = rejectBy(r, k, AggregateError(c))
  BY <1>1, <1>2, <1>5, OpenResolved
<1>6. CASE s = r
  BY <1>6 DEF Others
<1> QED BY <1>3, <1>4, <1>5, <1>6

LEMMA FinishedLinked ==
  ASSUME NEW r, NEW busy, Good(r, busy), NEW use, NEW jobs, NEW hands, NEW now,
         Linked(r, use, jobs, hands, now), NEW c, HasComb(r, c), NEW u, Good(u, busy), Recounted(r, u),
         NEW s, s = finish(u, c)
  PROVE  Linked(s, use, jobs, hands, now) /\ Untold(r, s)
<1>1. HasComb(u, c)
  BY DEF HasComb, Recounted, Size
<1>2. Linked(u, use, jobs, hands, now) /\ Untold(r, u)
  BY RecountedLinked
<1>3. Linked(s, use, jobs, hands, now) /\ Others(u, s)
  BY <1>1, <1>2, FinishLinked
<1> QED BY <1>2, <1>3 DEF Untold, Others

LEMMA ElementLinked ==
  ASSUME NEW r, NEW busy, Good(r, busy), NEW use, NEW jobs, NEW hands, NEW now,
         Linked(r, use, jobs, hands, now), NEW c, HasComb(r, c), NEW i, i \in Nat,
         NEW status, status \in {"fulfilled", "rejected"}, NEW x, x \in Values(Size(r)),
         NEW s, s = element(r, c, i, status, x)
  PROVE  Linked(s, use, jobs, hands, now) /\ Untold(r, s)
<1>1. CASE i \in r.combs[c].called
  <2>1. s = r
    BY <1>1 DEF element
  <2> QED BY <2>1 DEF Untold
<1>2. CASE i \notin r.combs[c].called
  <2> DEFINE u == [r EXCEPT !.combs[c].values[i] = [status |-> status, value |-> x],
                            !.combs[c].called = @ \cup {i}, !.combs[c].remaining = @ - 1]
  <2>1. s = finish(u, c)
    BY <1>2 DEF element
  <2>2. Good(u, busy) /\ Recounted(r, u)
    BY ElementSet
  <2> HIDE DEF u
  <2> QED BY <2>1, <2>2, FinishedLinked
<1> QED BY <1>1, <1>2

LEMMA EndedLinked ==
  ASSUME NEW r, NEW busy, Good(r, busy), NEW use, NEW jobs, NEW hands, NEW now,
         Linked(r, use, jobs, hands, now), NEW c, HasComb(r, c), NEW s, s = ended(r, c)
  PROVE  Linked(s, use, jobs, hands, now) /\ Untold(r, s)
<1> DEFINE u == [r EXCEPT !.combs[c].over = TRUE,
                          !.combs[c].remaining = IF r.combs[c].op = "race" THEN @ ELSE @ - 1]
<1>1. s = finish(u, c)
  BY DEF ended
<1>2. Good(u, busy) /\ Recounted(r, u)
  BY EndSet
<1> HIDE DEF u
<1> QED BY <1>1, <1>2, FinishedLinked

LEMMA CallLinked ==
  ASSUME NEW r, NEW busy, Good(r, busy), NEW use, NEW jobs, NEW hands, NEW now,
         Linked(r, use, jobs, hands, now), NEW fn, fn \in Functions(Size(r)), Public(r, use, fn),
         NEW x, x \in Values(Size(r)), NEW s, s = call(r, fn, x)
  PROVE  Linked(s, use, jobs, hands, now) /\ Untold(r, s)
<1>1. CASE fn.f \in {"resolve", "reject"}
  <2>1. HasPair(r, fn.a) /\ use[fn.a].kind = "open"
    BY <1>1 DEF Functions, HasPair, Size, Public
  <2>2. s = resolve(r, fn.a, x) \/ s = rejectBy(r, fn.a, x)
    BY <1>1 DEF call
  <2>3. Linked(s, use, jobs, hands, now) /\ Others(r, s)
    BY <2>1, <2>2, OpenResolved
  <2> QED BY <2>3 DEF Untold, Others
<1>2. CASE fn.f \in {"fulfilled", "rejected"}
  <2>1. HasComb(r, fn.a) /\ fn.b \in Nat /\ s = element(r, fn.a, fn.b, fn.f, x)
    BY <1>2 DEF Functions, HasComb, Size, call
  <2> QED BY <1>2, <2>1, ElementLinked
<1>3. CASE fn.f \notin {"resolve", "reject", "fulfilled", "rejected"}
  <2>1. s = r
    BY <1>3 DEF call
  <2> QED BY <2>1 DEF Untold
<1> QED BY <1>1, <1>2, <1>3


-----------------------------------------------------------------------------
(* New promises and new pairs of functions.                                *)
Fit(r, use, w) ==
  /\ w.kind \in {"open", "derived", "adopting"} /\ (w.kind # "open" => w.p \in PromisesOf(r))
  /\ w.kind = "derived" => HandlersOK(r, use, w.p, w.f, w.g)
Plus(hands, w, n) == IF w.kind = "derived" THEN hands \cup {n} ELSE hands
Paired(r, s, p) ==
  /\ Only(r, s, {"pairs"}) /\ Len(s.pairs) = Len(r.pairs) + 1
  /\ OwnerOf(s, Len(r.pairs) + 1) = p /\ ~IsUsed(s, Len(r.pairs) + 1)
  /\ \A k \in 1..Len(r.pairs) : s.pairs[k] = r.pairs[k]

LEMMA PairedBy ==
  ASSUME NEW r, NEW busy, Good(r, busy), NEW p, Has(r, p), NEW s, s = newPair(r, p)
  PROVE  Paired(r, s, p)
<1> DEFINE e == [promise |-> p, alreadyResolved |-> FALSE]
           q == Append(r.pairs, e)
<1>1. s = [r EXCEPT !.pairs = q] /\ Shape(r) /\ q = Append(r.pairs, e) /\ r.pairs \in Seq(Pairs(Size(r)))
  BY DEF newPair, Good, Typed
<1>2. e \in Pairs(Size(r)) /\ e.promise = p /\ ~e.alreadyResolved
  BY DEF Has, Pairs, Size
<1> HIDE DEF e, q
<1>3. Only(r, s, {"pairs"}) /\ s.pairs = q
  BY <1>1, Set_pairs, Zenon
<1>4. Len(q) = Len(r.pairs) + 1 /\ q[Len(r.pairs) + 1] = e /\ \A k \in 1..Len(r.pairs) : q[k] = r.pairs[k]
  BY <1>1, <1>2, AppendProperties
<1> QED BY <1>2, <1>3, <1>4 DEF Paired, OwnerOf, IsUsed

LEMMA PairLinked ==
  ASSUME NEW r, NEW busy, Good(r, busy), NEW use, NEW jobs, NEW hands, NEW now,
         Linked(r, use, jobs, hands, now), NEW w, Fit(r, use, w), NEW p, NEW s, Paired(r, s, p), Grown(r, s),
         NEW n, n = Len(r.pairs) + 1
  PROVE  Linked(s, With(use, n, w), jobs, Plus(hands, w, n), now)
<1> DEFINE v == With(use, n, w)
           hands2 == Plus(hands, w, n)
<1>1. /\ s.promises = r.promises /\ s.jobQueue = r.jobQueue /\ s.derived = r.derived /\ s.combs = r.combs
      /\ s.adopted = r.adopted /\ s.finals = r.finals /\ s.lost = r.lost /\ s.grabs = r.grabs
      /\ PromisesOf(s) = PromisesOf(r)
  BY DEF Paired, Only, PromisesOf
<1>2. /\ Lists(r, use) /\ QueueOK(r, use) /\ BatchesOK(r, use, jobs) /\ HandsOK(r, use, hands)
      /\ Apart(r, jobs, hands) /\ Derivations(r, use) /\ Openly(r, use) /\ Owed(r, jobs)
  BY DEF Linked
<1>3. /\ n \in Nat /\ n \notin PairsOf(r) /\ PairsOf(s) = PairsOf(r) \cup {n} /\ v[n] = w
      /\ \A k \in PairsOf(r) : k # n /\ v[k] = use[k] /\ IsUsed(s, k) = IsUsed(r, k) /\ OwnerOf(s, k) = OwnerOf(r, k)
      /\ ~IsUsed(s, n)
  <2>1. Len(r.pairs) \in Nat /\ Len(s.pairs) = n
    BY Owners DEF Paired
  <2>2. PairsOf(s) = PairsOf(r) \cup {n} /\ n \notin PairsOf(r) /\ n \in Nat
    BY <2>1 DEF PairsOf
  <2>3. \A k \in PairsOf(r) : k # n /\ k \in Nat
    BY <2>1 DEF PairsOf
  <2> QED BY <2>2, <2>3, Zenon DEF Paired, With, IsUsed, OwnerOf, PairsOf
<1>4. Ext(use, v, r) /\ SameFinals(r, s) /\ NewAdopted(r, s) /\ Keeps(r, s)
  BY <1>1, <1>3 DEF Ext, SameFinals, NewAdopted, Grown
<1>5. w.kind = "derived" => n \in hands2
  BY DEF Plus
<1>6. hands \subseteq hands2 /\ \A k \in hands2 : k \in hands \/ (k = n /\ w.kind = "derived")
  BY DEF Plus
<1> HIDE DEF v, hands2
<1>7. Purposed(s, v, n)
  <2>1. w.kind = "derived" => HandlersOK(s, v, w.p, w.f, w.g)
    BY <1>4, HandlersStay DEF Fit
  <2> QED BY <1>1, <1>3, <2>1 DEF Fit, Purposed
<1>8. NewPairsFine(r, s, v, hands2) /\ UsedFine(r, s, use, hands, hands2, now) /\ NewJobsFine(r, s, v)
  BY <1>1, <1>3, <1>5, <1>7 DEF NewPairsFine, UsedFine, NewJobsFine
<1>9. (\A k : IsListed(s, k) <=> IsListed(r, k)) /\ (\A m, k : IsQueued(s, m, k) <=> IsQueued(r, m, k))
  BY <1>1 DEF IsListed, Listed, IsQueued
<1>10. Placed(r, s, hands, hands2)
  BY <1>6, <1>9 DEF Placed
<1>11. ~IsListed(r, n) /\ ~InQueue(r, n) /\ ~InBatch(jobs, n)
  BY <1>2, <1>3 DEF IsListed, Listed, Lists, ListsOK, InQueue, IsQueued, QueueOK, JobOK, InBatch, BatchesOK
<1>12. Apart(s, jobs, hands2)
  BY <1>2, <1>6, <1>9, <1>11 DEF Apart, InQueue
<1>13. Lists(s, v)
  <2> SUFFICES ASSUME NEW q \in PromisesOf(r) PROVE ListsOK(s, v, q)
    BY <1>1 DEF Lists
  <2>1. ListsOK(r, use, q) /\ s.promises[q] = r.promises[q]
    BY <1>1, <1>2 DEF Lists
  <2> QED BY <1>3, <2>1 DEF ListsOK, Now, Gone, ResultOf
<1>14. HandsOK(s, v, hands2)
  BY <1>2, <1>3, <1>6 DEF HandsOK, HandOK
<1>15. Derivations(s, v) /\ Openly(s, v)
  BY <1>1, <1>2, <1>4, DerivationsStay, OpenlyStays
<1>16. Owed(s, jobs)
  <2>1. Waiting(s, jobs) \subseteq Waiting(r, jobs)
    BY <1>3, <1>9, <1>11 DEF Waiting, Waits, InQueue
  <2> QED BY <1>1, <1>2, <2>1, OwedStill
<1>17. Linked(s, v, jobs, hands2, now)
  BY <1>1, <1>4, <1>8, <1>10, <1>12, <1>13, <1>14, <1>15, <1>16, Onward
<1> QED BY <1>17 DEF v, hands2

(* A promise that nobody waits for.                                        *)
Made(r, s) ==
  /\ Only(r, s, {"promises"}) /\ Len(s.promises) = Len(r.promises) + 1
  /\ ~Gone(s, Len(r.promises) + 1)
  /\ s.promises[Len(r.promises) + 1].fulfillReactions = <<>> /\ s.promises[Len(r.promises) + 1].rejectReactions = <<>>
  /\ \A p \in 1..Len(r.promises) : s.promises[p] = r.promises[p]

LEMMA MadeLinked ==
  ASSUME NEW r, NEW busy, Good(r, busy), NEW use, NEW jobs, NEW hands, NEW now,
         Linked(r, use, jobs, hands, now), NEW s, Made(r, s), Grown(r, s)
  PROVE  Linked(s, use, jobs, hands, now)
<1> DEFINE n == Len(r.promises) + 1
<1>1. /\ s.pairs = r.pairs /\ s.jobQueue = r.jobQueue /\ s.derived = r.derived /\ s.combs = r.combs
      /\ s.adopted = r.adopted /\ s.finals = r.finals /\ s.lost = r.lost /\ s.grabs = r.grabs
      /\ PairsOf(s) = PairsOf(r) /\ \A k : IsUsed(s, k) <=> IsUsed(r, k)
  BY DEF Made, Only, PairsOf, IsUsed
<1>2. /\ Lists(r, use) /\ HandsOK(r, use, hands)
      /\ Apart(r, jobs, hands) /\ Derivations(r, use) /\ Openly(r, use) /\ Owed(r, jobs)
  BY DEF Linked
<1>3. PromisesOf(s) = PromisesOf(r) \cup {n} /\ ~Gone(s, n)
      /\ s.promises[n].fulfillReactions = <<>> /\ s.promises[n].rejectReactions = <<>>
      /\ \A p \in PromisesOf(r) : s.promises[p] = r.promises[p]
  <2>1. Len(r.promises) \in Nat /\ Len(s.promises) = n
    BY Owners DEF Made
  <2>2. PromisesOf(s) = PromisesOf(r) \cup {n}
    BY <2>1 DEF PromisesOf
  <2> QED BY <2>2 DEF Made, PromisesOf
<1> HIDE DEF n
<1>4. Ext(use, use, r) /\ SameFinals(r, s) /\ NewAdopted(r, s) /\ Keeps(r, s)
  BY <1>1 DEF Ext, SameFinals, NewAdopted, Grown
<1>5. NewPairsFine(r, s, use, hands) /\ UsedFine(r, s, use, hands, hands, now) /\ NewJobsFine(r, s, use)
  BY <1>1 DEF NewPairsFine, UsedFine, NewJobsFine
<1>6. \A k : IsListed(s, k) <=> IsListed(r, k)
  <2>1. \A i, k : ~Listed(s, n, i, k)
    BY <1>3 DEF Listed
  <2>2. \A p \in PromisesOf(r) : \A i, k : Listed(s, p, i, k) <=> Listed(r, p, i, k)
    BY <1>3, Zenon DEF Listed
  <2> QED BY <1>3, <2>1, <2>2 DEF IsListed
<1>7. \A m, k : IsQueued(s, m, k) <=> IsQueued(r, m, k)
  BY <1>1 DEF IsQueued
<1>8. Placed(r, s, hands, hands) /\ Apart(s, jobs, hands)
  BY <1>2, <1>6, <1>7 DEF Placed, Apart, InQueue
<1>9. Lists(s, use)
  <2> SUFFICES ASSUME NEW q \in PromisesOf(s) PROVE ListsOK(s, use, q)
    BY DEF Lists
  <2>1. CASE q = n
    <3>1. Len(<<>>) = 0 /\ 1..0 = {}
      OBVIOUS
    <3> QED BY <1>3, <2>1, <3>1 DEF ListsOK, Gone
  <2>2. CASE q \in PromisesOf(r)
    <3>1. s.promises[q] = r.promises[q] /\ ListsOK(r, use, q)
      BY <1>2, <1>3, <2>2 DEF Lists
    <3> QED BY <1>1, <3>1 DEF ListsOK, Now, Gone, ResultOf
  <2> QED BY <1>3, <2>1, <2>2
<1>10. HandsOK(s, use, hands) /\ Derivations(s, use) /\ Openly(s, use)
  BY <1>1, <1>2, Zenon DEF HandsOK, HandOK, Derivations, Derivation, Openly
<1>11. Owed(s, jobs)
  <2>1. Waiting(s, jobs) \subseteq Waiting(r, jobs)
    BY <1>1, <1>6, <1>7 DEF Waiting, Waits, InQueue
  <2> QED BY <1>1, <1>2, <2>1, OwedStill
<1> QED BY <1>1, <1>4, <1>5, <1>8, <1>9, <1>10, <1>11, Onward

(* What newPromise leaves alone, and its pair.                             *)
NewOne(r, s) ==
  /\ Len(s.pairs) = Len(r.pairs) + 1 /\ Len(s.promises) = Len(r.promises) + 1
  /\ OwnerOf(s, Len(s.pairs)) = Len(s.promises) /\ ~IsUsed(s, Len(s.pairs)) /\ ~Gone(s, Len(s.promises))
  /\ s.adopted = r.adopted /\ s.finals = r.finals /\ s.derived = r.derived /\ s.combs = r.combs /\ s.jobQueue = r.jobQueue
  /\ s.grabs = r.grabs /\ s.resumed = r.resumed /\ s.lost = r.lost

LEMMA NewPromiseLinked ==
  ASSUME NEW r, NEW busy, Good(r, busy), NEW use, NEW jobs, NEW hands, NEW now,
         Linked(r, use, jobs, hands, now), NEW w, Fit(r, use, w), NEW s, s = newPromise(r),
         NEW n, n = Len(s.pairs)
  PROVE  Linked(s, With(use, n, w), jobs, Plus(hands, w, n), now) /\ NewOne(r, s)
<1> DEFINE e == [state |-> "pending", result |-> Undefined, fulfillReactions |-> <<>>,
                 rejectReactions |-> <<>>, handled |-> FALSE, tracked |-> "none"]
           q == Append(r.promises, e)
           u == [r EXCEPT !.promises = q]
           m == Len(r.promises) + 1
<1>1. s = newPair(u, m)
  BY DEF newPromise
<1>2. Shape(r) /\ Typed(r) /\ Len(r.pairs) \in Nat /\ Len(r.promises) \in Nat /\ r.promises \in Seq(PromiseObjects(Size(r)))
  BY Sizes DEF Good, Typed
<1>3. e \in PromiseObjects(Size(r)) /\ e.state = "pending" /\ TrackedWell(e) /\ e.fulfillReactions = <<>> /\ e.rejectReactions = <<>>
  <2>1. <<>> \in Seq(Reactions(Size(r)))
    BY EmptySeq
  <2>2. Undefined \in Values(Size(r))
    BY DEF Undefined, Val, Values
  <2> QED BY <2>1, <2>2 DEF PromiseObjects, TrackedWell
<1>4. Only(r, u, {"promises"}) /\ u.promises = q /\ q = Append(r.promises, e)
  BY <1>2, Set_promises, Zenon
<1> HIDE DEF e, q, u
<1>5. /\ Good(u, busy) /\ Grown(r, u)
      /\ Len(u.promises) = Len(r.promises) + 1 /\ Len(u.pairs) = Len(r.pairs)
      /\ Ready(u, busy, m)
  BY <1>3, <1>4, PromiseAdded, Zenon
<1>6. Made(r, u)
  <2>1. Len(q) = Len(r.promises) + 1 /\ q[Len(r.promises) + 1] = e /\ \A p \in 1..Len(r.promises) : q[p] = r.promises[p]
    BY <1>2, <1>3, <1>4, AppendProperties
  <2> QED BY <1>3, <1>4, <2>1 DEF Made, Gone, Now
<1>7. Linked(u, use, jobs, hands, now)
  BY <1>5, <1>6, MadeLinked
<1>8. Paired(u, s, m) /\ Good(s, busy) /\ Grown(u, s)
  <2>1. Has(u, m)
    BY <1>5 DEF Ready
  <2> QED BY <1>1, <1>5, <2>1, PairedBy, NewPair
<1>9. n = Len(u.pairs) + 1
  BY <1>8 DEF Paired
<1>10. Fit(u, use, w)
  <2>1. Keeps(r, u) /\ Ext(use, use, r)
    BY <1>5 DEF Grown, Ext
  <2>2. w.kind = "derived" => HandlersOK(u, use, w.p, w.f, w.g)
    BY <2>1, HandlersStay DEF Fit
  <2> QED BY <2>1, <2>2, Remain DEF Fit
<1>11. Linked(s, With(use, n, w), jobs, Plus(hands, w, n), now)
  BY <1>5, <1>7, <1>8, <1>9, <1>10, PairLinked
<1>12. NewOne(r, s)
  BY <1>4, <1>5, <1>6, <1>8, <1>9 DEF NewOne, Paired, Made, Only, Gone, Now
<1> QED BY <1>11, <1>12


-----------------------------------------------------------------------------
(* addReactions: a pair in hand waits for a promise, or its job is queued. *)
PutAside(r, s, p, cap, f, h) ==
  /\ Len(s.promises) = Len(r.promises) /\ \A q \in PromisesOf(r) : q # p => s.promises[q] = r.promises[q]
  /\ Now(s, p) = Now(r, p) /\ ResultOf(s, p) = ResultOf(r, p)
  /\ s.pairs = r.pairs /\ s.derived = r.derived /\ s.combs = r.combs /\ s.adopted = r.adopted
  /\ s.finals = r.finals /\ s.lost = r.lost /\ s.resumed = r.resumed /\ s.grabs = r.grabs + 1

LEMMA ReactsPuts ==
  ASSUME NEW r, NEW busy, Good(r, busy), NEW p \in PromisesOf(r), NEW cap, NEW f, NEW h,
         NEW s, Reacts(r, s, p, cap, f, h)
  PROVE  /\ PutAside(r, s, p, cap, f, h)
         /\ ~Gone(r, p) => /\ s.jobQueue = r.jobQueue
                           /\ Onto(s.promises[p], r.promises[p], [cap |-> cap, handler |-> f], [cap |-> cap, handler |-> h])
         /\ Gone(r, p) => Likewise(s.promises[p], r.promises[p])
<1> DEFINE a == [cap |-> cap, handler |-> f]
           b == [cap |-> cap, handler |-> h]
<1>1. r.promises \in Seq(PromiseObjects(Size(r))) /\ p \in 1..Len(r.promises)
  BY DEF Good, Typed, PromisesOf
<1> HIDE DEF a, b
<1>2. PICK e : /\ s.promises = Put(r.promises, p, e)
               /\ IF r.promises[p].state = "pending" THEN Onto(e, r.promises[p], a, b)
                  ELSE Likewise(e, r.promises[p])
  BY DEF Reacts, a, b
<1>3. /\ Len(s.promises) = Len(r.promises) /\ s.promises[p] = e
      /\ \A q \in PromisesOf(r) : q # p => s.promises[q] = r.promises[q]
  BY <1>1, <1>2 DEF Put, PromisesOf
<1>4. e.state = r.promises[p].state /\ e.result = r.promises[p].result
  BY <1>2 DEF Onto, Likewise
<1>5. Only(r, s, {"promises", "jobQueue", "grabs"}) /\ s.grabs = r.grabs + 1
      /\ (r.promises[p].state = "pending" => s.jobQueue = r.jobQueue)
  BY DEF Reacts
<1>6. PutAside(r, s, p, cap, f, h)
  BY <1>3, <1>4, <1>5 DEF PutAside, Only, Now, ResultOf
<1> QED BY <1>2, <1>3, <1>5, <1>6 DEF Gone, Now, a, b

(* Where it is afterwards.                                                 *)
Lands(r, s, use, p, cap) ==
  /\ \A k : IsListed(s, k) <=> IsListed(r, k) \/ (k = cap /\ ~Gone(r, p))
  /\ \A n, k : IsQueued(s, n, k) <=> IsQueued(r, n, k) \/ (n = Len(r.jobQueue) + 1 /\ k = cap /\ Gone(r, p))
  /\ NewJobsFine(r, s, use) /\ Lists(s, use)
  /\ \A n \in 1..Len(r.jobQueue) : n \in 1..Len(s.jobQueue) /\ s.jobQueue[n] = r.jobQueue[n]

LEMMA LandsPending ==
  ASSUME NEW r, NEW busy, Good(r, busy), NEW use, NEW jobs, NEW hands, NEW now,
         Linked(r, use, jobs, hands, now), NEW p \in PromisesOf(r), ~Gone(r, p),
         NEW cap, cap \in hands, NEW f, NEW h, use[cap] = Derived(p, f, h),
         NEW s, PutAside(r, s, p, cap, f, h), s.jobQueue = r.jobQueue,
         Onto(s.promises[p], r.promises[p], [cap |-> cap, handler |-> f], [cap |-> cap, handler |-> h])
  PROVE  Lands(r, s, use, p, cap)
<1> DEFINE fs == r.promises[p].fulfillReactions
           gs == r.promises[p].rejectReactions
           ft == s.promises[p].fulfillReactions
           gt == s.promises[p].rejectReactions
           l == Len(fs)
           a == [cap |-> cap, handler |-> f]
           b == [cap |-> cap, handler |-> h]
<1>0. a.cap = cap /\ b.cap = cap /\ a.handler = f /\ b.handler = h
  OBVIOUS
<1> HIDE DEF a, b
<1>1. /\ HandOK(r, use, cap) /\ ListsOK(r, use, p) /\ Lists(r, use) /\ ~IsListed(r, cap)
  BY DEF Linked, HandsOK, Lists, Apart
<1>2. fs \in Seq(Reactions(Size(r))) /\ gs \in Seq(Reactions(Size(r))) /\ l \in Nat /\ Len(gs) = l
  <2>1. r.promises[p] \in PromiseObjects(Size(r))
    BY Elements DEF Good, PromisesOf
  <2> QED BY <1>1, <2>1, LenProperties DEF PromiseObjects, ListsOK
<1>3. ft = Append(fs, a) /\ gt = Append(gs, b)
  BY DEF Onto, a, b
<1>4. /\ Len(ft) = l + 1 /\ Len(gt) = l + 1
      /\ \A i \in 1..l : ft[i] = fs[i] /\ gt[i] = gs[i]
      /\ ft[l + 1] = a /\ gt[l + 1] = b
  <2> HIDE DEF ft, gt, fs, gs
  <2> QED BY <1>2, <1>3 
<1> HIDE DEF fs, gs, ft, gt, l
<1>5. \A i : i \in 1..Len(ft) <=> i \in 1..l \/ i = l + 1
  BY <1>2, <1>4
<1>6. PromisesOf(s) = PromisesOf(r) /\ PairsOf(s) = PairsOf(r) /\ (\A k : IsUsed(s, k) <=> IsUsed(r, k))
      /\ \A q \in PromisesOf(r) : q # p => s.promises[q] = r.promises[q]
  BY DEF PutAside, PromisesOf, PairsOf, IsUsed
<1>7. \A i, k : Listed(s, p, i, k) <=> Listed(r, p, i, k) \/ (i = l + 1 /\ k = cap)
  <2>1. \A i, k : Listed(s, p, i, k) <=> i \in 1..Len(ft) /\ ft[i].cap = k
    BY DEF Listed, ft
  <2>2. \A i, k : Listed(r, p, i, k) <=> i \in 1..l /\ fs[i].cap = k
    BY DEF Listed, fs, l
  <2>3. l + 1 \notin 1..l
    BY <1>2
  <2> QED BY <1>0, <1>4, <1>5, <2>1, <2>2, <2>3
<1>8. \A q \in PromisesOf(r) : \A i, k : q # p => (Listed(s, q, i, k) <=> Listed(r, q, i, k))
  BY <1>6, Zenon DEF Listed
<1>9. \A k : IsListed(s, k) <=> IsListed(r, k) \/ k = cap
  <2> SUFFICES ASSUME NEW k PROVE IsListed(s, k) <=> IsListed(r, k) \/ k = cap
    OBVIOUS
  <2>1. IsListed(s, k) => IsListed(r, k) \/ k = cap
    BY <1>6, <1>7, <1>8 DEF IsListed
  <2>2. IsListed(r, k) => IsListed(s, k)
    BY <1>6, <1>7, <1>8 DEF IsListed
  <2>3. k = cap => IsListed(s, k)
    BY <1>6, <1>7 DEF IsListed
  <2> QED BY <2>1, <2>2, <2>3
<1>10. \A n, k : IsQueued(s, n, k) <=> IsQueued(r, n, k)
  BY DEF IsQueued
<1>11. NewJobsFine(r, s, use)
  BY DEF NewJobsFine
<1>12. Lists(s, use)
  <2> SUFFICES ASSUME NEW q \in PromisesOf(r) PROVE ListsOK(s, use, q)
    BY <1>6 DEF Lists
  <2>1. CASE q # p
    <3>1. s.promises[q] = r.promises[q] /\ ListsOK(r, use, q)
      BY <1>1, <1>6, <2>1 DEF Lists
    <3> QED BY <1>6, <3>1 DEF ListsOK, Now, Gone, ResultOf
  <2>2. CASE q = p
    <3>1. Now(s, p) = Now(r, p) /\ Now(r, p) = "pending"
      BY DEF PutAside, Gone
    <3>2. \A i \in 1..l : /\ fs[i].cap \in PairsOf(r) /\ gs[i].cap = fs[i].cap /\ ~IsUsed(r, fs[i].cap)
                          /\ use[fs[i].cap] = Derived(p, fs[i].handler, gs[i].handler)
                          /\ \A j \in 1..l : fs[i].cap = fs[j].cap => i = j
      BY <1>1 DEF ListsOK, fs, gs, l
    <3>3. \A i \in 1..l : fs[i].cap # cap
      BY <1>1 DEF IsListed, Listed, fs, l
    <3>4. \A i \in 1..Len(ft) : /\ ft[i].cap \in PairsOf(s) /\ gt[i].cap = ft[i].cap /\ ~IsUsed(s, ft[i].cap)
                                /\ use[ft[i].cap] = Derived(p, ft[i].handler, gt[i].handler)
      <4> SUFFICES ASSUME NEW i \in 1..Len(ft)
                   PROVE  /\ ft[i].cap \in PairsOf(s) /\ gt[i].cap = ft[i].cap /\ ~IsUsed(s, ft[i].cap)
                          /\ use[ft[i].cap] = Derived(p, ft[i].handler, gt[i].handler)
        OBVIOUS
      <4>1. CASE i \in 1..l
        BY <1>4, <1>6, <3>2, <4>1
      <4>2. CASE i = l + 1
        BY <1>0, <1>1, <1>4, <1>6, <4>2 DEF HandOK
      <4> QED BY <1>5, <4>1, <4>2
    <3>5. \A i, j \in 1..Len(ft) : ft[i].cap = ft[j].cap => i = j
      BY <1>0, <1>4, <1>5, <3>2, <3>3
    <3> QED BY <1>4, <2>2, <3>1, <3>4, <3>5 DEF ListsOK, Gone, ft, gt
  <2> QED BY <2>1, <2>2
<1> QED BY <1>9, <1>10, <1>11, <1>12 DEF Lands

LEMMA LandsGone ==
  ASSUME NEW r, NEW busy, Good(r, busy), NEW use, NEW jobs, NEW hands, NEW now,
         Linked(r, use, jobs, hands, now), NEW p \in PromisesOf(r), Gone(r, p),
         NEW cap, cap \in hands, NEW f, NEW h, use[cap] = Derived(p, f, h),
         NEW s, PutAside(r, s, p, cap, f, h), Reacts(r, s, p, cap, f, h), Likewise(s.promises[p], r.promises[p])
  PROVE  Lands(r, s, use, p, cap)
<1> DEFINE l == Len(r.jobQueue)
           job == JobFor(r, use, cap)
<1>1. /\ HandOK(r, use, cap) /\ Lists(r, use)
  BY DEF Linked, HandsOK
<1>2. use[cap].p = p /\ use[cap].f = f /\ use[cap].g = h /\ use[cap].kind = "derived"
  BY DerivedIs
<1>3. PromisesOf(s) = PromisesOf(r) /\ PairsOf(s) = PairsOf(r) /\ (\A k : IsUsed(s, k) <=> IsUsed(r, k))
      /\ Now(s, p) = Now(r, p) /\ ResultOf(s, p) = ResultOf(r, p)
      /\ \A q \in PromisesOf(r) : q # p => s.promises[q] = r.promises[q]
  BY DEF PutAside, PromisesOf, PairsOf, IsUsed
<1>4. r.promises[p] \in PromiseObjects(Size(r))
  BY Elements DEF Good, PromisesOf
<1>5. job.k = "reaction" /\ job.cap = cap
  BY JobIs DEF JobFor
<1>6. s.jobQueue = r.jobQueue \o One(job)
  <2>1. CASE Now(r, p) = "fulfilled"
    <3>1. job = Job("reaction", "fulfill", cap, f, r.promises[p].result)
      BY <1>2, <2>1 DEF JobFor, ResultOf
    <3> HIDE DEF job
    <3> QED BY <2>1, <3>1, Zenon DEF Reacts, Now
  <2>2. CASE Now(r, p) = "rejected"
    <3>1. job = Job("reaction", "reject", cap, h, r.promises[p].result)
      BY <1>2, <2>2 DEF JobFor, ResultOf
    <3> HIDE DEF job
    <3> QED BY <2>2, <3>1, Zenon DEF Reacts, Now
  <2> QED BY <1>4, <2>1, <2>2 DEF PromiseObjects, Gone, Now
<1>7. JobFor(s, use, cap) = job
  BY <1>2, <1>3 DEF JobFor
<1> HIDE DEF job
<1>8. Len(s.jobQueue) = l + 1 /\ s.jobQueue[l + 1] = job /\ (\A n \in 1..l : s.jobQueue[n] = r.jobQueue[n]) /\ l \in Nat
  <2>1. r.jobQueue \in Seq(JobsOf(Size(r))) /\ l \in Nat
    BY Owners DEF Good, Typed
  <2> QED BY <1>6, <2>1 DEF One
<1> HIDE DEF l
<1>9. \A n : n \in 1..Len(s.jobQueue) <=> n \in 1..l \/ n = l + 1
  BY <1>8
<1>10. \A n, k : IsQueued(s, n, k) <=> IsQueued(r, n, k) \/ (n = l + 1 /\ k = cap)
  <2>1. l + 1 \notin 1..l
    BY <1>8
  <2> QED BY <1>5, <1>8, <1>9, <2>1, Zenon DEF IsQueued, IsReaction, l
<1>11. NewJobsFine(r, s, use)
  <2>1. JobOK(s, use, job)
    BY <1>1, <1>2, <1>3, <1>5, <1>7 DEF JobOK, HandOK, Gone
  <2> QED BY <1>8, <1>9, <2>1 DEF NewJobsFine, l
<1>12. \A q \in PromisesOf(r) : Likewise(s.promises[q], r.promises[q])
  BY <1>3 DEF Likewise
<1>13. \A q \in PromisesOf(r) : \A i, k : Listed(s, q, i, k) <=> Listed(r, q, i, k)
  BY <1>12 DEF Listed, Likewise
<1>14. \A k : IsListed(s, k) <=> IsListed(r, k)
  BY <1>3, <1>13 DEF IsListed
<1>15. Lists(s, use)
  <2> SUFFICES ASSUME NEW q \in PromisesOf(r) PROVE ListsOK(s, use, q)
    BY <1>3 DEF Lists
  <2>1. Likewise(s.promises[q], r.promises[q]) /\ ListsOK(r, use, q)
    BY <1>1, <1>12 DEF Lists
  <2> QED BY <1>3, <2>1 DEF ListsOK, Now, Gone, ResultOf, Likewise
<1>16. \A n \in 1..Len(r.jobQueue) : n \in 1..Len(s.jobQueue) /\ s.jobQueue[n] = r.jobQueue[n]
  BY <1>8, <1>9 DEF l
<1> QED BY <1>10, <1>11, <1>14, <1>15, <1>16 DEF Lands, l

LEMMA ReactsLinked ==
  ASSUME NEW r, NEW busy, Good(r, busy), NEW use, NEW jobs, NEW hands, NEW now,
         Linked(r, use, jobs, hands, now), NEW p \in PromisesOf(r),
         NEW cap, cap \in hands, NEW f, NEW h, use[cap] = Derived(p, f, h),
         NEW s, Reacts(r, s, p, cap, f, h), Grown(r, s)
  PROVE  Linked(s, use, jobs, hands \ {cap}, now) /\ PutAside(r, s, p, cap, f, h)
<1> DEFINE less == hands \ {cap}
<1>1. /\ PutAside(r, s, p, cap, f, h)
      /\ ~Gone(r, p) => /\ s.jobQueue = r.jobQueue
                        /\ Onto(s.promises[p], r.promises[p], [cap |-> cap, handler |-> f], [cap |-> cap, handler |-> h])
      /\ Gone(r, p) => Likewise(s.promises[p], r.promises[p])
  BY ReactsPuts
<1>2. Lands(r, s, use, p, cap)
  BY <1>1, LandsPending, LandsGone
<1>3. /\ HandsOK(r, use, hands) /\ QueueOK(r, use)
      /\ Apart(r, jobs, hands) /\ Derivations(r, use) /\ Openly(r, use) /\ Owed(r, jobs)
  BY DEF Linked
<1>4. /\ s.pairs = r.pairs /\ s.derived = r.derived /\ s.combs = r.combs /\ s.adopted = r.adopted
      /\ s.finals = r.finals /\ s.lost = r.lost /\ s.grabs = r.grabs + 1
      /\ PairsOf(s) = PairsOf(r) /\ \A k : IsUsed(s, k) <=> IsUsed(r, k)
  BY <1>1 DEF PutAside, PairsOf, IsUsed
<1>5. Ext(use, use, r) /\ SameFinals(r, s) /\ NewAdopted(r, s) /\ Keeps(r, s)
  BY <1>4 DEF Ext, SameFinals, NewAdopted, Grown
<1>6. cap \in PairsOf(r) /\ ~IsListed(r, cap) /\ ~InQueue(r, cap) /\ ~InBatch(jobs, cap)
  BY <1>3 DEF HandsOK, HandOK, Apart
<1>7. NewPairsFine(r, s, use, less) /\ UsedFine(r, s, use, hands, less, now)
  BY <1>4 DEF NewPairsFine, UsedFine
<1>8. \A k : InQueue(s, k) <=> InQueue(r, k) \/ (k = cap /\ Gone(r, p))
  BY <1>2 DEF Lands, InQueue
<1>9. \A k : IsListed(s, k) <=> IsListed(r, k) \/ (k = cap /\ ~Gone(r, p))
  BY <1>2 DEF Lands
<1>10. Placed(r, s, hands, less)
  BY <1>8, <1>9 DEF Placed
<1>11. Apart(s, jobs, less)
  <2>1. \A k \in less : ~IsListed(s, k) /\ ~InQueue(s, k) /\ ~InBatch(jobs, k)
    BY <1>3, <1>8, <1>9 DEF Apart
  <2>2. \A k : InQueue(s, k) => ~InBatch(jobs, k)
    BY <1>3, <1>6, <1>8 DEF Apart
  <2>3. \A m, n, k : IsQueued(s, m, k) /\ IsQueued(s, n, k) => m = n
    BY <1>2, <1>3, <1>6 DEF Lands, Apart, InQueue
  <2> QED BY <2>1, <2>2, <2>3 DEF Apart
<1>12. HandsOK(s, use, less)
  BY <1>3, <1>4 DEF HandsOK, HandOK
<1>13. Derivations(s, use) /\ Openly(s, use)
  BY <1>3, <1>4, <1>5, DerivationsStay, OpenlyStays
<1>14. Owed(s, jobs)
  <2> DEFINE W == Waiting(r, jobs)
  <2>1. Waiting(s, jobs) \subseteq W \cup {cap}
    BY <1>4, <1>8, <1>9 DEF Waiting, Waits
  <2>2. IsFiniteSet(W) /\ Cardinality(W) \in Nat
    BY WaitingFinite
  <2> HIDE DEF W
  <2>3. IsFiniteSet(W \cup {cap}) /\ Cardinality(W \cup {cap}) <= Cardinality(W) + 1
    <3>1. IsFiniteSet(W \cup {cap})
          /\ Cardinality(W \cup {cap}) = IF cap \in W THEN Cardinality(W) ELSE Cardinality(W) + 1
      BY <2>2, FS_AddElement, Zenon
    <3> QED BY <2>2, <3>1
  <2>4. IsFiniteSet(Waiting(s, jobs)) /\ Cardinality(Waiting(s, jobs)) <= Cardinality(W \cup {cap})
    BY <2>1, <2>3, FS_Subset
  <2>5. Cardinality(Waiting(s, jobs)) \in Nat /\ Cardinality(W \cup {cap}) \in Nat
    BY <2>3, <2>4, FS_CardinalityType
  <2>6. r.grabs \in Nat /\ Cardinality(W) <= r.grabs
    BY <1>3 DEF Owed, W
  <2> QED BY <1>4, <2>2, <2>3, <2>4, <2>5, <2>6 DEF Owed
<1>15. NewJobsFine(r, s, use) /\ Lists(s, use)
  BY <1>2 DEF Lands
<1> HIDE DEF less
<1>16. Linked(s, use, jobs, less, now)
  BY <1>4, <1>5, <1>7, <1>10, <1>11, <1>12, <1>13, <1>14, <1>15, Onward
<1> QED BY <1>1, <1>16 DEF less

(* then().                                                                 *)
Derives(r, s, n) ==
  /\ n \in PairsOf(s) /\ n \notin PairsOf(r) /\ Len(s.pairs) = n /\ n = Len(r.pairs) + 1
  /\ Len(s.promises) = Len(r.promises) + 1
  /\ OwnerOf(s, n) = Len(s.promises) /\ ~IsUsed(s, n) /\ s.adopted = r.adopted /\ s.finals = r.finals /\ s.combs = r.combs
  /\ s.resumed = r.resumed /\ s.lost = r.lost

LEMMA ThenLinked ==
  ASSUME NEW r, NEW busy, Good(r, busy), NEW use, NEW jobs, NEW hands, NEW now,
         Linked(r, use, jobs, hands, now), NEW p, Has(r, p), NEW f, f \in Functions(Size(r)),
         NEW h, h \in Functions(Size(r)), HandlersOK(r, use, p, f, h),
         NEW s, s = then(r, p, f, h), NEW n, n = Len(r.pairs) + 1
  PROVE  Linked(s, With(use, n, Derived(p, f, h)), jobs, hands, now) /\ Derives(r, s, n)
<1> DEFINE c == newPromise(r)
           k == Len(c.pairs)
           a == addReactions(c, p, k, f, h)
           d == [from |-> p, pair |-> k]
           derived == Append(a.derived, d)
           w == Derived(p, f, h)
           v == With(use, n, w)
<1>1. s = [a EXCEPT !.derived = derived] /\ derived = Append(a.derived, d) /\ d.from = p /\ d.pair = k
  BY DEF then
<1> HIDE DEF derived
<1>2. /\ Good(c, busy) /\ Grown(r, c)
      /\ Len(c.promises) = Len(r.promises) + 1 /\ Len(c.pairs) = Len(r.pairs) + 1 /\ Len(c.combs) = Len(r.combs)
      /\ c.pairs[Len(c.pairs)].promise = Len(c.promises)
      /\ HasPair(c, Len(c.pairs)) /\ Has(c, Len(c.promises))
  BY NewPromiseMade
<1>3. k = n
  BY <1>2
<1>4. w.kind = "derived" /\ w.p = p /\ w.f = f /\ w.g = h
  BY DerivedIs
<1>5. Fit(r, use, w)
  BY <1>4 DEF Fit, Has, PromisesOf
<1>6. Linked(c, v, jobs, Plus(hands, w, n), now) /\ NewOne(r, c)
  <2>1. n = Len(c.pairs)
    BY <1>3
  <2> QED BY <1>5, <2>1, NewPromiseLinked
<1> HIDE DEF c
<1>7. Plus(hands, w, n) = hands \cup {n}
  BY <1>4 DEF Plus
<1>8. Has(c, p) /\ f \in Functions(Size(c)) /\ h \in Functions(Size(c))
  BY <1>2, StillTyped, StillThere
<1>9. k \in 0..Len(c.pairs) /\ n \in Nat /\ n \notin PairsOf(r) /\ n \in PairsOf(c)
  BY <1>2, <1>3, Sizes, Owners DEF Good, PairsOf, HasPair
<1> DEFINE as == addReactions(c, p, n, f, h)
<1>10. Good(a, busy) /\ Grown(c, a) /\ Size(a) = Size(c) /\ Reacts(c, a, p, k, f, h)
  BY <1>2, <1>8, <1>9, Reacted
<1> HIDE DEF a, k, w
<1>11. v[n] = Derived(p, f, h)
  BY <1>9 DEF With, w
<1> HIDE DEF v
<1>12. Linked(a, v, jobs, (hands \cup {n}) \ {n}, now) /\ PutAside(c, a, p, n, f, h)
  <2>1. n \in hands \cup {n} /\ p \in PromisesOf(c) /\ Reacts(c, a, p, n, f, h) /\ Linked(c, v, jobs, hands \cup {n}, now)
    BY <1>3, <1>6, <1>7, <1>8, <1>10, Zenon DEF Has, PromisesOf
  <2> HIDE DEF as
  <2> QED BY <1>2, <1>10, <1>11, <2>1, ReactsLinked, Zenon
<1>13. Linked(a, v, jobs, hands, now)
  <2>1. n \notin hands
    BY <1>9 DEF Linked, HandsOK, HandOK
  <2>2. (hands \cup {n}) \ {n} = hands
    BY <2>1
  <2> QED BY <1>12, <2>2, Zenon
<1>14. Only(a, s, {"derived"}) /\ s.derived = derived
  <2>1. Shape(a)
    BY <1>10 DEF Good, Typed
  <2> QED BY <1>1, <2>1, Set_derived, Zenon
<1>15. Good(s, busy) /\ Grown(a, s)
  <2>1. Only(a, s, Counters)
    BY <1>14 DEF Only, Counters
  <2> QED BY <1>10, <2>1, Quiet
<1>16. s.promises = a.promises /\ s.pairs = a.pairs /\ s.jobQueue = a.jobQueue /\ s.combs = a.combs
       /\ s.adopted = a.adopted /\ s.finals = a.finals /\ s.grabs = a.grabs /\ s.resumed = a.resumed /\ s.lost = a.lost
  BY <1>14 DEF Only
<1>17. Derivations(s, v)
  <2>1. Derivations(a, v)
    BY <1>13 DEF Linked
  <2>2. d \in [from : Nat, pair : Nat]
    <3>1. p \in Nat
      BY DEF Has
    <3> QED BY <1>3, <1>9, <3>1
  <2>3. Derivation(s, v, d)
    <3>1. d.pair = n /\ d.from = p /\ n \in PairsOf(s) 
      BY <1>1, <1>3, <1>9, <1>12, <1>16 DEF PutAside, PairsOf
    <3>2. v[n].kind = "derived" /\ v[n].p = p
      BY <1>11, DerivedIs
    <3> HIDE DEF d
    <3> QED BY <3>1, <3>2 DEF Derivation
  <2>4. a.derived \in Seq([from : Nat, pair : Nat]) /\ \A i \in 1..Len(a.derived) : Derivation(s, v, a.derived[i])
    BY <1>16, <2>1 DEF Derivations, Derivation, PairsOf
  <2> HIDE DEF d
  <2>5. /\ derived \in Seq([from : Nat, pair : Nat]) /\ Len(a.derived) \in Nat /\ Len(derived) = Len(a.derived) + 1
        /\ \A i \in 1..Len(a.derived) : derived[i] = a.derived[i]
        /\ derived[Len(a.derived) + 1] = d
    BY <1>1, <2>2, <2>4, AppendProperties
  <2>6. \A i \in 1..Len(derived) : i \in 1..Len(a.derived) \/ i = Len(a.derived) + 1
    BY <2>5
  <2> QED BY <1>14, <2>3, <2>4, <2>5, <2>6, Zenon DEF Derivations
<1>18. Openly(s, v)
  BY <1>13, <1>16 DEF Linked, Openly
<1>19. Owed(s, jobs)
  <2>1. Waiting(s, jobs) \subseteq Waiting(a, jobs)
    BY <1>16 DEF Waiting, Waits, IsListed, Listed, InQueue, IsQueued, PairsOf, PromisesOf
  <2> QED BY <1>10, <1>13, <1>16, <2>1, OwedStill DEF Linked
<1>20. Linked(s, v, jobs, hands, now)
  <2>1. Only(a, s, {"combs", "grabs", "resumed", "derived"})
    BY <1>14 DEF Only
  <2> QED BY <1>10, <1>13, <1>15, <1>17, <1>18, <1>19, <2>1, Untouched
<1>21. Derives(r, s, n)
  BY <1>3, <1>6, <1>9, <1>12, <1>16 DEF Derives, NewOne, PutAside, OwnerOf, IsUsed, PairsOf, PromisesOf, k
<1> QED BY <1>20, <1>21 DEF v, w

(* promiseResolve(), and the uses afterwards.                              *)
Resolving(r, use, x) == IF x.t = "promise" THEN use ELSE With(use, Len(r.pairs) + 1, Open)

LEMMA Extends ==
  ASSUME NEW r, NEW busy, Good(r, busy), NEW use, NEW w
  PROVE  Ext(use, With(use, Len(r.pairs) + 1, w), r) /\ With(use, Len(r.pairs) + 1, w)[Len(r.pairs) + 1] = w
<1>1. Len(r.pairs) \in Nat
  BY Owners
<1>2. Len(r.pairs) + 1 \in Nat /\ \A k \in PairsOf(r) : k \in Nat /\ k # Len(r.pairs) + 1
  BY <1>1 DEF PairsOf
<1> QED BY <1>2 DEF Ext, With

LEMMA ExtOn ==
  ASSUME NEW r, NEW s, Keeps(r, s), NEW use, NEW v, NEW w, Ext(use, v, r), Ext(v, w, s)
  PROVE  Ext(use, w, r)
BY Remain DEF Ext

LEMMA OpenIs == Open.kind = "open"
BY DEF Open, Use

LEMMA AllResolved ==
  ASSUME NEW r, NEW busy, Good(r, busy), NEW use, NEW jobs, NEW hands, NEW now,
         Linked(r, use, jobs, hands, now), NEW x, x \in Values(Size(r)), NEW s, s = promiseResolve(r, x),
         NEW v, v = Resolving(r, use, x)
  PROVE  /\ Linked(s, v, jobs, hands, now) /\ Untold(r, s) /\ s.combs = r.combs /\ Ext(use, v, r)
         /\ x.t = "plain" => Now(s, promiseOf(r, x)) = "fulfilled"
         /\ \A k \in PairsOf(s) : k \in PairsOf(r) \/ v[k].kind = "open"
<1>1. CASE x.t = "promise"
  <2>1. s = r /\ v = use
    BY <1>1 DEF promiseResolve, Resolving
  <2> QED BY <1>1, <2>1 DEF Untold, Ext
<1>2. CASE x.t # "promise"
  <2> DEFINE c == newPromise(r)
             n == Len(r.pairs) + 1
  <2>1. s = resolve(c, Len(c.pairs), x) /\ promiseOf(r, x) = Len(r.promises) + 1 /\ v = With(use, n, Open)
    BY <1>2 DEF promiseResolve, promiseOf, Resolving
  <2>2. /\ Good(c, busy) /\ Grown(r, c)
        /\ Len(c.promises) = Len(r.promises) + 1 /\ Len(c.pairs) = Len(r.pairs) + 1
        /\ c.pairs[Len(c.pairs)].promise = Len(c.promises) /\ HasPair(c, Len(c.pairs))
    BY NewPromiseMade
  <2>3. Fit(r, use, Open) /\ Plus(hands, Open, n) = hands
    BY OpenIs DEF Fit, Plus
  <2>4. Linked(c, With(use, n, Open), jobs, Plus(hands, Open, n), now) /\ NewOne(r, c)
    <3>1. n = Len(c.pairs)
      BY <2>2
    <3> QED BY <2>3, <3>1, NewPromiseLinked
  <2>5. Ext(use, v, r) /\ v[n] = Open
    BY <2>1, Extends
  <2> HIDE DEF c, n
  <2>6. Len(c.pairs) = n
    BY <2>2 DEF n
  <2>7. x \in Values(Size(c))
    BY <2>2, StillTyped
  <2>8. v[Len(c.pairs)].kind = "open" /\ ~IsUsed(c, Len(c.pairs)) /\ OwnerOf(c, Len(c.pairs)) = Len(c.promises)
    BY <2>4, <2>5, <2>6, OpenIs DEF NewOne
  <2>9. Linked(c, v, jobs, hands, now)
    BY <2>1, <2>3, <2>4
  <2>10. Linked(s, v, jobs, hands, now) /\ Others(c, s)
    BY <2>1, <2>2, <2>7, <2>8, <2>9, OpenResolved
  <2>11. Resolves(c, s, Len(c.promises), x)
    <3> DEFINE m == Len(c.pairs)
    <3>1. s = resolve(c, m, x) /\ HasPair(c, m) /\ v[m].kind # "derived" /\ ~IsUsed(c, m) /\ OwnerOf(c, m) = Len(c.promises)
      BY <2>1, <2>2, <2>8
    <3> HIDE DEF m
    <3>2. ~IsUsed(c, m) => Resolves(c, s, OwnerOf(c, m), x)
      BY <2>2, <2>7, <2>9, <3>1, ResolveLinked, Zenon
    <3> QED BY <3>1, <3>2
  <2>12. x.t = "plain" => Now(s, promiseOf(r, x)) = "fulfilled"
    BY <2>1, <2>2, <2>11 DEF Resolves, Simple, OutcomeOf
  <2>13. Size(s) = Size(c)
    BY <2>1, <2>2, <2>7, Resolved
  <2>14. \A k \in PairsOf(s) : k \in PairsOf(r) \/ v[k].kind = "open"
    <3>1. Len(s.pairs) = n /\ Len(r.pairs) \in Nat /\ n = Len(r.pairs) + 1
      BY <2>6, <2>13, Owners DEF Size, n
    <3>2. \A k \in PairsOf(s) : k \in PairsOf(r) \/ k = n
      BY <3>1 DEF PairsOf
    <3> QED BY <2>5, <3>2, OpenIs
  <2>15. Untold(r, s) /\ s.combs = r.combs
    BY <2>4, <2>10 DEF Untold, Others, NewOne
  <2> QED BY <2>5, <2>10, <2>12, <2>14, <2>15
<1> QED BY <1>1, <1>2

-----------------------------------------------------------------------------
(* What finally() has been called for.                                     *)
NotFin(u) == u.kind = "derived" => u.f.f \notin {"finThen", "finCatch"} /\ u.g.f \notin {"finThen", "finCatch"}

LEMMA FinsStay ==
  ASSUME NEW r, NEW s, Keeps(r, s), NEW use, NEW v, Ext(use, v, r), Fins(r, use), s.finals = r.finals,
         \A k \in PairsOf(s) : k \in PairsOf(r) \/ NotFin(v[k])
  PROVE  Fins(s, v)
<1>1. \A k \in PairsOf(r) : k \in PairsOf(s) /\ v[k] = use[k]
  BY Remain DEF Ext
<1> QED BY <1>1 DEF Fins, IsFor, NotFin

(* The finally() whose reaction a pair is.                                 *)
IsFin(use, cap, a, p) == use[cap] = Derived(p, FinThen(a), FinCatch(a))
Notes(r, s, a) ==
  /\ Only(r, s, {"finals"}) /\ Len(s.finals) = Len(r.finals)
  /\ \A n \in 1..Len(r.finals) : s.finals[n].pair = r.finals[n].pair /\ s.finals[n].from = r.finals[n].from
  /\ \A n \in 1..Len(r.finals) : n # a => s.finals[n] = r.finals[n]

LEMMA FinIs ==
  ASSUME NEW a PROVE /\ FinThen(a).f = "finThen" /\ FinThen(a).a = a /\ FinCatch(a).f = "finCatch" /\ FinCatch(a).a = a
BY DEF FinThen, FinCatch, Fn

LEMMA FinPair ==
  ASSUME NEW r, NEW use, Fins(r, use), NEW k \in PairsOf(r), use[k].kind = "derived",
         Chosen(r, use, k).f \in {"finThen", "finCatch"}
  PROVE  IsFor(r, k, Chosen(r, use, k).a)
BY DEF Fins, Chosen

LEMMA FinalsLinked ==
  ASSUME NEW r, NEW use, NEW jobs, NEW hands, NEW now, Linked(r, use, jobs, hands, now), NEW s, Only(r, s, {"finals"}),
         \A k \in PairsOf(r) : IsUsed(r, k) /\ k \notin now /\ use[k].kind = "derived"
             /\ Chosen(r, use, k).f \in {"finThen", "finCatch"} =>
           s.finals[Chosen(r, use, k).a] = r.finals[Chosen(r, use, k).a]
  PROVE  Linked(s, use, jobs, hands, now)
<1>1. /\ s.promises = r.promises /\ s.pairs = r.pairs /\ s.jobQueue = r.jobQueue /\ s.derived = r.derived
      /\ s.adopted = r.adopted /\ s.combs = r.combs /\ s.lost = r.lost /\ s.grabs = r.grabs
      /\ PairsOf(s) = PairsOf(r) /\ PromisesOf(s) = PromisesOf(r)
      /\ (\A k : IsUsed(s, k) <=> IsUsed(r, k)) /\ (\A k : OwnerOf(s, k) = OwnerOf(r, k))
      /\ (\A p : Now(s, p) = Now(r, p) /\ ResultOf(s, p) = ResultOf(r, p))
  BY DEF Only, PairsOf, PromisesOf, IsUsed, OwnerOf, Now, ResultOf
<1>2. Effects(s, use, now)
  <2> SUFFICES ASSUME NEW k \in PairsOf(r), IsUsed(r, k), k \notin now, Done(r, use, k) PROVE Done(s, use, k)
    BY <1>1 DEF Linked, Effects
  <2>2. ASSUME use[k].kind = "derived" PROVE Effect(s, use, k, Chosen(s, use, k))
    <3> DEFINE h == Chosen(r, use, k)
    <3>1. Chosen(s, use, k) = h /\ Effect(r, use, k, h)
      BY <1>1, <2>2 DEF Chosen, Done
    <3>2. ASSUME h.f \in {"finThen", "finCatch"} PROVE FinDone(s, use, h.a, k)
      <4>3. s.finals[h.a] = r.finals[h.a]
        BY <2>2, <3>2
      <4>4. FinDone(r, use, h.a, k)
        BY <3>1, <3>2 DEF Effect
      <4> HIDE DEF h
      <4> QED BY <1>1, <4>3, <4>4 DEF FinDone, OutcomeOf
    <3> HIDE DEF h
    <3> QED BY <1>1, <3>1, <3>2 DEF Effect, Alike, Gone, OutcomeOf
  <2> QED BY <1>1, <2>2 DEF Done, Alike, Gone, OutcomeOf
<1>3. Uses(s, use) /\ Lists(s, use) /\ QueueOK(s, use) /\ BatchesOK(s, use, jobs) /\ HandsOK(s, use, hands)
  <2>1. \A k : JobFor(s, use, k) = JobFor(r, use, k)
    BY <1>1 DEF JobFor
  <2>2. \A p, f, g : HandlersOK(r, use, p, f, g) => HandlersOK(s, use, p, f, g)
    BY <1>1 DEF HandlersOK, Public
  <2> QED BY <1>1, <2>1, <2>2 DEF Linked, Uses, Purposed, Lists, ListsOK, Gone, QueueOK, BatchesOK, JobOK, HandsOK, HandOK
<1>4. /\ \A k : IsListed(s, k) <=> IsListed(r, k)
      /\ \A n, k : IsQueued(s, n, k) <=> IsQueued(r, n, k)
      /\ \A k : Waits(s, jobs, k) <=> Waits(r, jobs, k)
  BY <1>1 DEF IsListed, Listed, IsQueued, Waits, InQueue
<1>5. Apart(s, jobs, hands) /\ Derivations(s, use) /\ Openly(s, use)
  BY <1>1, <1>4 DEF Linked, Apart, InQueue, Derivations, Derivation, Openly
<1>6. Owed(s, jobs)
  <2>1. Waiting(s, jobs) = Waiting(r, jobs)
    BY <1>1, <1>4 DEF Waiting
  <2> QED BY <1>1, <2>1 DEF Linked, Owed
<1>7. Tended(s, use, jobs, hands) /\ Adoptions(s, use, jobs) /\ Losses(s, use)
  BY <1>1, <1>4 DEF Linked, Tended, Missed, Adoptions, Adopted, Losses, Belongs
<1> QED BY <1>2, <1>3, <1>5, <1>6, <1>7 DEF Linked

LEMMA NotesLinked ==
  ASSUME NEW r, NEW use, NEW jobs, NEW hands, NEW now,
         Linked(r, use, jobs, hands, now), Fins(r, use), NEW a, NEW s, Notes(r, s, a),
         NEW cap, cap \in hands \/ cap \in now, IsFor(r, cap, a)
  PROVE  Linked(s, use, jobs, hands, now) /\ Fins(s, use) /\ IsFor(s, cap, a)
<1>1. ASSUME NEW k \in PairsOf(r), IsUsed(r, k), k \notin now, use[k].kind = "derived",
             Chosen(r, use, k).f \in {"finThen", "finCatch"}
      PROVE  s.finals[Chosen(r, use, k).a] = r.finals[Chosen(r, use, k).a]
  <2>1. k # cap
    BY <1>1 DEF Linked, HandsOK, HandOK
  <2>2. IsFor(r, k, Chosen(r, use, k).a)
    BY <1>1, FinPair
  <2> QED BY <2>1, <2>2 DEF IsFor, Notes
<1>2. Linked(s, use, jobs, hands, now)
  BY <1>1, FinalsLinked DEF Notes
<1>3. \A n, k : IsFor(s, k, n) <=> IsFor(r, k, n)
  BY DEF Notes, IsFor
<1>4. PairsOf(s) = PairsOf(r)
  BY DEF Notes, Only, PairsOf
<1>5. \A n \in 1..Len(s.finals) : /\ s.finals[n].pair \in PairsOf(s)
                                  /\ use[s.finals[n].pair] = Derived(s.finals[n].from, FinThen(n), FinCatch(n))
  BY <1>4 DEF Fins, Notes
<1> QED BY <1>2, <1>3, <1>4, <1>5 DEF Fins

(* finally() has called then().                                            *)
Adds(r, t, k) == k \in PairsOf(t) /\ ~IsUsed(t, k) /\ \A m \in PairsOf(t) : m \in PairsOf(r) \/ m = k
Enters(t, s, p, k) ==
  Only(t, s, {"finals"}) /\ \E e \in Finals : e.from = p /\ e.pair = k /\ s.finals = Append(t.finals, e)
LEMMA FinallyLinked ==
  ASSUME NEW r, NEW use, Fins(r, use), NEW t, NEW v, Keeps(r, t), Ext(use, v, r), t.finals = r.finals, r.finals \in Seq(Finals),
         NEW jobs, NEW hands, NEW now, Linked(t, v, jobs, hands, now),
         NEW k, Adds(r, t, k),
         NEW n, n = Len(r.finals) + 1, NEW p, v[k] = Derived(p, FinThen(n), FinCatch(n)),
         NEW s, Enters(t, s, p, k)
  PROVE  Linked(s, v, jobs, hands, now) /\ Fins(s, v)
<1>0. /\ k \in PairsOf(t) /\ (\A m \in PairsOf(t) : m \in PairsOf(r) \/ m = k) /\ ~IsUsed(t, k)
      /\ Only(t, s, {"finals"})
  BY DEF Adds, Enters
<1> PICK e \in Finals : e.from = p /\ e.pair = k /\ s.finals = Append(t.finals, e)
  BY DEF Enters
<1> USE <1>0
<1>1. /\ Len(r.finals) \in Nat /\ Len(s.finals) = n /\ s.finals[n] = e
      /\ \A i \in 1..Len(r.finals) : s.finals[i] = r.finals[i]
  BY AppendProperties, LenProperties
<1>2. \A i : i \in 1..Len(s.finals) <=> i \in 1..Len(r.finals) \/ i = n
  BY <1>1
<1>3. \A m \in PairsOf(r) : m \in PairsOf(t) /\ v[m] = use[m]
  BY Remain DEF Ext
<1>4. ASSUME NEW m \in PairsOf(t), IsUsed(t, m), m \notin now, v[m].kind = "derived",
             Chosen(t, v, m).f \in {"finThen", "finCatch"}
      PROVE  s.finals[Chosen(t, v, m).a] = t.finals[Chosen(t, v, m).a]
  <2>1. m \in PairsOf(r) /\ v[m] = use[m]
    BY <1>3, <1>4
  <2>2. Chosen(t, v, m) = use[m].f \/ Chosen(t, v, m) = use[m].g
    BY <2>1 DEF Chosen
  <2>3. Chosen(t, v, m).a \in 1..Len(r.finals)
    BY <1>4, <2>1, <2>2 DEF Fins, IsFor
  <2> QED BY <1>1, <2>3
<1>5. Linked(s, v, jobs, hands, now)
  BY <1>4, FinalsLinked, Zenon
<1>6. PairsOf(s) = PairsOf(t)
  BY DEF Only, PairsOf
<1>7. \A i, m : IsFor(r, m, i) => IsFor(s, m, i)
  BY <1>1, <1>2 DEF IsFor
<1>8. IsFor(s, k, n)
  BY <1>1, <1>2 DEF IsFor
<1>9. \A i \in 1..Len(s.finals) : /\ s.finals[i].pair \in PairsOf(s)
                                  /\ v[s.finals[i].pair] = Derived(s.finals[i].from, FinThen(i), FinCatch(i))
  BY <1>1, <1>2, <1>3, <1>6 DEF Fins
<1>10. \A m \in PairsOf(s) : v[m].kind = "derived" =>
         /\ v[m].f.f = "finThen" => IsFor(s, m, v[m].f.a)
         /\ v[m].g.f = "finCatch" => IsFor(s, m, v[m].g.a)
         /\ v[m].f.f # "finCatch" /\ v[m].g.f # "finThen"
  <2> SUFFICES ASSUME NEW m \in PairsOf(t), v[m].kind = "derived"
               PROVE  /\ v[m].f.f = "finThen" => IsFor(s, m, v[m].f.a)
                      /\ v[m].g.f = "finCatch" => IsFor(s, m, v[m].g.a)
                      /\ v[m].f.f # "finCatch" /\ v[m].g.f # "finThen"
    BY <1>6
  <2>1. CASE m \in PairsOf(r)
    BY <1>3, <1>7, <2>1 DEF Fins
  <2>2. CASE m = k
    <3>1. v[m].f = FinThen(n) /\ v[m].g = FinCatch(n)
      BY <2>2, DerivedIs
    <3> QED BY <1>8, <2>2, <3>1, FinIs
  <2> QED BY <2>1, <2>2
<1> QED BY <1>5, <1>9, <1>10 DEF Fins

-----------------------------------------------------------------------------
(* Jobs leave the queue and the batches.                                   *)
LEMMA ListedNotRun ==
  ASSUME NEW r, NEW use, NEW jobs, NEW hands, NEW now, Linked(r, use, jobs, hands, now), NEW k, InBatch(jobs, k)
  PROVE  HandOK(r, use, k) /\ ~IsListed(r, k) /\ ~InQueue(r, k) /\ k \notin hands
<1>1. PICK job \in jobs : IsReaction(job) /\ job.cap = k
  BY DEF InBatch
<1>2. k \in PairsOf(r) /\ use[k].kind = "derived" /\ ~IsUsed(r, k) /\ Gone(r, use[k].p)
  BY <1>1 DEF Linked, BatchesOK, JobOK
<1>3. ~IsListed(r, k)
  <2> SUFFICES ASSUME NEW p \in PromisesOf(r), NEW i, Listed(r, p, i, k) PROVE FALSE
    BY DEF IsListed
  <2>1. ListsOK(r, use, p)
    BY DEF Linked, Lists
  <2>2. use[k] = Derived(p, r.promises[p].fulfillReactions[i].handler, r.promises[p].rejectReactions[i].handler)
    BY <2>1, Zenon DEF ListsOK, Listed
  <2>3. use[k].p = p
    BY <2>2, DerivedIs
  <2>4. r.promises[p].fulfillReactions = <<>>
    BY <1>2, <2>1, <2>3 DEF ListsOK
  <2> QED BY <2>4 DEF Listed
<1> QED BY <1>2, <1>3 DEF HandOK, Linked, Apart

LEMMA RegroupLinked ==
  ASSUME NEW r, NEW busy, Good(r, busy), NEW use, NEW jobs, NEW hands, NEW now, Linked(r, use, jobs, hands, now),
         NEW jobs2, jobs2 \subseteq jobs, NEW hands2, hands \subseteq hands2,
         \A k : InBatch(jobs, k) => InBatch(jobs2, k) \/ k \in hands2,
         \A k \in hands2 : k \in hands \/ (InBatch(jobs, k) /\ ~InBatch(jobs2, k)),
         \A p, x : Thenable(p, x) \in jobs /\ x.t = "promise" => Thenable(p, x) \in jobs2 \/ Adopted(r, use, jobs2, p, x)
  PROVE  Linked(r, use, jobs2, hands2, now)
<1>1. \A k : InBatch(jobs2, k) => InBatch(jobs, k)
  BY DEF InBatch
<1>2. BatchesOK(r, use, jobs2)
  BY DEF Linked, BatchesOK
<1>3. HandsOK(r, use, hands2)
  BY ListedNotRun, Zenon DEF Linked, HandsOK
<1>4. Apart(r, jobs2, hands2)
  <2>1. Apart(r, jobs, hands)
    BY DEF Linked
  <2>2. \A k \in hands2 : ~IsListed(r, k) /\ ~InQueue(r, k) /\ ~InBatch(jobs2, k)
    BY <1>1, <2>1, ListedNotRun DEF Apart
  <2> QED BY <1>1, <2>1, <2>2 DEF Apart
<1>5. Owed(r, jobs2)
  <2>1. Waiting(r, jobs2) \subseteq Waiting(r, jobs)
    BY <1>1 DEF Waiting, Waits
  <2> QED BY <2>1, OwedStill DEF Linked
<1>6. Tended(r, use, jobs2, hands2) /\ Adoptions(r, use, jobs2) /\ Losses(r, use)
  <2>1. Tended(r, use, jobs, hands) /\ Adoptions(r, use, jobs) /\ Losses(r, use)
    BY DEF Linked
  <2>2. Tended(r, use, jobs2, hands2)
    BY <2>1 DEF Tended, Waits
  <2>3. \A p, x : Adopted(r, use, jobs, p, x) /\ x.t = "promise" => Adopted(r, use, jobs2, p, x)
    BY DEF Adopted
  <2>4. Adoptions(r, use, jobs2)
    BY <2>1, <2>3 DEF Adoptions
  <2> QED BY <2>1, <2>2, <2>4
<1> QED BY <1>2, <1>3, <1>4, <1>5, <1>6 DEF Linked

(* A reaction's job is taken from a batch; its context is resumed.         *)
Takes(jobs, less, job) ==
  /\ less \subseteq jobs /\ job \in jobs /\ \A j \in jobs : j \in less \/ j = job
  /\ IsReaction(job) => ~InBatch(less, job.cap)

LEMMA TakenLinked ==
  ASSUME NEW r, NEW busy, Good(r, busy), NEW use, NEW jobs, NEW hands, NEW now, Linked(r, use, jobs, hands, now),
         NEW job, IsReaction(job), NEW less, Takes(jobs, less, job)
  PROVE  /\ Linked(r, use, less, hands \cup {job.cap}, now)
         /\ Linked(resumed(r), use, less, hands \cup {job.cap}, now)
<1> DEFINE cap == job.cap
           more == hands \cup {cap}
           s == resumed(r)
<1>0. InBatch(jobs, cap) /\ ~InBatch(less, cap)
  BY DEF Takes, InBatch
<1>1. Linked(r, use, less, more, now)
  <2>1. \A k : InBatch(jobs, k) => InBatch(less, k) \/ k \in more
    BY DEF InBatch, Takes
  <2>2. \A p, x : Thenable(p, x) \in jobs /\ x.t = "promise" => Thenable(p, x) \in less
    <3>1. \A p, x : Thenable(p, x) # job
      BY JobIs DEF Thenable, IsReaction
    <3> QED BY <3>1 DEF Takes
  <2>3. \A k \in more : k \in hands \/ (InBatch(jobs, k) /\ ~InBatch(less, k))
    BY <1>0
  <2>4. less \subseteq jobs /\ hands \subseteq more
    BY DEF Takes
  <2> HIDE DEF more
  <2> QED BY <2>1, <2>2, <2>3, <2>4, RegroupLinked
<1>2. Good(s, busy) /\ Grown(r, s)
  BY Counting
<1>3. Only(r, s, {"grabs", "resumed"}) /\ s.grabs = r.grabs - 1
  <2> DEFINE g == [r EXCEPT !.grabs = @ - 1]
  <2>1. Shape(r) /\ s = [g EXCEPT !.resumed = @ + 1]
    BY DEF Good, Typed, resumed
  <2>2. Only(r, g, {"grabs"}) /\ g.grabs = r.grabs - 1
    BY <2>1, Set_grabs
  <2> HIDE DEF g, s
  <2>3. Only(g, s, {"resumed"})
    <3>1. Shape(g)
      BY <2>2 DEF Only
    <3> QED BY <2>1, <3>1, Set_resumed
  <2> QED BY <2>2, <2>3 DEF Only
<1>4. Owed(s, less)
  <2> DEFINE W == Waiting(r, jobs)
             V == Waiting(r, less)
  <2>1. V \subseteq W \ {cap} /\ cap \in W
    <3>1. ~Waits(r, less, cap) /\ Waits(r, jobs, cap) /\ cap \in PairsOf(r)
      BY <1>0, ListedNotRun DEF Waits, HandOK
    <3>2. \A k : Waits(r, less, k) => Waits(r, jobs, k)
      BY DEF Waits, InBatch, Takes
    <3> QED BY <3>1, <3>2 DEF Waiting
  <2>2. IsFiniteSet(W) /\ Cardinality(W) \in Nat /\ r.grabs \in Nat /\ Cardinality(W) <= r.grabs
    BY WaitingFinite DEF Linked, Owed
  <2>3. Waiting(s, less) = V
    BY <1>3, Zenon DEF Only, Waiting, Waits, IsListed, Listed, InQueue, IsQueued, PairsOf, PromisesOf
  <2> HIDE DEF W, V
  <2>4. IsFiniteSet(W \ {cap}) /\ Cardinality(W \ {cap}) = Cardinality(W) - 1
    BY <2>1, <2>2, FS_RemoveElement, Zenon
  <2>5. Cardinality(V) <= Cardinality(W \ {cap}) /\ Cardinality(V) \in Nat
    BY <2>1, <2>4, FS_Subset, FS_CardinalityType
  <2> QED BY <1>3, <2>2, <2>3, <2>4, <2>5 DEF Owed
<1> HIDE DEF s
<1>5. Openly(s, use) /\ Derivations(s, use)
  BY <1>1, <1>3, Zenon DEF Linked, Only, Openly, Derivations, Derivation, PairsOf
<1>6. Linked(s, use, less, more, now)
  <2>1. Only(r, s, {"combs", "grabs", "resumed", "derived"})
    BY <1>3 DEF Only
  <2> QED BY <1>1, <1>2, <1>4, <1>5, <2>1, Untouched
<1> QED BY <1>1, <1>6 DEF s

LEMMA ExitedLinked ==
  ASSUME NEW r, NEW busy, Good(r, busy), NEW use, NEW jobs, NEW hands, NEW now, Linked(r, use, jobs, hands, now)
  PROVE  Linked(exited(r), use, jobs, hands, now) /\ Only(r, exited(r), {"resumed"}) /\ exited(r).resumed = r.resumed - 1
<1> DEFINE s == exited(r)
<1>1. Only(r, s, {"resumed"}) /\ s.resumed = r.resumed - 1
  <2>1. Shape(r)
    BY DEF Good, Typed
  <2> QED BY <2>1, Set_resumed DEF exited
<1>2. Grown(r, s)
  BY Counting
<1> HIDE DEF s
<1>3. Openly(s, use) /\ Derivations(s, use)
  BY <1>1, Zenon DEF Linked, Only, Openly, Derivations, Derivation, PairsOf
<1>4. Owed(s, jobs)
  <2>1. Waiting(s, jobs) = Waiting(r, jobs)
    BY <1>1, Zenon DEF Only, Waiting, Waits, IsListed, Listed, InQueue, IsQueued, PairsOf, PromisesOf
  <2> QED BY <1>1, <2>1 DEF Linked, Owed, Only
<1>5. Linked(s, use, jobs, hands, now)
  <2>1. Only(r, s, {"combs", "grabs", "resumed", "derived"})
    BY <1>1 DEF Only
  <2> QED BY <1>2, <1>3, <1>4, <2>1, Untouched
<1> QED BY <1>1, <1>5 DEF s

(* The queue becomes a batch, or is dropped.                            *)
LEMMA SharedStays ==
  ASSUME NEW r, NEW use, NEW jobs, NEW hands, NEW now, Linked(r, use, jobs, hands, now),
         NEW s, Only(r, s, {"jobQueue", "lost"})
  PROVE  /\ Uses(s, use) /\ Lists(s, use) /\ Effects(s, use, now) /\ Derivations(s, use) /\ Openly(s, use)
         /\ \A k : (HandOK(r, use, k) => HandOK(s, use, k)) /\ (IsListed(s, k) <=> IsListed(r, k))
         /\ \A job : JobOK(r, use, job) => JobOK(s, use, job)
         /\ s.grabs = r.grabs /\ PairsOf(s) = PairsOf(r) /\ s.adopted = r.adopted
         /\ \A k : (IsUsed(s, k) <=> IsUsed(r, k)) /\ OwnerOf(s, k) = OwnerOf(r, k)
         /\ \A job : Belongs(r, use, job) => Belongs(s, use, job)
<1>1. /\ s.promises = r.promises /\ s.pairs = r.pairs /\ s.derived = r.derived /\ s.finals = r.finals
      /\ s.adopted = r.adopted /\ s.combs = r.combs /\ s.grabs = r.grabs
      /\ PairsOf(s) = PairsOf(r) /\ PromisesOf(s) = PromisesOf(r)
      /\ (\A k : IsUsed(s, k) <=> IsUsed(r, k)) /\ (\A k : OwnerOf(s, k) = OwnerOf(r, k))
      /\ (\A p : Now(s, p) = Now(r, p) /\ ResultOf(s, p) = ResultOf(r, p))
  BY DEF Only, PairsOf, PromisesOf, IsUsed, OwnerOf, Now, ResultOf
<1>2. \A k : JobFor(s, use, k) = JobFor(r, use, k)
  BY <1>1 DEF JobFor
<1>3. \A p, f, g : HandlersOK(r, use, p, f, g) => HandlersOK(s, use, p, f, g)
  BY <1>1 DEF HandlersOK, Public
<1>4. Uses(s, use) /\ Lists(s, use) /\ Derivations(s, use) /\ Openly(s, use)
  BY <1>1, <1>3 DEF Linked, Uses, Purposed, Lists, ListsOK, Gone, Derivations, Derivation, Openly
<1>5. \A k : (HandOK(r, use, k) => HandOK(s, use, k)) /\ (IsListed(s, k) <=> IsListed(r, k))
  BY <1>1 DEF HandOK, IsListed, Listed
<1>6. \A job : JobOK(r, use, job) => JobOK(s, use, job)
  BY <1>1, <1>2 DEF JobOK, Gone
<1>7. Effects(s, use, now)
  <2> SUFFICES ASSUME NEW k \in PairsOf(r), IsUsed(r, k), k \notin now, Done(r, use, k) PROVE Done(s, use, k)
    BY <1>1 DEF Linked, Effects
  <2>1. Chosen(s, use, k) = Chosen(r, use, k)
    BY <1>1 DEF Chosen
  <2>2. \A n : FinDone(r, use, n, k) => FinDone(s, use, n, k)
    BY <1>1 DEF FinDone, OutcomeOf
  <2>3. \A h : Effect(r, use, k, h) => Effect(s, use, k, h)
    BY <1>1, <2>2 DEF Effect, Alike, Gone, OutcomeOf
  <2> QED BY <1>1, <2>1, <2>3 DEF Done, Alike, Gone, OutcomeOf
<1>8. \A job : Belongs(r, use, job) => Belongs(s, use, job)
  BY <1>1 DEF Belongs
<1> QED BY <1>1, <1>4, <1>5, <1>6, <1>7, <1>8

LEMMA BatchLinked ==
  ASSUME NEW r, NEW busy, Good(r, busy), NEW use, NEW jobs, NEW hands, NEW now, Linked(r, use, jobs, hands, now),
         NEW s, Only(r, s, {"jobQueue"}), s.jobQueue = <<>>, NEW more,
         \A job : job \in more <=> job \in jobs \/ \E n \in 1..Len(r.jobQueue) : job = r.jobQueue[n]
  PROVE  Linked(s, use, more, hands, now)
<1>1. Only(r, s, {"jobQueue", "lost"}) /\ s.lost = r.lost
  BY DEF Only
<1>2. \A k : ~InQueue(s, k)
  BY DEF InQueue, IsQueued
<1>3. \A k : InBatch(more, k) <=> InBatch(jobs, k) \/ InQueue(r, k)
  BY DEF InBatch, InQueue, IsQueued
<1>4. /\ Uses(s, use) /\ Lists(s, use) /\ Effects(s, use, now) /\ Derivations(s, use) /\ Openly(s, use)
      /\ \A k : (HandOK(r, use, k) => HandOK(s, use, k)) /\ (IsListed(s, k) <=> IsListed(r, k))
      /\ \A job : JobOK(r, use, job) => JobOK(s, use, job)
      /\ s.grabs = r.grabs /\ PairsOf(s) = PairsOf(r) /\ s.adopted = r.adopted
      /\ \A k : (IsUsed(s, k) <=> IsUsed(r, k)) /\ OwnerOf(s, k) = OwnerOf(r, k)
  BY <1>1, SharedStays
<1>5. QueueOK(s, use)
  BY DEF QueueOK
<1>6. BatchesOK(s, use, more) /\ HandsOK(s, use, hands)
  BY <1>4 DEF Linked, BatchesOK, QueueOK, HandsOK
<1>7. Apart(s, more, hands)
  <2>1. Apart(r, jobs, hands)
    BY DEF Linked
  <2>2. \A n, k : ~IsQueued(s, n, k)
    BY <1>2 DEF InQueue
  <2> QED BY <1>2, <1>3, <1>4, <2>1, <2>2 DEF Apart
<1>8. \A k : Waits(s, more, k) <=> Waits(r, jobs, k)
  BY <1>2, <1>3, <1>4 DEF Waits
<1>9. Owed(s, more)
  <2>1. Waiting(s, more) \subseteq Waiting(r, jobs)
    BY <1>4, <1>8 DEF Waiting
  <2> QED BY <1>4, <2>1, OwedStill DEF Linked
<1>10. Tended(s, use, more, hands) /\ Adoptions(s, use, more) /\ Losses(s, use)
  <2>1. \A p, x : Adopted(r, use, jobs, p, x) => Adopted(s, use, more, p, x)
    BY <1>1, <1>4 DEF Adopted
  <2>2. \A job : Belongs(r, use, job) => Belongs(s, use, job)
    BY <1>1, SharedStays
  <2>3. Tended(s, use, more, hands)
    BY <1>1, <1>4, <1>8 DEF Linked, Tended, Missed
  <2> QED BY <1>1, <1>4, <2>1, <2>2, <2>3 DEF Linked, Adoptions, Losses
<1> QED BY <1>4, <1>5, <1>6, <1>7, <1>9, <1>10 DEF Linked

(* What goes is remembered as lost, and nothing else.                      *)
LEMMA JobReacts ==
  ASSUME NEW r, NEW use, NEW job, JobOK(r, use, job)
  PROVE  Belongs(r, use, job)
<1> SUFFICES ASSUME IsReaction(job)
             PROVE  job.cap \in PairsOf(r) /\ use[job.cap].kind = "derived"
                    /\ job.handler \in {use[job.cap].f, use[job.cap].g}
  BY DEF Belongs
<1>1. job.cap \in PairsOf(r) /\ use[job.cap].kind = "derived" /\ job = JobFor(r, use, job.cap)
  BY DEF JobOK
<1>2. \A k : JobFor(r, use, k).handler \in {use[k].f, use[k].g}
  BY DEF JobFor, Job
<1> QED BY <1>1, <1>2

LEMMA DropLinked ==
  ASSUME NEW r, NEW busy, Good(r, busy), NEW use, NEW jobs, NEW hands, NEW now, Linked(r, use, jobs, hands, now),
         NEW s, Only(r, s, {"jobQueue", "lost"}), s.jobQueue = <<>>, r.lost \subseteq s.lost,
         NEW less, less \subseteq jobs, NEW fewer, fewer \subseteq hands,
         \A n \in 1..Len(r.jobQueue) : r.jobQueue[n] \in s.lost,
         \A job \in jobs : job \in less \/ job \in s.lost,
         \A k \in hands : k \in fewer \/ Missed(s, k),
         \A job \in s.lost : job \in r.lost \/ Belongs(r, use, job)
  PROVE  Linked(s, use, less, fewer, now)
<1>2. \A n, k : ~IsQueued(s, n, k) /\ ~InQueue(s, k)
  BY DEF InQueue, IsQueued
<1>3. \A k : InBatch(less, k) => InBatch(jobs, k)
  BY DEF InBatch
<1>4. /\ Uses(s, use) /\ Lists(s, use) /\ Effects(s, use, now) /\ Derivations(s, use) /\ Openly(s, use)
      /\ \A k : (HandOK(r, use, k) => HandOK(s, use, k)) /\ (IsListed(s, k) <=> IsListed(r, k))
      /\ \A job : JobOK(r, use, job) => JobOK(s, use, job)
      /\ s.grabs = r.grabs /\ PairsOf(s) = PairsOf(r) /\ s.adopted = r.adopted
      /\ \A k : (IsUsed(s, k) <=> IsUsed(r, k)) /\ OwnerOf(s, k) = OwnerOf(r, k)
  BY SharedStays
<1>5. QueueOK(s, use)
  BY DEF QueueOK
<1>6. BatchesOK(s, use, less) /\ HandsOK(s, use, fewer)
  BY <1>4 DEF Linked, BatchesOK, HandsOK
<1>7. Apart(s, less, fewer)
  BY <1>2, <1>3, <1>4, Zenon DEF Linked, Apart
<1>8. Owed(s, less)
  <2>1. Waiting(s, less) \subseteq Waiting(r, jobs)
    BY <1>2, <1>3, <1>4 DEF Waiting, Waits
  <2> QED BY <1>4, <2>1, OwedStill DEF Linked
<1>9. Tended(s, use, less, fewer)
  <2> SUFFICES ASSUME NEW k \in PairsOf(r), use[k].kind = "derived", ~IsUsed(r, k)
               PROVE  k \in fewer \/ Waits(s, less, k) \/ Missed(s, k)
    BY <1>4 DEF Tended
  <2>1. k \in hands \/ Waits(r, jobs, k) \/ Missed(r, k)
    BY DEF Linked, Tended
  <2>2. InQueue(r, k) => Missed(s, k)
    BY DEF InQueue, IsQueued, Missed, InBatch
  <2>3. InBatch(jobs, k) => InBatch(less, k) \/ Missed(s, k)
    BY DEF InBatch, Missed
  <2>4. Missed(r, k) => Missed(s, k)
    BY DEF InBatch, Missed
  <2> QED BY <1>4, <2>1, <2>2, <2>3, <2>4 DEF Waits
<1>10. Adoptions(s, use, less)
  <2> SUFFICES ASSUME NEW a \in r.adopted, a[2].t = "promise" PROVE Adopted(s, use, less, a[1], a[2])
    BY <1>4 DEF Adoptions
  <2>1. Adopted(r, use, jobs, a[1], a[2])
    BY DEF Linked, Adoptions
  <2> QED BY <1>4, <2>1 DEF Adopted
<1>11. Losses(s, use)
  <2>1. \A job : Belongs(r, use, job) => Belongs(s, use, job)
    BY SharedStays
  <2> QED BY <2>1 DEF Linked, Losses
<1> QED BY <1>4, <1>5, <1>6, <1>7, <1>8, <1>9, <1>10, <1>11 DEF Linked

-----------------------------------------------------------------------------
(* The end of a reaction's job.                                            *)
LEMMA JobParts2 ==
  ASSUME NEW r, NEW use, NEW k
  PROVE  /\ JobFor(r, use, k).k = "reaction" /\ JobFor(r, use, k).cap = k
         /\ JobFor(r, use, k).handler = Chosen(r, use, k) /\ JobFor(r, use, k).arg = ResultOf(r, use[k].p)
         /\ JobFor(r, use, k).typ = IF Now(r, use[k].p) = "fulfilled" THEN "fulfill" ELSE "reject"
<1>1. CASE Now(r, use[k].p) = "fulfilled"
  BY <1>1, JobIs DEF JobFor, Chosen
<1>2. CASE Now(r, use[k].p) # "fulfilled"
  BY <1>2, JobIs DEF JobFor, Chosen
<1> QED BY <1>1, <1>2

LEMMA EndLinked ==
  ASSUME NEW r, NEW busy, Good(r, busy), NEW use, NEW jobs, NEW hands, NEW now,
         Linked(r, use, jobs, hands, now), NEW k, k \in hands, Gone(r, use[k].p), NEW ok \in BOOLEAN,
         NEW x, x \in Values(Size(r)), NEW s, s = settle(r, k, ok, x), Effect(s, use, k, Chosen(r, use, k))
  PROVE  Linked(s, use, jobs, hands \ {k}, now)
<1>1. Linked(s, use, jobs, hands \ {k}, now \cup {k})
  BY SettleLinked
<1>2. HasPair(r, k) /\ k \in PairsOf(r) /\ use[k].kind = "derived"
  BY DEF Linked, HandsOK, HandOK, HasPair, PairsOf
<1>3. Keeps(r, s)
  BY <1>2, SettledBy DEF Grown
<1>4. use[k].p \in PromisesOf(r)
  BY <1>2 DEF Linked, Uses, Purposed
<1>5. Chosen(s, use, k) = Chosen(r, use, k) /\ Gone(s, use[k].p)
  BY <1>3, <1>4, JobForStays, Remain
<1>6. Done(s, use, k)
  BY <1>2, <1>5 DEF Done
<1> QED BY <1>1, <1>6, DoneNow

(* What is chosen fits the outcome of the promise.                         *)
LEMMA ChosenFits ==
  ASSUME NEW r, NEW busy, Good(r, busy), NEW use, NEW jobs, NEW hands, NEW now,
         Linked(r, use, jobs, hands, now), NEW k \in PairsOf(r), use[k].kind = "derived", Gone(r, use[k].p),
         NEW h, h = Chosen(r, use, k)
  PROVE  /\ use[k].p \in PromisesOf(r) /\ Now(r, use[k].p) \in {"fulfilled", "rejected"}
         /\ Now(r, use[k].p) = "fulfilled" => Simple(ResultOf(r, use[k].p))
         /\ h.f = "thunk" => Simple(h.x)
         /\ \/ Public(r, use, h)
            \/ \E m \in PairsOf(r) : /\ use[m] = Adopting(use[k].p)
                                     /\ h = IF Now(r, use[k].p) = "fulfilled" THEN ResolveFn(m) ELSE RejectFn(m)
<1> DEFINE p == use[k].p
<1>1. p \in PromisesOf(r) /\ HandlersOK(r, use, p, use[k].f, use[k].g)
  BY DEF Linked, Uses, Purposed
<1>2. r.promises[p] \in PromiseObjects(Size(r))
  BY <1>1, Elements DEF Good, PromisesOf
<1>3. Now(r, p) \in {"fulfilled", "rejected"}
  BY <1>2 DEF PromiseObjects, Gone, Now
<1>4. Now(r, p) = "fulfilled" => Simple(ResultOf(r, p))
  BY <1>1 DEF Linked, Lists, ListsOK
<1>5. h = IF Now(r, p) = "fulfilled" THEN use[k].f ELSE use[k].g
  BY DEF Chosen
<1>6. \A m : ResolveFn(m).f # "thunk" /\ RejectFn(m).f # "thunk"
  BY DEF ResolveFn, RejectFn, Fn
<1> HIDE DEF p
<1>7. h.f = "thunk" => Simple(h.x)
  BY <1>1, <1>5, <1>6 DEF HandlersOK
<1>8. \/ Public(r, use, h)
      \/ \E m \in PairsOf(r) : use[m] = Adopting(p) /\ h = IF Now(r, p) = "fulfilled" THEN ResolveFn(m) ELSE RejectFn(m)
  BY <1>1, <1>5 DEF HandlersOK
<1> QED BY <1>1, <1>3, <1>4, <1>7, <1>8 DEF p

LEMMA AdoptingIs ==
  ASSUME NEW p, NEW m
  PROVE  /\ Adopting(p).kind = "adopting" /\ Adopting(p).p = p
         /\ ResolveFn(m).f = "resolve" /\ ResolveFn(m).a = m /\ RejectFn(m).f = "reject" /\ RejectFn(m).a = m
BY DEF Adopting, Use, ResolveFn, RejectFn, Fn

(* The reaction of a pair that adopts.                                     *)
LEMMA AdoptsLinked ==
  ASSUME NEW r, NEW busy, Good(r, busy), NEW use, NEW jobs, NEW hands, NEW now,
         Linked(r, use, jobs, hands, now), NEW p, p \in PromisesOf(r), NEW m, m \in PairsOf(r), use[m] = Adopting(p),
         m \notin now, Now(r, p) \in {"fulfilled", "rejected"}, Now(r, p) = "fulfilled" => Simple(ResultOf(r, p)),
         NEW h, h = IF Now(r, p) = "fulfilled" THEN ResolveFn(m) ELSE RejectFn(m),
         NEW s, s = call(r, h, ResultOf(r, p))
  PROVE  Linked(s, use, jobs, hands, now) /\ Untold(r, s) /\ IsUsed(s, m)
<1> DEFINE x == ResultOf(r, p)
<1>1. use[m].kind = "adopting" /\ use[m].p = p
  BY AdoptingIs
<1>2. x \in Values(Size(r)) /\ HasPair(r, m)
  BY Elements DEF Good, PromisesOf, PairsOf, HasPair, PromiseObjects, ResultOf
<1>3. m \notin hands /\ hands \ {m} = hands
  <2>1. m \notin hands
    BY <1>1 DEF Linked, HandsOK, HandOK
  <2> QED BY <2>1
<1> HIDE DEF x
<1>4. /\ Linked(s, use, jobs, hands \ {m}, now \cup {m}) /\ IsUsed(s, m) /\ Grown(r, s)
      /\ IsUsed(r, m) => s = r
      /\ ~IsUsed(r, m) => OutcomeOf(s, OwnerOf(r, m)) = <<Now(r, p), x>> /\ Others(r, s)
  <2>1. CASE Now(r, p) = "fulfilled"
    <3>1. s = resolve(r, m, x) /\ Simple(x)
      BY <2>1, AdoptingIs DEF call, x
    <3>2. /\ Linked(s, use, jobs, hands \ {m}, now \cup {m}) /\ IsUsed(s, m)
          /\ IsUsed(r, m) => s = r
          /\ ~IsUsed(r, m) => Resolves(r, s, OwnerOf(r, m), x)
      BY <1>1, <1>2, <3>1, ResolveLinked
    <3>3. Grown(r, s)
      BY <1>2, <3>1, Resolved
    <3> QED BY <2>1, <3>1, <3>2, <3>3 DEF Resolves
  <2>2. CASE Now(r, p) = "rejected"
    <3>1. s = rejectBy(r, m, x)
      BY <2>2, AdoptingIs DEF call, x
    <3>2. /\ Linked(s, use, jobs, hands \ {m}, now \cup {m}) /\ IsUsed(s, m)
          /\ IsUsed(r, m) => s = r
          /\ ~IsUsed(r, m) => Rejects(r, s, OwnerOf(r, m), x)
      BY <1>1, <1>2, <3>1, RejectLinked, Zenon
    <3>3. Grown(r, s)
      BY <1>2, <3>1, RejectedBy
    <3> QED BY <2>2, <3>1, <3>2, <3>3 DEF Rejects
  <2> QED BY <2>1, <2>2
<1>5. Done(s, use, m)
  <2>1. CASE IsUsed(r, m)
    BY <1>4, <2>1 DEF Linked, Effects
  <2>2. CASE ~IsUsed(r, m)
    <3>1. Gone(r, p) /\ OutcomeOf(r, p) = <<Now(r, p), x>>
      BY DEF Gone, OutcomeOf, x
    <3>2. Gone(s, p) /\ OutcomeOf(s, p) = <<Now(r, p), x>> /\ OwnerOf(s, m) = OwnerOf(r, m)
      BY <1>4, <3>1, Remain DEF Grown
    <3>3. OutcomeOf(s, OwnerOf(s, m)) = <<Now(r, p), x>>
      BY <1>4, <2>2, <3>2
    <3>4. Gone(s, OwnerOf(s, m))
      BY <3>3 DEF Gone, OutcomeOf
    <3> QED BY <1>1, <3>2, <3>3, <3>4 DEF Done, Alike
  <2> QED BY <2>1, <2>2
<1>6. Linked(s, use, jobs, hands, now)
  BY <1>3, <1>4, <1>5, DoneNow
<1>7. Untold(r, s)
  BY <1>4 DEF Untold, Others
<1> QED BY <1>4, <1>6, <1>7

(* A reaction's job that runs no user code, its job having been taken.     *)
LEMMA CalledLinked ==
  ASSUME NEW r, NEW busy, Good(r, busy), NEW use, NEW jobs, NEW hands,
         Linked(r, use, jobs, hands, {}), NEW k, k \in hands, Gone(r, use[k].p),
         NEW h, h = Chosen(r, use, k), h \in Functions(Size(r)), NEW s, s = call(r, h, ResultOf(r, use[k].p))
  PROVE  /\ Linked(s, use, jobs, hands, {}) /\ Untold(r, s)
         /\ h.f \in {"resolve", "reject"} /\ use[h.a].kind = "adopting" => IsUsed(s, h.a)
<1> DEFINE p == use[k].p
<1>1. k \in PairsOf(r) /\ use[k].kind = "derived"
  BY DEF Linked, HandsOK, HandOK
<1>2. /\ p \in PromisesOf(r) /\ Now(r, p) \in {"fulfilled", "rejected"}
      /\ Now(r, p) = "fulfilled" => Simple(ResultOf(r, p))
      /\ \/ Public(r, use, h)
         \/ \E m \in PairsOf(r) : use[m] = Adopting(p) /\ h = IF Now(r, p) = "fulfilled" THEN ResolveFn(m) ELSE RejectFn(m)
  BY <1>1, ChosenFits
<1>3. ResultOf(r, p) \in Values(Size(r))
  BY <1>2, Elements DEF Good, PromisesOf, PromiseObjects, ResultOf
<1> HIDE DEF p
<1>4. CASE Public(r, use, h)
  <2>1. Linked(s, use, jobs, hands, {}) /\ Untold(r, s)
    BY <1>3, <1>4, CallLinked DEF p
  <2>2. h.f \in {"resolve", "reject"} => use[h.a].kind # "adopting"
    BY <1>4 DEF Public
  <2> QED BY <2>1, <2>2
<1>5. ASSUME NEW m \in PairsOf(r), use[m] = Adopting(p), h = IF Now(r, p) = "fulfilled" THEN ResolveFn(m) ELSE RejectFn(m)
      PROVE  /\ Linked(s, use, jobs, hands, {}) /\ Untold(r, s)
             /\ h.f \in {"resolve", "reject"} /\ use[h.a].kind = "adopting" => IsUsed(s, h.a)
  <2>1. Linked(s, use, jobs, hands, {}) /\ Untold(r, s) /\ IsUsed(s, m)
    BY <1>2, <1>5, AdoptsLinked DEF p
  <2>2. h.a = m
    BY <1>5, AdoptingIs
  <2> QED BY <2>1, <2>2
<1> QED BY <1>2, <1>4, <1>5

(* What the end of a job leaves alone; it leaves n reactions running.      *)
OneLess(r, s) == s.resumed = r.resumed - 1
EndsWith(r, s, n) ==
  /\ Grown(r, s) /\ Size(s) = Size(r) /\ s.finals = r.finals /\ s.lost = r.lost /\ s.resumed = n

SettleDoes(r, s, busy, k, ok, x) ==
  /\ Grown(r, s) /\ Size(s) = Size(r) /\ Others(r, s) /\ Good(s, busy)
  /\ k \in PairsOf(r) /\ OwnerOf(r, k) \in PromisesOf(r) /\ OwnerOf(s, k) = OwnerOf(r, k)
  /\ ok /\ Simple(x) => OutcomeOf(s, OwnerOf(s, k)) = <<"fulfilled", x>>
  /\ ok /\ x.t = "promise" /\ x.n # OwnerOf(r, k) => <<OwnerOf(s, k), x>> \in s.adopted
  /\ ~ok => OutcomeOf(s, OwnerOf(s, k)) = <<"rejected", x>>

LEMMA SettleEnds ==
  ASSUME NEW r, NEW busy, Good(r, busy), NEW use, NEW jobs, NEW hands, NEW now, Linked(r, use, jobs, hands, now),
         NEW k, k \in hands, NEW ok \in BOOLEAN, NEW x, x \in Values(Size(r)), NEW s, s = settle(r, k, ok, x)
  PROVE  SettleDoes(r, s, busy, k, ok, x)
<1>1. (ok => Resolves(r, s, OwnerOf(r, k), x)) /\ (~ok => Rejects(r, s, OwnerOf(r, k), x))
  BY SettleLinked, Zenon
<1>2. HasPair(r, k) /\ k \in PairsOf(r)
  BY DEF Linked, HandsOK, HandOK, HasPair, PairsOf
<1>3. Good(s, busy) /\ Grown(r, s) /\ Size(s) = Size(r)
  BY <1>2, SettledBy
<1>4. OwnerOf(s, k) = OwnerOf(r, k)
  BY <1>2, <1>3, Remain DEF Grown
<1>5. OwnerOf(r, k) \in PromisesOf(r)
  BY <1>2, Owners
<1> QED BY <1>1, <1>2, <1>3, <1>4, <1>5 DEF Resolves, Rejects, SettleDoes

LEMMA PlainEnd ==
  ASSUME NEW r, NEW busy, Good(r, busy), NEW use, NEW jobs, NEW hands,
         Linked(r, use, jobs, hands, {}), NEW k, k \in hands, Gone(r, use[k].p), NEW job, job = JobFor(r, use, k),
         job.handler.f = "none", NEW s, s = settle(r, k, job.typ = "fulfill", job.arg)
  PROVE  Linked(s, use, jobs, hands \ {k}, {}) /\ EndsWith(r, s, r.resumed)
<1> DEFINE h == Chosen(r, use, k)
           p == use[k].p
           x == ResultOf(r, p)
           ok == job.typ = "fulfill"
           d == OwnerOf(s, k)
<1>1. k \in PairsOf(r) /\ use[k].kind = "derived"
  BY DEF Linked, HandsOK, HandOK
<1>2. /\ p \in PromisesOf(r) /\ Now(r, p) \in {"fulfilled", "rejected"}
      /\ Now(r, p) = "fulfilled" => Simple(x)
  BY <1>1, ChosenFits
<1>3. job.handler = h /\ job.arg = x /\ (ok <=> Now(r, p) = "fulfilled")
  BY JobParts2
<1>4. x \in Values(Size(r)) /\ ok \in BOOLEAN /\ s = settle(r, k, ok, x)
  BY <1>2, <1>3, Elements DEF Good, PromisesOf, PromiseObjects, ResultOf
<1>5. OutcomeOf(r, p) = <<Now(r, p), x>>
  BY DEF OutcomeOf
<1> HIDE DEF h, p, x, ok
<1>6. Grown(r, s) /\ Size(s) = Size(r) /\ Others(r, s) /\ OutcomeOf(s, d) = <<Now(r, p), x>>
  <2>1. SettleDoes(r, s, busy, k, ok, x)
    BY <1>4, SettleEnds
  <2> QED BY <1>2, <1>3, <2>1 DEF SettleDoes
<1>7. Alike(s, d, p)
  <2>1. Gone(r, p) /\ Gone(s, p) /\ OutcomeOf(s, p) = <<Now(r, p), x>>
    BY <1>2, <1>5, <1>6, Remain DEF Grown, p
  <2>2. Gone(s, d)
    BY <1>2, <1>6 DEF Gone, OutcomeOf
  <2> QED BY <1>6, <2>1, <2>2 DEF Alike
<1>8. Effect(s, use, k, h)
  BY <1>3, <1>7 DEF Effect, p
<1>9. Linked(s, use, jobs, hands \ {k}, {})
  BY <1>4, <1>8, EndLinked DEF h
<1>10. EndsWith(r, s, r.resumed)
  BY <1>6 DEF EndsWith, Others
<1> QED BY <1>9, <1>10

LEMMA InternalEnd ==
  ASSUME NEW r, NEW busy, Good(r, busy), NEW use, NEW jobs, NEW hands,
         Linked(r, use, jobs, hands, {}), NEW k, k \in hands, Gone(r, use[k].p), NEW job, job = JobFor(r, use, k),
         NEW h, h = job.handler, h \in Functions(Size(r)), h.f \in Internal,
         NEW s, s = settle(exited(call(r, h, job.arg)), k, h.f # "thrower", h.x)
  PROVE  Linked(s, use, jobs, hands \ {k}, {}) /\ EndsWith(r, s, r.resumed - 1)
<1> DEFINE p == use[k].p
           x == ResultOf(r, p)
           c == call(r, h, job.arg)
           u == exited(c)
           ok == h.f # "thrower"
           d == OwnerOf(s, k)
<1>1. k \in PairsOf(r) /\ use[k].kind = "derived" /\ Chosen(r, use, k) = h /\ job.arg = x
  BY JobParts2 DEF Linked, HandsOK, HandOK
<1>2. /\ p \in PromisesOf(r) /\ (h.f = "thunk" => Simple(h.x))
  BY <1>1, ChosenFits
<1>3. x \in Values(Size(r))
  BY <1>2, Elements DEF Good, PromisesOf, PromiseObjects, ResultOf
<1>4. /\ Linked(c, use, jobs, hands, {}) /\ Untold(r, c)
      /\ h.f \in {"resolve", "reject"} /\ use[h.a].kind = "adopting" => IsUsed(c, h.a)
  BY <1>1, CalledLinked
<1>5. Good(c, busy) /\ Grown(r, c) /\ Size(c) = Size(r)
  BY <1>1, <1>3, Called
<1>6. s = settle(u, k, ok, h.x) /\ ok \in BOOLEAN /\ h.x \in Values(Size(r))
  BY DEF Functions
<1> HIDE DEF c, ok
<1>7. /\ Linked(u, use, jobs, hands, {}) /\ Only(c, u, {"resumed"}) /\ u.resumed = c.resumed - 1
      /\ Good(u, busy) /\ Grown(c, u) /\ Size(u) = Size(c)
  BY <1>4, <1>5, ExitedLinked, Counting
<1> HIDE DEF u
<1>8. /\ Grown(u, s) /\ Size(s) = Size(u) /\ Others(u, s) /\ Good(s, busy)
      /\ ok /\ Simple(h.x) => OutcomeOf(s, d) = <<"fulfilled", h.x>>
      /\ ~ok => OutcomeOf(s, d) = <<"rejected", h.x>>
  <2>1. h.x \in Values(Size(u))
    BY <1>5, <1>6, <1>7
  <2>2. SettleDoes(u, s, busy, k, ok, h.x)
    BY <1>6, <1>7, <2>1, SettleEnds
  <2> QED BY <2>2 DEF SettleDoes
<1>9. Gone(u, p) /\ Chosen(u, use, k) = h
  <2>1. Keeps(r, u)
    BY <1>5, <1>7, GrownOn DEF Grown
  <2> QED BY <1>1, <1>2, <2>1, Remain, JobForStays
<1>10. h.f \in {"resolve", "reject"} /\ use[h.a].kind = "adopting" => IsUsed(s, h.a)
  <2> SUFFICES ASSUME h.f \in {"resolve", "reject"}, IsUsed(c, h.a) PROVE IsUsed(s, h.a)
    BY <1>4
  <2>1. h.a \in PairsOf(c)
    BY <1>5 DEF Functions, PairsOf, Size
  <2>2. Keeps(c, s)
    BY <1>7, <1>8, GrownOn DEF Grown
  <2> QED BY <2>1, <2>2, Remain
<1>11. Effect(s, use, k, h)
  <2>1. h.f # "none" /\ h.f \notin {"finThen", "finCatch"}
    BY DEF Internal
  <2>2. h.f = "thunk" => OutcomeOf(s, d) = <<"fulfilled", h.x>>
    BY <1>2, <1>8 DEF ok
  <2>3. h.f = "thrower" => OutcomeOf(s, d) = <<"rejected", h.x>>
    BY <1>8 DEF ok
  <2> HIDE DEF d
  <2> QED BY <1>10, <2>1, <2>2, <2>3 DEF Effect, d
<1>12. Linked(s, use, jobs, hands \ {k}, {})
  <2>1. h.x \in Values(Size(u))
    BY <1>5, <1>6, <1>7
  <2> QED BY <1>6, <1>7, <1>9, <1>11, <2>1, EndLinked DEF p
<1>13. EndsWith(r, s, r.resumed - 1)
  <2>1. Grown(r, s)
    BY <1>5, <1>7, <1>8, GrownOn
  <2> QED BY <1>4, <1>5, <1>7, <1>8, <2>1 DEF EndsWith, Others, Untold, Only
<1> QED BY <1>12, <1>13

(* A handler that is not of finally() has returned or thrown.              *)
LEMMA UserEnd ==
  ASSUME NEW r, NEW busy, Good(r, busy), NEW use, NEW jobs, NEW hands,
         Linked(r, use, jobs, hands, {}), NEW k, k \in hands, Gone(r, use[k].p),
         NEW h, h = Chosen(r, use, k), h.f \notin Internal \cup {"none", "finThen", "finCatch"},
         NEW ok \in BOOLEAN, NEW x, x \in Values(Size(r)), NEW s, s = settle(exited(r), k, ok, x)
  PROVE  Linked(s, use, jobs, hands \ {k}, {}) /\ EndsWith(r, s, r.resumed - 1)
<1> DEFINE p == use[k].p
           u == exited(r)
<1>1. k \in PairsOf(r) /\ use[k].kind = "derived"
  BY DEF Linked, HandsOK, HandOK
<1>2. p \in PromisesOf(r)
  BY <1>1, ChosenFits
<1>7. /\ Linked(u, use, jobs, hands, {}) /\ Only(r, u, {"resumed"}) /\ u.resumed = r.resumed - 1
      /\ Good(u, busy) /\ Grown(r, u) /\ Size(u) = Size(r) /\ s = settle(u, k, ok, x)
  BY ExitedLinked, Counting
<1> HIDE DEF u
<1>8. Grown(u, s) /\ Size(s) = Size(u) /\ Others(u, s) /\ Good(s, busy)
  <2>1. x \in Values(Size(u))
    BY <1>7
  <2>2. SettleDoes(u, s, busy, k, ok, x)
    BY <1>7, <2>1, SettleEnds
  <2> QED BY <2>2 DEF SettleDoes
<1>9. Gone(u, p) /\ Chosen(u, use, k) = h
  BY <1>1, <1>2, <1>7, Remain, JobForStays DEF Grown
<1>11. Effect(s, use, k, h)
  BY DEF Effect, Internal
<1>12. Linked(s, use, jobs, hands \ {k}, {})
  <2>1. x \in Values(Size(u))
    BY <1>7
  <2> QED BY <1>7, <1>9, <1>11, <2>1, EndLinked DEF p
<1>13. EndsWith(r, s, r.resumed - 1)
  <2>1. Grown(r, s)
    BY <1>7, <1>8, GrownOn
  <2> QED BY <1>7, <1>8, <2>1 DEF EndsWith, Others, Only
<1> QED BY <1>12, <1>13

-----------------------------------------------------------------------------
(* The combinators' promise.                                               *)
LEMMA CombinedLinked ==
  ASSUME NEW r, NEW busy, Good(r, busy), NEW use, NEW jobs, NEW hands, NEW now,
         Linked(r, use, jobs, hands, now), NEW op, op \in {"all", "allSettled", "any", "race"},
         NEW s, s = combinator(r, op), NEW n, n = Len(r.pairs) + 1
  PROVE  /\ Linked(s, With(use, n, Open), jobs, hands, now) /\ Len(s.pairs) = n
         /\ s.finals = r.finals /\ s.resumed = r.resumed
<1> DEFINE c == newPromise(r)
           e == [op |-> op, cap |-> Len(c.pairs), values |-> <<>>, called |-> {}, remaining |-> 1,
                 inputs |-> <<>>, over |-> FALSE]
           q == Append(c.combs, e)
           v == With(use, n, Open)
<1>1. s = [c EXCEPT !.combs = q]
  BY DEF combinator
<1>2. /\ Good(c, busy) /\ Grown(r, c) /\ Len(c.pairs) = n /\ HasPair(c, Len(c.pairs))
  BY NewPromiseMade
<1>3. Linked(c, v, jobs, hands, now) /\ NewOne(r, c)
  <2>1. Fit(r, use, Open) /\ Plus(hands, Open, n) = hands
    BY OpenIs DEF Fit, Plus
  <2>2. n = Len(c.pairs)
    BY <1>2
  <2> HIDE DEF c
  <2>3. c = newPromise(r)
    BY DEF c
  <2>4. Linked(c, With(use, n, Open), jobs, Plus(hands, Open, n), now) /\ NewOne(r, c)
    BY <2>1, <2>2, <2>3, NewPromiseLinked
  <2> QED BY <2>1, <2>4
<1>4. v[n].kind = "open"
  BY Extends, OpenIs
<1> HIDE DEF c, v
<1>5. Typed(c) /\ Shape(c) /\ c.combs \in Seq(Combs(Size(c))) /\ Len(c.combs) \in Nat
  BY <1>2, Sizes DEF Good, Typed
<1>6. e \in Combs(Size(c)) /\ e.cap = n
  <2>1. <<>> \in Seq(Counts(Size(c))) /\ <<>> \in Seq(Nat)
    BY EmptySeq
  <2>2. Len(c.pairs) \in 1..Size(c).k
    BY <1>2 DEF HasPair, Size
  <2> QED BY <1>2, <2>1, <2>2 DEF Combs
<1> HIDE DEF e
<1>7. /\ q \in Seq(Combs(Size(c))) /\ Len(q) = Len(c.combs) + 1 /\ q[Len(c.combs) + 1] = e
      /\ \A i \in 1..Len(c.combs) : q[i] = c.combs[i]
  BY <1>5, <1>6, Appended
<1> HIDE DEF q
<1>8. Only(c, s, {"combs"}) /\ s.combs = q
  <2>1. Shape(c)
    BY <1>5
  <2> QED BY <1>1, <2>1, Set_combs
<1>9. Good(s, busy) /\ Grown(c, s)
  <2>1. AtMost(Size(c), Size(s))
    BY <1>5, <1>7, <1>8, Sizes DEF AtMost, Size, Only
  <2>2. Seq(Combs(Size(c))) \subseteq Seq(Combs(Size(s)))
    BY <2>1, SeqTypesMono
  <2>3. s.combs \in Seq(Combs(Size(s))) /\ Len(c.combs) <= Len(s.combs)
    BY <1>5, <1>7, <1>8, <2>2
  <2> QED BY <1>2, <1>8, <2>3, CombsChanged
<1>10. Openly(s, v)
  <2>1. \A i \in 1..Len(c.combs) : v[c.combs[i].cap].kind = "open"
    BY <1>3 DEF Linked, Openly
  <2>2. \A i \in 1..Len(s.combs) : i \in 1..Len(c.combs) \/ i = Len(c.combs) + 1
    BY <1>5, <1>7, <1>8
  <2> QED BY <1>4, <1>6, <1>7, <1>8, <2>1, <2>2, Zenon DEF Openly
<1>11. Owed(s, jobs)
  <2>1. Waiting(s, jobs) \subseteq Waiting(c, jobs)
    BY <1>8 DEF Only, Waiting, Waits, IsListed, Listed, InQueue, IsQueued, PairsOf, PromisesOf
  <2>2. s.grabs = c.grabs
    BY <1>8 DEF Only
  <2> QED BY <1>2, <1>3, <2>1, <2>2, OwedStill DEF Linked
<1>12. Derivations(s, v)
  BY <1>3, <1>8, Zenon DEF Linked, Derivations, Derivation, Only, PairsOf
<1>13. Linked(s, v, jobs, hands, now)
  <2>1. Only(c, s, {"combs", "grabs", "resumed", "derived"})
    BY <1>8 DEF Only
  <2> QED BY <1>2, <1>3, <1>9, <1>10, <1>11, <1>12, <2>1, Untouched
<1>14. Len(s.pairs) = n /\ s.finals = r.finals /\ s.resumed = r.resumed
  BY <1>2, <1>3, <1>8 DEF Only, NewOne
<1> QED BY <1>13, <1>14 DEF v

(* finally(): what its callback has done is noted.                         *)
Marked(e, f) == e.pair = f.pair /\ e.from = f.from
NotesAt(f, g, a, x) ==
  /\ Len(g) = Len(f) /\ \A i \in 1..Len(f) : Marked(g[i], f[i])
  /\ \A i \in 1..Len(f) : i # a => g[i] = f[i]
  /\ g[a].via = x

LEMMA NotedIs ==
  ASSUME NEW f, f \in Seq(Finals), NEW a, a \in 1..Len(f), NEW x, NEW g, g = Noted(f, a, x)
  PROVE  NotesAt(f, g, a, x) /\ g[a].threw = f[a].threw
<1> DEFINE F(e) == [e EXCEPT !.via = x]
<1>1. Len(f) \in Nat /\ DOMAIN f = 1..Len(f) /\ f = [i \in 1..Len(f) |-> f[i]]
  BY LenProperties
<1>2. f[a] \in Finals
  BY ElementOfSeq
<1>3. F(f[a]).via = x /\ F(f[a]).threw = f[a].threw /\ Marked(F(f[a]), f[a])
  BY <1>2 DEF Finals, Marked
<1>4. g = [i \in 1..Len(f) |-> IF i = a THEN F(f[i]) ELSE f[i]]
  BY <1>1, Zenon DEF Noted
<1> HIDE DEF F
<1>5. Len(g) = Len(f) /\ \A i \in 1..Len(f) : g[i] = IF i = a THEN F(f[i]) ELSE f[i]
  BY <1>1, <1>4
<1> QED BY <1>3, <1>5 DEF NotesAt, Marked

LEMMA ThrewIs ==
  ASSUME NEW f, f \in Seq(Finals), NEW a, a \in 1..Len(f), NEW x, NEW g, g = Threw(f, a, x)
  PROVE  NotesAt(f, g, a, x) /\ g[a].threw = TRUE
<1> DEFINE F(e) == [e EXCEPT !.via = x, !.threw = TRUE]
<1>1. Len(f) \in Nat /\ DOMAIN f = 1..Len(f) /\ f = [i \in 1..Len(f) |-> f[i]]
  BY LenProperties
<1>2. f[a] \in Finals
  BY ElementOfSeq
<1>3. F(f[a]).via = x /\ F(f[a]).threw = TRUE /\ Marked(F(f[a]), f[a])
  BY <1>2 DEF Finals, Marked
<1>4. g = [i \in 1..Len(f) |-> IF i = a THEN F(f[i]) ELSE f[i]]
  BY <1>1 DEF Threw
<1> HIDE DEF F
<1>5. Len(g) = Len(f) /\ \A i \in 1..Len(f) : g[i] = IF i = a THEN F(f[i]) ELSE f[i]
  BY <1>1, <1>4
<1> QED BY <1>3, <1>5 DEF NotesAt, Marked

(* The reaction of a call of finally(), whose callback has been called.    *)
LEMMA FinReaction ==
  ASSUME NEW r, NEW busy, Good(r, busy), NEW use, NEW jobs, NEW hands,
         Linked(r, use, jobs, hands, {}), Fins(r, use), Untried(r), NEW k, k \in hands, Gone(r, use[k].p),
         NEW h, h = Chosen(r, use, k), h.f \in {"finThen", "finCatch"}
  PROVE  /\ IsFor(r, k, h.a) /\ ~r.finals[h.a].threw /\ k \in PairsOf(r) /\ use[k].kind = "derived" /\ ~IsUsed(r, k)
         /\ use[k].p \in PromisesOf(r) /\ (h.f = "finThen" <=> Now(r, use[k].p) = "fulfilled")
         /\ ResultOf(r, use[k].p) \in Values(Size(r))
         /\ Now(r, use[k].p) = "fulfilled" => Simple(ResultOf(r, use[k].p))
<1> DEFINE p == use[k].p
<1>1. k \in PairsOf(r) /\ use[k].kind = "derived" /\ ~IsUsed(r, k)
  BY DEF Linked, HandsOK, HandOK
<1>2. IsFor(r, k, h.a)
  BY <1>1, FinPair
<1>3. use[k] = Derived(r.finals[h.a].from, FinThen(h.a), FinCatch(h.a))
  BY <1>2 DEF IsFor, Fins
<1>4. ~r.finals[h.a].threw
  BY <1>1, <1>2 DEF IsFor, Untried
<1>5. p \in PromisesOf(r) /\ (Now(r, p) = "fulfilled" => Simple(ResultOf(r, p)))
  BY <1>1, ChosenFits
<1>6. ResultOf(r, p) \in Values(Size(r))
  BY <1>5, Elements DEF Good, PromisesOf, PromiseObjects, ResultOf
<1>7. h = IF Now(r, p) = "fulfilled" THEN FinThen(h.a) ELSE FinCatch(h.a)
  <2>1. use[k].f = FinThen(h.a) /\ use[k].g = FinCatch(h.a)
    BY <1>3, DerivedIs
  <2> QED BY <2>1 DEF Chosen
<1>8. h.f = "finThen" <=> Now(r, p) = "fulfilled"
  BY <1>7, FinIs
<1> QED BY <1>1, <1>2, <1>4, <1>5, <1>6, <1>8

(* What the promise that the callback has returned passes on.              *)
PassesOn(c, v, n, a, x, f) ==
  /\ n \in PairsOf(c) /\ OwnerOf(c, n) = Len(c.promises) /\ v[n] = Derived(v[n].p, f, NoFn)
  /\ v[n].p \in PromisesOf(c) /\ (x.t = "promise" => v[n].p = x.n) /\ (x.t = "plain" => Now(c, v[n].p) = "fulfilled")
  /\ c.finals[a].via = x /\ ~c.finals[a].threw
Alone2(r, c) == Len(c.promises) \in Nat /\ Len(c.promises) \notin PromisesOf(r) /\ Len(c.promises) \in PromisesOf(c)
SameFlags(r, c) == r.adopted \subseteq c.adopted /\ c.resumed = r.resumed /\ c.lost = r.lost

(* Up to the finals, with the promise e that the callback has returned.    *)
LEMMA PassingThen ==
  ASSUME NEW r, NEW busy, Good(r, busy), NEW use, NEW jobs, NEW hands,
         Linked(r, use, jobs, hands, {}), Fins(r, use), NEW x, x \in Values(Size(r)),
         NEW f, f = Fn(f.f, 0, 0, f.x), f.f \in {"thunk", "thrower"}, f.f = "thunk" => Simple(f.x), f.x \in Values(Size(r)),
         NEW q, q = promiseResolve(r, x), NEW e, e = promiseOf(r, x), NEW t, t = then(q, e, f, NoFn)
  PROVE  \E v, n : /\ Ext(use, v, r) /\ Linked(t, v, jobs, hands, {}) /\ Fins(t, v) /\ t.finals = r.finals
                   /\ Good(t, busy) /\ Grown(r, t) /\ Alone2(r, t) /\ SameFlags(r, t)
                   /\ n \in PairsOf(t) /\ OwnerOf(t, n) = Len(t.promises) /\ v[n] = Derived(e, f, NoFn)
                   /\ e \in PromisesOf(t) /\ (x.t = "plain" => Now(t, e) = "fulfilled")
<1> DEFINE w == Resolving(r, use, x)
           n == Len(q.pairs) + 1
           v == With(w, n, Derived(e, f, NoFn))
<1>1. Good(q, busy) /\ Grown(r, q) /\ Has(q, e)
  BY ResolvedTo
<1>2. /\ Linked(q, w, jobs, hands, {}) /\ Untold(r, q) /\ Ext(use, w, r)
      /\ x.t = "plain" => Now(q, e) = "fulfilled"
      /\ \A k \in PairsOf(q) : k \in PairsOf(r) \/ w[k].kind = "open"
  BY AllResolved
<1> HIDE DEF w
<1>3. f \in Functions(Size(q)) /\ NoFn \in Functions(Size(q))
  <2>1. f.x \in Values(Size(q))
    BY <1>1, StillTyped
  <2>2. NoFn \in Functions(Size(q))
    BY OwnValues
  <2> QED BY <2>1, <2>2 DEF Fn, Functions, Natives
<1>4. HandlersOK(q, w, e, f, NoFn)
  BY DEF HandlersOK, Public, NoFn, Fn
<1>5. Linked(t, v, jobs, hands, {}) /\ Derives(q, t, n)
  BY <1>1, <1>2, <1>3, <1>4, ThenLinked
<1>6. Good(t, busy) /\ Grown(q, t)
  BY <1>1, <1>3, Thened
<1>7. Grown(r, t)
  BY <1>1, <1>6, GrownOn
<1>8. Ext(w, v, q) /\ v[n] = Derived(e, f, NoFn)
  BY <1>1, Extends
<1> HIDE DEF v, n
<1>9. Ext(use, v, r)
  BY <1>1, <1>2, <1>8, ExtOn DEF Grown
<1>10. t.finals = r.finals /\ SameFlags(r, t)
  BY <1>2, <1>5 DEF Untold, Derives, SameFlags
<1>11. Alone2(r, t)
  <2>1. Len(r.promises) \in Nat /\ Len(q.promises) \in Nat /\ Len(r.promises) <= Len(q.promises)
    BY <1>1, Owners DEF Grown, Keeps, AtMost, Size
  <2> QED BY <1>5, <2>1 DEF Derives, Alone2, PromisesOf
<1>12. Fins(t, v)
  <2>1. \A k \in PairsOf(t) : k \in PairsOf(q) \/ k = n
    <3>1. Len(q.pairs) \in Nat /\ Len(t.pairs) = Len(q.pairs) + 1 /\ n = Len(q.pairs) + 1
      BY <1>1, <1>5, Owners DEF Derives
    <3> QED BY <3>1 DEF PairsOf
  <2>2. NotFin(v[n])
    BY <1>8, DerivedIs DEF NotFin, NoFn, Fn
  <2>3. \A k \in PairsOf(q) : v[k] = w[k]
    BY <1>8 DEF Ext
  <2>4. \A k \in PairsOf(t) : k \in PairsOf(r) \/ NotFin(v[k])
    BY <1>2, <2>1, <2>2, <2>3 DEF NotFin
  <2> QED BY <1>7, <1>9, <1>10, <2>4, FinsStay DEF Grown
<1>13. e \in PromisesOf(t) /\ (x.t = "plain" => Now(t, e) = "fulfilled")
  <2>1. e \in PromisesOf(q)
    BY <1>1 DEF Has, PromisesOf
  <2>2. Now(q, e) = "fulfilled" => Gone(q, e)
    BY DEF Gone
  <2> QED BY <1>2, <1>6, <2>1, <2>2, Remain DEF Grown
<1>14. n \in PairsOf(t) /\ OwnerOf(t, n) = Len(t.promises)
  BY <1>5 DEF Derives
<1> QED BY <1>5, <1>6, <1>7, <1>8, <1>9, <1>10, <1>11, <1>12, <1>13, <1>14

(* What finallyResult makes of the runtime.                                *)
LEMMA FinallyNotes ==
  ASSUME NEW r, NEW busy, Good(r, busy), NEW use, NEW jobs, NEW hands,
         Linked(r, use, jobs, hands, {}), Fins(r, use), Untried(r), NEW k, k \in hands, Gone(r, use[k].p),
         NEW h, h = Chosen(r, use, k), h.f \in {"finThen", "finCatch"}, NEW job, job = JobFor(r, use, k),
         NEW x, x \in Values(Size(r)), NEW res, res = finallyResult(r, job, x)
  PROVE  \E v, n : /\ Ext(use, v, r) /\ Linked(res.r, v, jobs, hands, {}) /\ Fins(res.r, v) /\ Untried(res.r)
                   /\ Good(res.r, busy) /\ Grown(r, res.r) /\ SameFlags(r, res.r) /\ Alone2(r, res.r)
                   /\ res.x = PromiseVal(Len(res.r.promises)) /\ res.x \in Values(Size(res.r))
                   /\ PassesOn(res.r, v, n, h.a, x, Passing(Now(r, use[k].p), ResultOf(r, use[k].p)))
<1> DEFINE p == use[k].p
           y == ResultOf(r, p)
           a == h.a
           q == promiseResolve(r, x)
           e == promiseOf(r, x)
           f == Passing(Now(r, p), y)
           t == then(q, e, f, NoFn)
           finals == Noted(t.finals, a, x)
           c == [t EXCEPT !.finals = finals]
<1>1. /\ IsFor(r, k, a) /\ ~r.finals[a].threw /\ k \in PairsOf(r) /\ use[k].kind = "derived" /\ ~IsUsed(r, k)
      /\ p \in PromisesOf(r) /\ (h.f = "finThen" <=> Now(r, p) = "fulfilled") /\ y \in Values(Size(r))
      /\ Now(r, p) = "fulfilled" => Simple(y)
  BY FinReaction
<1>2. job.handler = h /\ job.arg = y
  BY JobParts2
<1>3. f = Fn(IF h.f = "finThen" THEN "thunk" ELSE "thrower", 0, 0, y)
  BY <1>1 DEF Passing
<1>4. res.r = c /\ res.x = PromiseVal(Len(t.promises))
  <2>1. res = [r |-> c, x |-> PromiseVal(Len(t.promises))]
    BY <1>2, <1>3 DEF finallyResult, Noted
  <2> HIDE DEF c, t
  <2> QED BY <2>1
<1>5. /\ f = Fn(f.f, 0, 0, f.x) /\ f.f \in {"thunk", "thrower"} /\ (f.f = "thunk" => Simple(f.x))
      /\ f.x \in Values(Size(r))
  BY <1>1, <1>3 DEF Fn
<1> HIDE DEF f, c, finals
<1>6. PICK v, n : /\ Ext(use, v, r) /\ Linked(t, v, jobs, hands, {}) /\ Fins(t, v) /\ t.finals = r.finals
                  /\ Good(t, busy) /\ Grown(r, t) /\ Alone2(r, t) /\ SameFlags(r, t)
                  /\ n \in PairsOf(t) /\ OwnerOf(t, n) = Len(t.promises) /\ v[n] = Derived(e, f, NoFn)
                  /\ e \in PromisesOf(t) /\ (x.t = "plain" => Now(t, e) = "fulfilled")
  BY <1>5, PassingThen
<1> HIDE DEF t, e, p, y
<1>7. Only(t, c, {"finals"}) /\ c.finals = finals
  <2>1. Shape(t)
    BY <1>6 DEF Good, Typed
  <2> QED BY <2>1, Set_finals DEF c
<1>8. a \in 1..Len(t.finals) /\ t.finals \in Seq(Finals)
  BY <1>1, <1>6 DEF IsFor, Good, Typed
<1>9. NotesAt(t.finals, c.finals, a, x) /\ c.finals[a].threw = t.finals[a].threw
  BY <1>7, <1>8, NotedIs DEF finals
<1>10. Notes(t, c, a)
  BY <1>7, <1>9 DEF Notes, NotesAt, Marked
<1>11. Linked(c, v, jobs, hands, {}) /\ Fins(c, v)
  <2>1. IsFor(t, k, a)
    BY <1>1, <1>6 DEF IsFor
  <2> QED BY <1>6, <1>10, <2>1, NotesLinked
<1>12. Good(c, busy) /\ Grown(t, c) /\ Size(c) = Size(t)
  <2>1. c.finals \in Seq(Finals)
    BY <1>7, <1>8, NotesTyped DEF finals
  <2> QED BY <1>6, <1>7, <2>1, FinalsChanged
<1>13. Grown(r, c)
  BY <1>6, <1>12, GrownOn
<1>14. /\ PairsOf(c) = PairsOf(t) /\ PromisesOf(c) = PromisesOf(t) /\ Len(c.promises) = Len(t.promises)
       /\ (\A m : IsUsed(c, m) <=> IsUsed(t, m)) /\ (\A m : OwnerOf(c, m) = OwnerOf(t, m))
       /\ (\A m : Now(c, m) = Now(t, m)) /\ c.adopted = t.adopted /\ c.resumed = t.resumed /\ c.lost = t.lost
  BY <1>7 DEF Only, PairsOf, PromisesOf, IsUsed, OwnerOf, Now
<1>15. Untried(c)
  <2> SUFFICES ASSUME NEW i \in 1..Len(c.finals), c.finals[i].threw PROVE IsUsed(c, c.finals[i].pair)
    BY DEF Untried
  <2>1. i \in 1..Len(r.finals) /\ i # a /\ c.finals[i] = r.finals[i]
    BY <1>1, <1>6, <1>9 DEF NotesAt
  <2>2. IsUsed(r, r.finals[i].pair) /\ r.finals[i].pair \in PairsOf(r)
    BY <2>1 DEF Untried, Fins
  <2> QED BY <1>13, <2>1, <2>2, Remain DEF Grown
<1>16. x.t = "promise" => e = x.n
  BY DEF e, promiseOf
<1>17. PassesOn(c, v, n, a, x, f)
  <2>1. v[n].p = e
    BY <1>6, DerivedIs
  <2>2. c.finals[a].via = x /\ ~c.finals[a].threw
    BY <1>1, <1>6, <1>9 DEF NotesAt
  <2> QED BY <1>6, <1>14, <1>16, <2>1, <2>2 DEF PassesOn
<1>18. Alone2(r, c) /\ SameFlags(r, c)
  BY <1>6, <1>14 DEF Alone2, SameFlags
<1>19. PromiseVal(Len(c.promises)) \in Values(Size(c))
  BY <1>18 DEF PromiseVal, Val, Values, Alone2, PromisesOf, Size
<1> QED BY <1>4, <1>6, <1>11, <1>12, <1>13, <1>14, <1>15, <1>17, <1>18, <1>19 DEF f, p, y

LEMMA FinallyEnds ==
  ASSUME NEW r, NEW busy, Good(r, busy), NEW use, NEW jobs, NEW hands,
         Linked(r, use, jobs, hands, {}), Fins(r, use), Untried(r), NEW k, k \in hands, Gone(r, use[k].p),
         NEW h, h = Chosen(r, use, k), h.f \in {"finThen", "finCatch"}, NEW job, job = JobFor(r, use, k),
         NEW x, x \in Values(Size(r)), NEW res, res = finallyResult(r, job, x),
         NEW s, s = settle(exited(res.r), k, TRUE, res.x)
  PROVE  \E v : /\ Ext(use, v, r) /\ Linked(s, v, jobs, hands \ {k}, {}) /\ Fins(s, v) /\ Untried(s) /\ Grown(r, s)
                /\ OneLess(r, s)
<1> DEFINE p == use[k].p
           f == Passing(Now(r, p), ResultOf(r, p))
           c == res.r
           u == exited(c)
           e == Len(c.promises)
           d == OwnerOf(s, k)
<1>1. PICK v, n : /\ Ext(use, v, r) /\ Linked(c, v, jobs, hands, {}) /\ Fins(c, v) /\ Untried(c)
                  /\ Good(c, busy) /\ Grown(r, c) /\ SameFlags(r, c) /\ Alone2(r, c)
                  /\ res.x = PromiseVal(e) /\ res.x \in Values(Size(c))
                  /\ PassesOn(c, v, n, h.a, x, f)
  BY FinallyNotes
<1>2. /\ IsFor(r, k, h.a) /\ k \in PairsOf(r) /\ use[k].kind = "derived" /\ p \in PromisesOf(r)
  BY FinReaction
<1> HIDE DEF c, f
<1>3. s = settle(u, k, TRUE, res.x)
  BY DEF c
<1>4. /\ Linked(u, v, jobs, hands, {}) /\ Only(c, u, {"resumed"}) /\ u.resumed = c.resumed - 1
      /\ Good(u, busy) /\ Grown(c, u) /\ Size(u) = Size(c)
  BY <1>1, ExitedLinked, Counting
<1> HIDE DEF u
<1>5. SettleDoes(u, s, busy, k, TRUE, res.x)
  <2>1. res.x \in Values(Size(u))
    BY <1>1, <1>4
  <2> QED BY <1>3, <1>4, <2>1, SettleEnds, Zenon
<1>6. Grown(r, u) /\ Grown(c, s) /\ Grown(r, s)
  <2>1. Grown(u, s)
    BY <1>5, Zenon DEF SettleDoes
  <2>2. Grown(r, u) /\ Grown(c, s)
    BY <1>1, <1>4, <2>1, GrownOn, Zenon
  <2> QED BY <2>1, <2>2, GrownOn, Zenon
<1>15. Keeps(c, s) /\ Keeps(r, s)
  BY <1>6, Zenon DEF Grown
<1>16. /\ \A m \in PairsOf(c) : m \in PairsOf(s) /\ OwnerOf(s, m) = OwnerOf(c, m) /\ (IsUsed(c, m) => IsUsed(s, m))
       /\ \A m \in PromisesOf(c) : m \in PromisesOf(s) /\ (Gone(c, m) => Now(s, m) = Now(c, m))
  BY ONLY <1>15, Remain
<1>7. v[k] = use[k] /\ Gone(u, p) /\ Chosen(u, v, k) = h
  <2>1. v[k] = use[k]
    BY <1>1, <1>2 DEF Ext
  <2> QED BY <1>2, <1>6, <2>1, Remain, JobForStays DEF Grown
<1>8. <<d, PromiseVal(e)>> \in s.adopted
  <2>1. OwnerOf(u, k) = OwnerOf(r, k) /\ OwnerOf(r, k) \in PromisesOf(r)
    BY <1>2, <1>6, Remain, Owners DEF Grown
  <2>2. res.x.t = "promise" /\ res.x.n = e
    BY <1>1 DEF PromiseVal, Val
  <2>3. res.x.n # OwnerOf(u, k)
    BY <1>1, <2>1, <2>2 DEF Alone2
  <2> QED BY <1>1, <1>5, <2>2, <2>3, Zenon DEF SettleDoes
<1>9. s.finals = c.finals /\ PairsOf(s) = PairsOf(c) /\ s.resumed = r.resumed - 1
  BY <1>1, <1>4, <1>5, Zenon DEF SettleDoes, Others, Only, SameFlags, Size, PairsOf
<1>10. FinDone(s, v, h.a, k)
  <2>1. s.finals[h.a].via = x /\ ~s.finals[h.a].threw
    BY <1>1, <1>9, Zenon DEF PassesOn
  <2>2. n \in PairsOf(s) /\ OwnerOf(s, n) = e /\ v[n] = Derived(v[n].p, f, NoFn)
    BY <1>1, <1>16, Zenon DEF PassesOn
  <2>3. x.t = "promise" => v[n].p = x.n
    BY <1>1 DEF PassesOn
  <2>4. x.t = "plain" => Now(s, v[n].p) = "fulfilled"
    <3>1. v[n].p \in PromisesOf(c) /\ (x.t = "plain" => Now(c, v[n].p) = "fulfilled")
      BY <1>1 DEF PassesOn
    <3>2. Now(c, v[n].p) = "fulfilled" => Gone(c, v[n].p)
      BY DEF Gone
    <3> QED BY <1>16, <3>1, <3>2, Zenon
  <2>5. e \in PromisesOf(s)
    BY <1>1, <1>16, Zenon DEF Alone2
  <2>6. v[k].p = p /\ f = Passing(Now(s, v[k].p), ResultOf(s, v[k].p))
    <3>0. Gone(r, p)
      OBVIOUS
    <3>1. Now(s, p) = Now(r, p) /\ ResultOf(s, p) = ResultOf(r, p)
      BY ONLY <1>2, <1>15, <3>0, Remain
    <3>2. v[k].p = p
      BY <1>7
    <3> HIDE DEF p
    <3> QED BY <3>1, <3>2, Zenon DEF f
  <2> HIDE DEF e, d, p
  <2> QED BY <1>8, <2>1, <2>2, <2>3, <2>4, <2>5, <2>6, Zenon DEF FinDone, d
<1>11. Effect(s, v, k, h)
  BY <1>10, Zenon DEF Effect
<1>12. Linked(s, v, jobs, hands \ {k}, {})
  <2>1. res.x \in Values(Size(u)) /\ Gone(u, v[k].p) /\ Effect(s, v, k, Chosen(u, v, k))
    BY <1>1, <1>4, <1>7, <1>11, Zenon
  <2> QED BY <1>3, <1>4, <2>1, EndLinked, Zenon
<1>13. Fins(s, v)
  <2>1. Ext(v, v, c)
    BY DEF Ext
  <2> QED BY <1>1, <1>6, <1>9, <2>1, FinsStay, Zenon DEF Grown
<1>14. Untried(s)
  <2>1. \A i \in 1..Len(c.finals) : c.finals[i].pair \in PairsOf(c)
    BY <1>1 DEF Fins
  <2> QED BY <1>1, <1>9, <1>16, <2>1, Zenon DEF Untried
<1> QED BY <1>1, <1>6, <1>9, <1>12, <1>13, <1>14, Zenon DEF OneLess
=============================================================================
