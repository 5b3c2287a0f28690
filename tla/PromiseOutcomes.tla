-------------------------- MODULE PromiseOutcomes --------------------------
(***************************************************************************)
(* What becomes of Promises, for any bounds and any features of the        *)
(* instance: no reaction is lost, a promise resolved with another follows  *)
(* it, and finally() passes on what it should.                             *)
(*                                                                         *)
(* Here are finally() whose callback throws, and the jobs of promises that *)
(* were resolved with others and of thenables; the frames on the stack,    *)
(* whose batches and running reactions the invariant counts; one lemma for *)
(* each action of Promises; and what the invariant says when the runtime   *)
(* is at rest.  PromiseLinks has the invariant.                            *)
(***************************************************************************)
EXTENDS PromiseLinks

-----------------------------------------------------------------------------

(* The callback of finally() has thrown.                                   *)
LEMMA FinallyThrows ==
  ASSUME NEW r, NEW busy, Good(r, busy), NEW use, NEW jobs, NEW hands,
         Linked(r, use, jobs, hands, {}), Fins(r, use), Untried(r), NEW k, k \in hands, Gone(r, use[k].p),
         NEW h, h = Chosen(r, use, k), h.f \in {"finThen", "finCatch"}, NEW x, x \in Values(Size(r)),
         NEW c, Only(r, c, {"finals"}), c.finals = Threw(r.finals, h.a, x),
         NEW s, s = settle(exited(c), k, FALSE, x)
  PROVE  /\ Linked(s, use, jobs, hands \ {k}, {}) /\ Fins(s, use) /\ Untried(s) /\ Grown(r, s)
         /\ OneLess(r, s)
<1> DEFINE p == use[k].p
           a == h.a
           u == exited(c)
           d == OwnerOf(s, k)
<1>1. IsFor(r, k, a) /\ k \in PairsOf(r) /\ use[k].kind = "derived" /\ p \in PromisesOf(r)
  BY FinReaction
<1>2. a \in 1..Len(r.finals) /\ r.finals \in Seq(Finals)
  BY <1>1 DEF IsFor, Good, Typed
<1>3. NotesAt(r.finals, c.finals, a, x) /\ c.finals[a].threw = TRUE
  BY <1>2, ThrewIs, Zenon
<1>4. Notes(r, c, a)
  BY <1>3 DEF Notes, NotesAt, Marked
<1>5. Linked(c, use, jobs, hands, {}) /\ Fins(c, use)
  BY <1>1, <1>4, NotesLinked
<1>6. Good(c, busy) /\ Grown(r, c) /\ Size(c) = Size(r)
  <2>1. c.finals \in Seq(Finals)
    BY <1>2, NotesTyped, Zenon
  <2> QED BY <2>1, FinalsChanged
<1>7. /\ Linked(u, use, jobs, hands, {}) /\ Only(c, u, {"resumed"}) /\ u.resumed = c.resumed - 1
      /\ Good(u, busy) /\ Grown(c, u) /\ Size(u) = Size(c)
  BY <1>5, <1>6, ExitedLinked, Counting
<1> HIDE DEF u
<1>8. s = settle(u, k, FALSE, x) /\ x \in Values(Size(u))
  BY <1>6, <1>7 DEF u
<1>9. SettleDoes(u, s, busy, k, FALSE, x) /\ IsUsed(s, k)
  BY <1>7, <1>8, SettleEnds, SettleLinked, Zenon
<1>10. Grown(r, u) /\ Grown(r, s)
  <2>1. Grown(u, s)
    BY <1>9, Zenon DEF SettleDoes
  <2>2. Grown(r, u)
    BY <1>6, <1>7, GrownOn
  <2> QED BY <2>1, <2>2, GrownOn, Zenon
<1>11. Keeps(r, u) /\ Keeps(r, s)
  BY <1>10, Zenon DEF Grown
<1>12. Gone(u, p) /\ Chosen(u, use, k) = h
  BY <1>1, <1>11, Remain, JobForStays
<1>13. s.finals = c.finals /\ PairsOf(s) = PairsOf(c) /\ s.resumed = r.resumed - 1
  <2>1. s.finals = u.finals /\ Size(s) = Size(u) /\ s.resumed = u.resumed
    BY <1>9, Zenon DEF SettleDoes, Others
  <2>2. c.resumed = r.resumed
    BY DEF Only
  <2> QED BY <1>7, <2>1, <2>2, Zenon DEF Only, Size, PairsOf
<1>14. FinDone(s, use, a, k)
  <2>1. OutcomeOf(s, d) = <<"rejected", x>>
    BY <1>9, Zenon DEF SettleDoes
  <2> HIDE DEF d
  <2> QED BY <1>3, <1>13, <2>1, Zenon DEF FinDone, NotesAt, d
<1>15. Effect(s, use, k, h)
  BY <1>14, Zenon DEF Effect
<1>16. Linked(s, use, jobs, hands \ {k}, {})
  <2>1. Effect(s, use, k, Chosen(u, use, k)) /\ Gone(u, use[k].p)
    BY <1>12, <1>15, Zenon
  <2> QED BY <1>7, <1>8, <2>1, EndLinked, Zenon
<1>17. Fins(s, use)
  <2>1. Ext(use, use, c) /\ Keeps(c, s)
    <3>1. Grown(u, s)
      BY <1>9, Zenon DEF SettleDoes
    <3>2. Grown(c, s)
      BY <1>7, <3>1, GrownOn, Zenon
    <3> QED BY <3>2, Zenon DEF Ext, Grown
  <2> QED BY <1>5, <1>13, <2>1, FinsStay, Zenon
<1>18. Untried(s)
  <2> SUFFICES ASSUME NEW i \in 1..Len(s.finals), s.finals[i].threw PROVE IsUsed(s, s.finals[i].pair)
    BY Zenon DEF Untried
  <2>1. i \in 1..Len(r.finals) /\ s.finals[i].pair = r.finals[i].pair
    BY <1>3, <1>13, Zenon DEF NotesAt, Marked
  <2>2. CASE i = a
    BY <1>1, <1>9, <2>1, <2>2, Zenon DEF IsFor
  <2>3. CASE i # a
    <3>1. s.finals[i] = r.finals[i]
      BY <1>3, <1>13, <2>1, <2>3, Zenon DEF NotesAt
    <3>2. IsUsed(r, r.finals[i].pair) /\ r.finals[i].pair \in PairsOf(r)
      BY <2>1, <3>1, Zenon DEF Untried, Fins
    <3>3. IsUsed(s, r.finals[i].pair)
      BY ONLY <1>11, <3>2, Remain
    <3> QED BY <2>1, <3>3, Zenon
  <2> QED BY <2>2, <2>3, Zenon
<1> QED BY <1>10, <1>13, <1>16, <1>17, <1>18, Zenon DEF OneLess

(* The job of a promise that has been resolved with another.               *)
LEMMA AdoptingThen ==
  ASSUME NEW r, NEW busy, Good(r, busy), NEW use, NEW jobs, NEW hands, Linked(r, use, jobs, hands, {}), Fins(r, use),
         NEW job, job.k = "thenable", NEW less, Takes(jobs, less, job), Ready(r, busy, job.cap),
         NEW x, x = job.arg, x.t = "promise", x \in Values(Size(r)), NEW c, c = newPair(r, job.cap), NEW k, k = Len(c.pairs),
         NEW s, s = then(c, x.n, ResolveFn(k), RejectFn(k))
  PROVE  \E v : /\ Ext(use, v, r) /\ Linked(s, v, less, hands, {}) /\ Fins(s, v)
                /\ s.finals = r.finals /\ s.resumed = r.resumed /\ Grown(r, s)
<1> DEFINE p == job.cap
           w == With(use, k, Adopting(x.n))
           n == Len(c.pairs) + 1
           v == With(w, n, Derived(x.n, ResolveFn(k), RejectFn(k)))
<1>1. /\ Good(c, busy) /\ Grown(r, c) /\ k = Len(r.pairs) + 1 /\ HasPair(c, k) /\ k \in PairsOf(c)
      /\ Has(r, x.n) /\ Has(c, x.n) /\ Len(r.pairs) \in Nat
  <2>1. Good(c, busy) /\ Grown(r, c) /\ Len(c.pairs) = Len(r.pairs) + 1
    BY NewPair
  <2>2. Has(r, x.n) /\ Has(r, p) /\ Len(r.pairs) \in Nat
    BY Sizes DEF Values, Has, Good, Ready
  <2>3. Has(c, x.n)
    BY <2>1, <2>2, StillThere
  <2> QED BY <2>1, <2>2, <2>3 DEF HasPair, PairsOf
<1>2. Paired(r, c, p)
  BY PairedBy DEF Ready
<1>3. Linked(c, w, jobs, hands, {}) /\ Ext(use, w, r) /\ w[k] = Adopting(x.n)
  <2>1. Fit(r, use, Adopting(x.n)) /\ Plus(hands, Adopting(x.n), k) = hands
    BY <1>1, AdoptingIs DEF Fit, Plus, Has, PromisesOf
  <2>2. Linked(c, With(use, k, Adopting(x.n)), jobs, Plus(hands, Adopting(x.n), k), {})
    BY <1>1, <1>2, <2>1, PairLinked
  <2> QED BY <1>1, <2>1, <2>2, Extends
<1> HIDE DEF w
<1>4. ResolveFn(k) \in Functions(Size(c)) /\ RejectFn(k) \in Functions(Size(c))
  BY <1>1, PairFunctions DEF Good
<1>5. HandlersOK(c, w, x.n, ResolveFn(k), RejectFn(k))
  BY <1>1, <1>3 DEF HandlersOK
<1>6. Linked(s, v, jobs, hands, {}) /\ Derives(c, s, n)
  BY <1>1, <1>3, <1>4, <1>5, ThenLinked, Zenon
<1>7. Good(s, busy) /\ Grown(c, s)
  BY <1>1, <1>4, Thened
<1>8. Grown(r, s)
  BY <1>1, <1>7, GrownOn
<1>9. Ext(w, v, c) /\ v[n] = Derived(x.n, ResolveFn(k), RejectFn(k))
  <2>1. Good(c, busy)
    BY <1>1
  <2> QED BY ONLY <2>1, Extends
<1> HIDE DEF v, n
<1>10. Ext(use, v, r) /\ v[k] = Adopting(x.n)
  <2>1. Keeps(r, c)
    BY <1>1 DEF Grown
  <2>2. Ext(use, v, r)
    BY <1>3, <1>9, <2>1, ExtOn
  <2>3. v[k] = w[k]
    BY <1>1, <1>9 DEF Ext
  <2> QED BY <1>3, <2>2, <2>3
<1>11. s.finals = r.finals /\ s.resumed = r.resumed
  BY <1>2, <1>6 DEF Paired, Only, Derives
<1>12. Adopted(s, v, less, p, x)
  <2>1. k \in PairsOf(s) /\ OwnerOf(s, k) = p
    <3>1. Keeps(c, s) /\ OwnerOf(c, k) = p
      BY <1>1, <1>2, <1>7 DEF Grown, Paired
    <3> QED BY ONLY <1>1, <3>1, Remain
  <2>2. n \in PairsOf(s)
    BY <1>6 DEF Derives
  <2> QED BY <1>9, <1>10, <2>1, <2>2 DEF Adopted
<1>13. Linked(s, v, less, hands, {})
  <2>1. \A m : InBatch(jobs, m) => InBatch(less, m)
    BY DEF InBatch, Takes, IsReaction
  <2>2. \A q, y : Thenable(q, y) \in jobs /\ y.t = "promise" => Thenable(q, y) \in less \/ Adopted(s, v, less, q, y)
    <3> SUFFICES ASSUME NEW q, NEW y, Thenable(q, y) = job PROVE Adopted(s, v, less, q, y)
      BY DEF Takes
    <3>1. q = p /\ y = x
      BY JobIs DEF Thenable
    <3> QED BY <1>12, <3>1
  <2> QED BY <1>6, <1>7, <2>1, <2>2, RegroupLinked DEF Takes
<1>14. Fins(s, v)
  <2>1. \A m \in PairsOf(s) : m \in PairsOf(r) \/ m = k \/ m = n
    <3>1. Len(s.pairs) = n /\ n = k + 1 /\ k = Len(r.pairs) + 1 /\ Len(r.pairs) \in Nat
      BY <1>1, <1>6 DEF Derives, n
    <3> QED BY <3>1 DEF PairsOf
  <2>2. NotFin(v[n])
    BY <1>9, DerivedIs, AdoptingIs DEF NotFin
  <2>3. NotFin(v[k])
    BY <1>10, AdoptingIs DEF NotFin
  <2> QED BY <1>8, <1>10, <1>11, <2>1, <2>2, <2>3, FinsStay DEF Grown
<1> QED BY <1>8, <1>10, <1>11, <1>13, <1>14

(* The job of a thenable of the user's.                                    *)
LEMMA ThenableCalled ==
  ASSUME NEW r, NEW busy, Good(r, busy), NEW use, NEW jobs, NEW hands, Linked(r, use, jobs, hands, {}), Fins(r, use),
         NEW job, job.k = "thenable", NEW less, Takes(jobs, less, job), Ready(r, busy, job.cap), job.arg.t # "promise",
         NEW s, s = newPair(r, job.cap), NEW k, k = Len(s.pairs)
  PROVE  \E v : /\ Ext(use, v, r) /\ Linked(s, v, less, hands, {}) /\ Fins(s, v)
                /\ s.finals = r.finals /\ s.resumed = r.resumed /\ Grown(r, s)
                /\ k \in PairsOf(s) /\ v[k].kind = "open"
<1> DEFINE p == job.cap
           v == With(use, k, Open)
<1>1. Good(s, busy) /\ Grown(r, s) /\ k = Len(r.pairs) + 1 /\ k \in PairsOf(s) /\ Len(r.pairs) \in Nat
  <2>1. Good(s, busy) /\ Grown(r, s) /\ Len(s.pairs) = Len(r.pairs) + 1
    BY NewPair
  <2>2. Has(r, p) /\ Len(r.pairs) \in Nat
    BY Sizes DEF Good, Ready
  <2> QED BY <2>1, <2>2 DEF PairsOf
<1>2. Paired(r, s, p)
  BY PairedBy DEF Ready
<1>3. Linked(s, v, jobs, hands, {}) /\ Ext(use, v, r) /\ v[k] = Open
  <2>1. Fit(r, use, Open) /\ Plus(hands, Open, k) = hands
    BY OpenIs DEF Fit, Plus
  <2>2. Linked(s, With(use, k, Open), jobs, Plus(hands, Open, k), {})
    BY <1>1, <1>2, <2>1, PairLinked
  <2> QED BY <1>1, <2>1, <2>2, Extends
<1> HIDE DEF v
<1>4. Linked(s, v, less, hands, {})
  <2>1. \A m : InBatch(jobs, m) => InBatch(less, m)
    BY DEF InBatch, Takes, IsReaction
  <2>2. \A q, y : Thenable(q, y) \in jobs /\ y.t = "promise" => Thenable(q, y) \in less
    <3> SUFFICES ASSUME NEW q, NEW y, Thenable(q, y) = job, y.t = "promise" PROVE FALSE
      BY DEF Takes
    <3> QED BY JobIs DEF Thenable
  <2> QED BY <1>1, <1>3, <2>1, <2>2, RegroupLinked DEF Takes
<1>5. s.finals = r.finals /\ s.resumed = r.resumed
  BY <1>2 DEF Paired, Only
<1>6. Fins(s, v)
  <2>1. \A m \in PairsOf(s) : m \in PairsOf(r) \/ m = k
    BY <1>1 DEF PairsOf
  <2>2. NotFin(v[k])
    BY <1>3, OpenIs DEF NotFin
  <2> QED BY <1>1, <1>3, <1>5, <2>1, <2>2, FinsStay DEF Grown
<1> QED BY <1>1, <1>3, <1>4, <1>5, <1>6, OpenIs

-----------------------------------------------------------------------------
(* Where on the stack the jobs are, and the reactions that run.            *)
OnBatch(st, j, i, job) == j \in 1..Len(st) /\ i \in 1..Len(st[j].batch) /\ job = st[j].batch[i]
HandAt(st, j, k) == HandlerAt(st, j) /\ st[j].job.cap = k
LEMMA JobsBy ==
  ASSUME NEW st, NEW job
  PROVE  job \in JobsOn(st) <=> \E j, i : OnBatch(st, j, i, job)
BY DEF JobsOn, OnBatch

LEMMA HandsBy ==
  ASSUME NEW st, NEW k
  PROVE  k \in HandsOn(st) <=> \E j : HandAt(st, j, k)
BY DEF HandsOn, HandAt, HandlerAt

LEMMA BatchBy ==
  ASSUME NEW st, NEW j, NEW i, NEW k
  PROVE  BatchHas(st, j, i, k) <=> \E job : OnBatch(st, j, i, job) /\ IsReaction(job) /\ job.cap = k
BY DEF BatchHas, OnBatch

LEMMA OnceBy ==
  ASSUME NEW st
  PROVE  HandsOnce(st) <=> \A j, l, k : HandAt(st, j, k) /\ HandAt(st, l, k) => j = l
BY Zenon DEF HandsOnce, HandAt

LEMMA SameJobs ==
  ASSUME NEW st, NEW u, \A j, i, job : OnBatch(u, j, i, job) <=> OnBatch(st, j, i, job)
  PROVE  JobsOn(u) = JobsOn(st)
<1>1. \A job : job \in JobsOn(u) <=> job \in JobsOn(st)
  BY JobsBy
<1> QED BY <1>1

LEMMA SameHands ==
  ASSUME NEW st, NEW u, \A j, k : HandAt(u, j, k) <=> HandAt(st, j, k)
  PROVE  HandsOn(u) = HandsOn(st) /\ (HandsOnce(st) => HandsOnce(u))
<1>1. \A k : k \in HandsOn(u) <=> k \in HandsOn(st)
  BY HandsBy
<1>2. HandsOnce(st) => HandsOnce(u)
  BY OnceBy
<1> QED BY <1>1, <1>2

(* Fewer jobs and fewer reactions, in the same places.                     *)
PlacesIn(u, st) ==
  /\ \A j, i, job : OnBatch(u, j, i, job) => OnBatch(st, j, i, job)
  /\ \A j, k : HandAt(u, j, k) => HandAt(st, j, k)
Fewer(u, st) ==
  /\ JobsOn(u) \subseteq JobsOn(st) /\ HandsOn(u) \subseteq HandsOn(st)
  /\ BatchesOnce(st) => BatchesOnce(u)
  /\ HandsOnce(st) => HandsOnce(u)
SamePlaces(u, st) ==
  /\ JobsOn(u) = JobsOn(st) /\ HandsOn(u) = HandsOn(st)
  /\ BatchesOnce(st) => BatchesOnce(u)
  /\ HandsOnce(st) => HandsOnce(u)

LEMMA PlacesFewer ==
  ASSUME NEW st, NEW u, PlacesIn(u, st)
  PROVE  Fewer(u, st)
<1>1. JobsOn(u) \subseteq JobsOn(st) /\ HandsOn(u) \subseteq HandsOn(st)
  BY JobsBy, HandsBy, BatchBy, OnceBy DEF PlacesIn
<1>2. ASSUME BatchesOnce(st) PROVE BatchesOnce(u)
  <2>1. \A j, i, k : BatchHas(u, j, i, k) => BatchHas(st, j, i, k)
    BY JobsBy, HandsBy, BatchBy, OnceBy DEF PlacesIn
  <2> QED BY <1>2, <2>1 DEF BatchesOnce
<1>3. ASSUME HandsOnce(st) PROVE HandsOnce(u)
  BY <1>3, JobsBy, HandsBy, BatchBy, OnceBy DEF PlacesIn
<1> QED BY <1>1, <1>2, <1>3 DEF Fewer

LEMMA PlacesSame ==
  ASSUME NEW st, NEW u, PlacesIn(u, st), PlacesIn(st, u)
  PROVE  SamePlaces(u, st)
<1>1. Fewer(u, st) /\ Fewer(st, u)
  BY PlacesFewer
<1> QED BY <1>1, Zenon DEF Fewer, SamePlaces

(* A frame with nothing in its batch, of no reaction.                      *)
Calm(f) == f.batch = <<>> /\ ~(f.k = "handler" /\ IsReaction(f.job))

LEMMA PushCalm ==
  ASSUME NEW F, NEW st \in Seq(F), NEW f, Calm(f), NEW u, u = Append(st, f)
  PROVE  SamePlaces(u, st)
<1>1. /\ Len(u) = Len(st) + 1 /\ Len(st) \in Nat /\ u[Len(st) + 1] = f
      /\ \A i \in 1..Len(st) : u[i] = st[i]
  BY PushedOn
<1>2. \A j, i, job : OnBatch(u, j, i, job) <=> OnBatch(st, j, i, job)
  BY <1>1 DEF OnBatch, Calm
<1>3. \A j, k : HandAt(u, j, k) <=> HandAt(st, j, k)
  BY <1>1 DEF HandAt, HandlerAt, Calm
<1> QED BY <1>2, <1>3, PlacesSame DEF PlacesIn

LEMMA PopPlaces ==
  ASSUME NEW F, NEW st \in Seq(F), st # <<>>, NEW u, u = To(st, Len(st) - 1), Peek(st).batch = <<>>
  PROVE  /\ Fewer(u, st) /\ JobsOn(u) = JobsOn(st)
         /\ Calm(Peek(st)) => SamePlaces(u, st)
         /\ HandsOnce(st) /\ ~Calm(Peek(st)) =>
              Peek(st).job.cap \in HandsOn(st) /\ HandsOn(u) = HandsOn(st) \ {Peek(st).job.cap}
<1>1. /\ Len(u) = Len(st) - 1 /\ Len(st) \in Nat /\ Len(st) # 0
      /\ \A i \in 1..Len(u) : u[i] = st[i]
  BY TakenOff
<1>2. \A j, i, job : OnBatch(u, j, i, job) <=> OnBatch(st, j, i, job)
  BY <1>1 DEF OnBatch, Peek
<1>3. \A j, k : HandAt(u, j, k) <=> HandAt(st, j, k) /\ j # Len(st)
  BY <1>1 DEF HandAt, HandlerAt
<1>4. Fewer(u, st)
  BY <1>2, <1>3, PlacesFewer DEF PlacesIn
<1>5. JobsOn(u) = JobsOn(st)
  BY <1>2, SameJobs
<1>6. ASSUME Calm(Peek(st)) PROVE SamePlaces(u, st)
  <2>1. \A k : ~HandAt(st, Len(st), k)
    BY <1>6 DEF HandAt, HandlerAt, Calm, Peek
  <2>2. PlacesIn(u, st) /\ PlacesIn(st, u)
    BY <2>1, <1>2, <1>3 DEF PlacesIn
  <2> QED BY <2>2, PlacesSame
<1>7. ASSUME HandsOnce(st), ~Calm(Peek(st))
      PROVE  Peek(st).job.cap \in HandsOn(st) /\ HandsOn(u) = HandsOn(st) \ {Peek(st).job.cap}
  <2>1. HandAt(st, Len(st), Peek(st).job.cap)
    BY <1>1, <1>7 DEF HandAt, HandlerAt, Calm, Peek
  <2>2. \A j : HandAt(st, j, Peek(st).job.cap) => j = Len(st)
    BY <2>1, <1>7, JobsBy, HandsBy, BatchBy, OnceBy
  <2>3. \A k : HandAt(st, Len(st), k) => k = Peek(st).job.cap
    BY DEF HandAt, Peek
  <2>4. \A k : k \in HandsOn(u) <=> k \in HandsOn(st) /\ k # Peek(st).job.cap
    BY <2>1, <2>2, <2>3, <1>3, JobsBy, HandsBy, BatchBy, OnceBy
  <2>5. Peek(st).job.cap \in HandsOn(st)
    BY <2>1, JobsBy, HandsBy, BatchBy, OnceBy
  <2> QED BY <2>4, <2>5
<1> QED BY <1>4, <1>5, <1>6, <1>7

LEMMA SwapCalm ==
  ASSUME NEW F, NEW st \in Seq(F), st # <<>>, NEW g, NEW u, u = OnTop(st, g), Calm(g), Calm(Peek(st))
  PROVE  SamePlaces(u, st)
<1>1. /\ Len(u) = Len(st) /\ Len(st) \in Nat /\ Len(st) # 0
      /\ \A i \in 1..Len(st) : u[i] = IF i = Len(st) THEN g ELSE st[i]
  BY PutOnTop
<1>2. \A j, i, job : OnBatch(u, j, i, job) <=> OnBatch(st, j, i, job)
  BY <1>1 DEF OnBatch, Calm, Peek
<1>3. \A j, k : HandAt(u, j, k) <=> HandAt(st, j, k)
  BY <1>1 DEF HandAt, HandlerAt, Calm, Peek
<1> QED BY <1>2, <1>3, PlacesSame DEF PlacesIn

LEMMA CutPlaces ==
  ASSUME NEW F, NEW st \in Seq(F), NEW b, Depth(st, b), NEW u, u = To(st, b)
  PROVE  Fewer(u, st)
<1>1. Len(st) \in Nat /\ Len(u) = b /\ \A i \in 1..b : u[i] = st[i]
  BY DEF Depth, To
<1>2. \A j, i, job : OnBatch(u, j, i, job) => OnBatch(st, j, i, job)
  BY <1>1 DEF OnBatch, Depth
<1>3. \A j, k : HandAt(u, j, k) => HandAt(st, j, k)
  BY <1>1 DEF HandAt, HandlerAt, Depth
<1> QED BY <1>2, <1>3, PlacesFewer DEF PlacesIn

(* The frame of a reaction that begins to run.                             *)
LEMMA PushHandler ==
  ASSUME NEW F, NEW st \in Seq(F), NEW f, f.batch = <<>>, f.k = "handler", IsReaction(f.job),
         f.job.cap \notin HandsOn(st), NEW u, u = Append(st, f)
  PROVE  /\ JobsOn(u) = JobsOn(st) /\ HandsOn(u) = HandsOn(st) \cup {f.job.cap}
         /\ BatchesOnce(st) => BatchesOnce(u)
         /\ HandsOnce(st) => HandsOnce(u)
<1>1. /\ Len(u) = Len(st) + 1 /\ Len(st) \in Nat /\ u[Len(st) + 1] = f
      /\ \A i \in 1..Len(st) : u[i] = st[i]
  BY PushedOn
<1>2. \A j, i, job : OnBatch(u, j, i, job) <=> OnBatch(st, j, i, job)
  BY <1>1 DEF OnBatch
<1>3. \A j, k : HandAt(u, j, k) <=> HandAt(st, j, k) \/ (j = Len(st) + 1 /\ k = f.job.cap)
  BY <1>1 DEF HandAt, HandlerAt
<1>4. \A j, i, k : BatchHas(u, j, i, k) <=> BatchHas(st, j, i, k)
  BY <1>2, JobsBy, HandsBy, BatchBy, OnceBy
<1>5. JobsOn(u) = JobsOn(st)
  BY <1>2, SameJobs
<1>6. \A k : k \in HandsOn(u) <=> k \in HandsOn(st) \/ k = f.job.cap
  BY <1>3, JobsBy, HandsBy, BatchBy, OnceBy, Zenon
<1>7. ASSUME HandsOnce(st) PROVE HandsOnce(u)
  <2>1. \A j : ~HandAt(st, j, f.job.cap)
    BY JobsBy, HandsBy, BatchBy, OnceBy
  <2> QED BY <2>1, <1>3, <1>7, OnceBy
<1>8. BatchesOnce(st) => BatchesOnce(u)
  BY <1>4 DEF BatchesOnce
<1> QED BY <1>5, <1>6, <1>7, <1>8

(* leave() takes a job.                                                    *)
LEMMA RestPlaces ==
  ASSUME NEW n, NEW st, Stacked(n, st), st # <<>>, Batch(st) # <<>>, Peek(st).k = "leave", BatchesOnce(st),
         NEW g, RestOf(g, st), NEW u, u = OnTop(st, g)
  PROVE  /\ Takes(JobsOn(st), JobsOn(u), Head(Batch(st))) /\ HandsOn(u) = HandsOn(st)
         /\ BatchesOnce(u) /\ (HandsOnce(st) => HandsOnce(u))
<1>1. st \in Seq(Frames(n))
  BY DEF Stacked
<1>2. /\ Len(u) = Len(st) /\ Len(st) \in Nat /\ Len(st) # 0
      /\ \A i \in 1..Len(st) : u[i] = IF i = Len(st) THEN g ELSE st[i]
  BY <1>1, PutOnTop
<1>3. Peek(st) \in Frames(n)
  BY <1>1, <1>2 DEF Peek
<1>4. Batch(st) \in Seq(JobsOf(n)) /\ g = [Peek(st) EXCEPT !.batch = Tail(Batch(st))]
  BY <1>3 DEF Batch, Frames, RestOf
<1>5. g.batch = Tail(Batch(st)) /\ g.k = "leave"
  BY <1>3, <1>4 DEF Frames
<1> DEFINE q == Batch(st)
<1>6. Len(q) \in Nat /\ Len(q) # 0 /\ Len(g.batch) = Len(q) - 1 /\ Head(q) = q[1]
      /\ \A i \in 1..Len(g.batch) : g.batch[i] = q[i + 1]
  BY <1>4, <1>5
<1> HIDE DEF q
<1>7. st[Len(st)].batch = q /\ st[Len(st)].k = "leave"
  BY DEF q, Batch, Peek
<1>8. \A j, i, job : OnBatch(u, j, i, job) => OnBatch(st, j, IF j = Len(st) THEN i + 1 ELSE i, job)
  <2> SUFFICES ASSUME NEW j, NEW i, NEW job, OnBatch(u, j, i, job)
               PROVE  OnBatch(st, j, IF j = Len(st) THEN i + 1 ELSE i, job)
    OBVIOUS
  <2>1. CASE j = Len(st)
    BY <2>1, <1>2, <1>6, <1>7 DEF OnBatch
  <2>2. CASE j # Len(st)
    BY <2>2, <1>2 DEF OnBatch
  <2> QED BY <2>1, <2>2
<1>9. \A j, i, job : OnBatch(st, j, i, job) => (j = Len(st) /\ i = 1) \/ \E m : OnBatch(u, j, m, job)
  <2> SUFFICES ASSUME NEW j, NEW i, NEW job, OnBatch(st, j, i, job), ~(j = Len(st) /\ i = 1)
               PROVE  OnBatch(u, j, IF j = Len(st) THEN i - 1 ELSE i, job)
    OBVIOUS
  <2>1. CASE j = Len(st)
    BY <2>1, <1>2, <1>6, <1>7 DEF OnBatch
  <2>2. CASE j # Len(st)
    BY <2>2, <1>2 DEF OnBatch
  <2> QED BY <2>1, <2>2
<1>10. OnBatch(st, Len(st), 1, Head(q)) /\ \A job : OnBatch(st, Len(st), 1, job) => job = Head(q)
  BY <1>2, <1>6, <1>7 DEF OnBatch
<1>11. \A j, k : HandAt(u, j, k) <=> HandAt(st, j, k)
  BY <1>2, <1>5, <1>7 DEF HandAt, HandlerAt
<1>12. JobsOn(u) \subseteq JobsOn(st) /\ Head(q) \in JobsOn(st) /\ HandsOn(u) = HandsOn(st)
  <2>1. JobsOn(u) \subseteq JobsOn(st)
    BY <1>8, JobsBy
  <2>2. Head(q) \in JobsOn(st)
    BY <1>10, JobsBy
  <2> QED BY <2>1, <2>2, <1>11, SameHands
<1>13. \A job \in JobsOn(st) : job \in JobsOn(u) \/ job = Head(q)
  BY <1>9, <1>10, JobsBy, HandsBy, BatchBy, OnceBy
<1>14. ASSUME IsReaction(Head(q)), InBatch(JobsOn(u), Head(q).cap) PROVE FALSE
  <2>1. PICK job \in JobsOn(u) : IsReaction(job) /\ job.cap = Head(q).cap
    BY <1>14 DEF InBatch
  <2>2. PICK j, i : OnBatch(u, j, i, job)
    BY <2>1, JobsBy, HandsBy, BatchBy, OnceBy
  <2>3. BatchHas(st, j, IF j = Len(st) THEN i + 1 ELSE i, job.cap) /\ BatchHas(st, Len(st), 1, job.cap)
    BY <2>1, <2>2, <1>8, <1>10, <1>14, JobsBy, HandsBy, BatchBy, OnceBy
  <2>4. j = Len(st) /\ (IF j = Len(st) THEN i + 1 ELSE i) = 1
    BY <2>3 DEF BatchesOnce
  <2>5. i \in 1..Len(u[j].batch)
    BY <2>2 DEF OnBatch
  <2> QED BY <2>4, <2>5
<1>15. BatchesOnce(u)
  <2> SUFFICES ASSUME NEW j, NEW l, NEW i, NEW m, NEW k, BatchHas(u, j, i, k), BatchHas(u, l, m, k)
               PROVE  j = l /\ i = m
    BY DEF BatchesOnce
  <2>1. /\ BatchHas(st, j, IF j = Len(st) THEN i + 1 ELSE i, k)
        /\ BatchHas(st, l, IF l = Len(st) THEN m + 1 ELSE m, k)
    BY <1>8, JobsBy, HandsBy, BatchBy, OnceBy
  <2>2. j = l /\ (IF j = Len(st) THEN i + 1 ELSE i) = (IF l = Len(st) THEN m + 1 ELSE m)
    BY <2>1 DEF BatchesOnce
  <2>3. i \in Int /\ m \in Int
    BY DEF BatchHas
  <2> QED BY <2>2, <2>3
<1>16. HandsOnce(st) => HandsOnce(u)
  BY <1>11, JobsBy, HandsBy, BatchBy, OnceBy
<1> QED BY <1>12, <1>13, <1>14, <1>15, <1>16 DEF Takes, q

(* leave() takes over the queue.                                           *)
LEMMA BatchPlaces ==
  ASSUME NEW r, Typed(r), NEW st, Stacked(Size(r), st), st # <<>>, Batch(st) = <<>>, Peek(st).k = "leave", BatchesOnce(st),
         NEW hands, Apart(r, JobsOn(st), hands), NEW g, BatchOf(g, st, r.jobQueue), NEW u, u = OnTop(st, g)
  PROVE  /\ \A job : job \in JobsOn(u) <=> job \in JobsOn(st) \/ \E n \in 1..Len(r.jobQueue) : job = r.jobQueue[n]
         /\ HandsOn(u) = HandsOn(st) /\ BatchesOnce(u) /\ (HandsOnce(st) => HandsOnce(u))
<1>1. st \in Seq(Frames(Size(r)))
  BY DEF Stacked
<1>2. /\ Len(u) = Len(st) /\ Len(st) \in Nat /\ Len(st) # 0
      /\ \A i \in 1..Len(st) : u[i] = IF i = Len(st) THEN g ELSE st[i]
  BY <1>1, PutOnTop
<1>3. Peek(st) \in Frames(Size(r))
  BY <1>1, <1>2 DEF Peek
<1>4. g.batch = r.jobQueue /\ g.k = "leave"
  BY <1>3 DEF Frames, BatchOf
<1>5. st[Len(st)].batch = <<>> /\ st[Len(st)].k = "leave"
  BY DEF Batch, Peek
<1> DEFINE Fresh(j, i, job) == j = Len(st) /\ i \in 1..Len(r.jobQueue) /\ job = r.jobQueue[i]
<1>6. \A j, i, job : OnBatch(u, j, i, job) <=> OnBatch(st, j, i, job) \/ Fresh(j, i, job)
  BY <1>2, <1>4, <1>5 DEF OnBatch
<1>7. \A j, k : HandAt(u, j, k) <=> HandAt(st, j, k)
  BY <1>2, <1>4, <1>5 DEF HandAt, HandlerAt
<1>8. \A job : job \in JobsOn(u) <=> job \in JobsOn(st) \/ \E n \in 1..Len(r.jobQueue) : job = r.jobQueue[n]
  <2>1. \A job : (\E n \in 1..Len(r.jobQueue) : job = r.jobQueue[n]) <=> \E j, i : Fresh(j, i, job)
    BY Zenon
  <2> HIDE DEF Fresh
  <2> QED BY <2>1, <1>6, JobsBy, HandsBy, BatchBy, OnceBy, Zenon
<1>9. HandsOn(u) = HandsOn(st) /\ (HandsOnce(st) => HandsOnce(u))
  BY <1>7, SameHands
<1>10. BatchesOnce(u)
  <2> SUFFICES ASSUME NEW j, NEW l, NEW i, NEW m, NEW k, BatchHas(u, j, i, k), BatchHas(u, l, m, k)
               PROVE  j = l /\ i = m
    BY DEF BatchesOnce
  <2>1. \A a, b : BatchHas(u, a, b, k) => BatchHas(st, a, b, k) \/ (a = Len(st) /\ IsQueued(r, b, k))
    <3>1. \A a, b, job : Fresh(a, b, job) /\ IsReaction(job) /\ job.cap = k => a = Len(st) /\ IsQueued(r, b, k)
      BY DEF IsQueued
    <3> HIDE DEF Fresh
    <3> QED BY <3>1, <1>6, JobsBy, HandsBy, BatchBy, OnceBy
  <2>2. \A a, b : BatchHas(st, a, b, k) => InBatch(JobsOn(st), k)
    BY JobsBy, HandsBy, BatchBy, OnceBy DEF InBatch
  <2>3. \A a : IsQueued(r, a, k) => ~InBatch(JobsOn(st), k)
    BY DEF Apart, InQueue
  <2>4. CASE BatchHas(st, j, i, k)
    <3>1. BatchHas(st, l, m, k)
      BY <2>1, <2>2, <2>3, <2>4
    <3> QED BY <3>1, <2>4 DEF BatchesOnce
  <2>5. CASE j = Len(st) /\ IsQueued(r, i, k)
    <3>1. l = Len(st) /\ IsQueued(r, m, k)
      BY <2>1, <2>2, <2>3, <2>5
    <3> QED BY <3>1, <2>5 DEF Apart
  <2> QED BY <2>1, <2>4, <2>5
<1> QED BY <1>8, <1>9, <1>10

-----------------------------------------------------------------------------
(* What a step that leaves the stack alone keeps.                          *)
LEMMA PublicStays ==
  ASSUME NEW r, NEW s, Keeps(r, s), NEW use, NEW v, Ext(use, v, r), NEW f, Public(r, use, f)
  PROVE  Public(s, v, f)
<1>1. \A k \in PairsOf(r) : k \in PairsOf(s) /\ v[k] = use[k]
  BY Remain DEF Ext
<1> QED BY <1>1 DEF Public

LEMMA FramesStay ==
  ASSUME NEW r, NEW s, Keeps(r, s), NEW use, NEW v, Ext(use, v, r), Uses(r, use), NEW st, FramesOK(r, use, st),
         HandsOK(s, v, HandsOn(st))
  PROVE  FramesOK(s, v, st)
<1> SUFFICES ASSUME NEW j \in 1..Len(st) PROVE FrameOK(s, v, st[j])
  BY DEF FramesOK
<1> DEFINE f == st[j]
<1>1. FrameOK(r, use, f)
  BY DEF FramesOK
<1>2. \A k \in PairsOf(r) : k \in PairsOf(s) /\ v[k] = use[k]
  BY Remain DEF Ext
<1>3. ASSUME f.k = "handler", IsReaction(f.job) PROVE JobOK(s, v, f.job)
  <2>1. HandAt(st, j, f.job.cap)
    BY <1>3 DEF HandAt, HandlerAt
  <2>2. f.job.cap \in HandsOn(st)
    BY <2>1, HandsBy
  <2>3. ~IsUsed(s, f.job.cap)
    BY <2>2 DEF HandsOK, HandOK
  <2>4. JobOK(r, use, f.job)
    BY <1>1, <1>3 DEF FrameOK
  <2> HIDE DEF f
  <2> QED BY <2>3, <2>4, JobStays
<1>4. ASSUME f.k = "handler", ~IsReaction(f.job)
      PROVE  f.job.k = "thenable" /\ f.n \in PairsOf(s) /\ v[f.n].kind = "open"
  <2>1. f.job.k = "thenable" /\ f.n \in PairsOf(r) /\ use[f.n].kind = "open"
    BY <1>1, <1>4 DEF FrameOK
  <2> HIDE DEF f
  <2> QED BY <2>1, <1>2
<1>5. f.k # "leave" => f.batch = <<>>
  BY <1>1 DEF FrameOK
<1>6. f.k = "handler" /\ IsReaction(f.job) => f.job.handler.f \notin Internal \cup {"none"}
  BY <1>1 DEF FrameOK
<1> HIDE DEF f
<1>7. FrameOK(s, v, f)
  BY <1>3, <1>4, <1>5, <1>6 DEF FrameOK
<1> QED BY <1>7 DEF f

LEMMA UntriedStays ==
  ASSUME NEW r, NEW s, Keeps(r, s), NEW use, Fins(r, use), Untried(r), s.finals = r.finals
  PROVE  Untried(s)
<1>1. \A n \in 1..Len(r.finals) : r.finals[n].pair \in PairsOf(r)
  BY DEF Fins
<1>2. \A k \in PairsOf(r) : IsUsed(r, k) => IsUsed(s, k)
  BY Remain
<1> QED BY <1>1, <1>2 DEF Untried

LEMMA OutcomesKept ==
  ASSUME NEW r, NEW use, NEW h, NEW st, Outcomes(r, use, h, st), st # <<>>, NEW s, Keeps(r, s), NEW v, Ext(use, v, r),
         Linked(s, v, JobsOn(st), HandsOn(st), {}), Fins(s, v), Untried(s), s.resumed = r.resumed
  PROVE  Outcomes(s, v, h, st)
<1>1. Attended(s, HandsOn(st))
  BY DEF Outcomes, Sound, Attended
<1>2. Sound(s, v, JobsOn(st), HandsOn(st))
  BY <1>1 DEF Sound
<1>3. FramesOK(r, use, st) /\ BatchesOnce(st) /\ HandsOnce(st)
  BY DEF Outcomes, StackOK
<1>4. Uses(r, use) /\ HandsOK(s, v, HandsOn(st))
  BY DEF Outcomes, Sound, Linked
<1>5. FramesOK(s, v, st)
  BY <1>3, <1>4, FramesStay
<1>6. StackOK(s, v, st)
  BY <1>3, <1>5 DEF StackOK
<1>7. \A f \in h : Public(s, v, f)
  BY PublicStays DEF Outcomes
<1> QED BY <1>2, <1>6, <1>7 DEF Outcomes

(* The same where nothing happens to calls of finally().                   *)
LEMMA OutcomesStay ==
  ASSUME NEW r, NEW use, NEW h, NEW st, Outcomes(r, use, h, st), st # <<>>, NEW s, Keeps(r, s), NEW v, Ext(use, v, r),
         Linked(s, v, JobsOn(st), HandsOn(st), {}), s.finals = r.finals, s.resumed = r.resumed,
         \A k \in PairsOf(s) : k \in PairsOf(r) \/ NotFin(v[k])
  PROVE  Outcomes(s, v, h, st)
<1>1. Fins(r, use) /\ Untried(r)
  BY DEF Outcomes, Sound
<1>2. Fins(s, v)
  BY <1>1, FinsStay
<1>3. Untried(s)
  BY <1>1, UntriedStays
<1> QED BY <1>2, <1>3, OutcomesKept

LEMMA OpenNotFin ==
  ASSUME NEW u, u.kind = "open" PROVE NotFin(u)
BY DEF NotFin

LEMMA GivenOut ==
  ASSUME NEW r, NEW use, NEW h, NEW st, Outcomes(r, use, h, st), NEW f, NEW g, Public(r, use, f), Public(r, use, g)
  PROVE  Outcomes(r, use, h \cup {f, g}, st)
BY DEF Outcomes

LEMMA PairPublic ==
  ASSUME NEW r, NEW use, NEW k, k \in PairsOf(r), use[k].kind = "open"
  PROVE  Public(r, use, ResolveFn(k)) /\ Public(r, use, RejectFn(k))
BY AdoptingIs DEF Public

(* The stack changes, but not what is on it to be done.                    *)
LEMMA Repiled ==
  ASSUME NEW r, NEW use, NEW h, NEW st, Outcomes(r, use, h, st), NEW u, SamePlaces(u, st), FramesOK(r, use, u),
         u = <<>> => r.jobQueue = <<>>
  PROVE  Outcomes(r, use, h, u)
<1>1. JobsOn(u) = JobsOn(st) /\ HandsOn(u) = HandsOn(st) /\ BatchesOnce(u) /\ HandsOnce(u)
  BY DEF SamePlaces, Outcomes, StackOK
<1>2. StackOK(r, use, u)
  BY <1>1 DEF StackOK
<1>3. Sound(r, use, JobsOn(u), HandsOn(u))
  BY <1>1 DEF Outcomes
<1> QED BY <1>2, <1>3 DEF Outcomes

LEMMA FramesPushed ==
  ASSUME NEW r, NEW use, NEW F, NEW st \in Seq(F), FramesOK(r, use, st), NEW f, FrameOK(r, use, f), NEW u, u = Append(st, f)
  PROVE  FramesOK(r, use, u) /\ u # <<>>
<1>1. /\ Len(u) = Len(st) + 1 /\ Len(st) \in Nat /\ u[Len(st) + 1] = f
      /\ \A i \in 1..Len(st) : u[i] = st[i]
  BY PushedOn
<1>2. ASSUME NEW j \in 1..Len(u) PROVE FrameOK(r, use, u[j])
  BY <1>1 DEF FramesOK
<1>3. u # <<>>
  BY <1>1
<1> QED BY <1>2, <1>3 DEF FramesOK

LEMMA FramesCut ==
  ASSUME NEW r, NEW use, NEW F, NEW st \in Seq(F), FramesOK(r, use, st), NEW b, Depth(st, b), NEW u, u = To(st, b)
  PROVE  FramesOK(r, use, u)
<1>1. Len(st) \in Nat /\ Len(u) = b /\ \A i \in 1..b : u[i] = st[i]
  BY DEF Depth, To
<1>2. ASSUME NEW j \in 1..Len(u) PROVE FrameOK(r, use, u[j])
  BY <1>1 DEF FramesOK, Depth
<1> QED BY <1>2 DEF FramesOK

LEMMA FramesTopped ==
  ASSUME NEW r, NEW use, NEW F, NEW st \in Seq(F), st # <<>>, FramesOK(r, use, st), NEW g, FrameOK(r, use, g),
         NEW u, u = OnTop(st, g)
  PROVE  FramesOK(r, use, u) /\ u # <<>>
<1>1. /\ Len(u) = Len(st) /\ Len(st) \in Nat /\ Len(st) # 0 /\ u # <<>>
      /\ \A i \in 1..Len(st) : u[i] = IF i = Len(st) THEN g ELSE st[i]
  BY PutOnTop
<1>2. ASSUME NEW j \in 1..Len(u) PROVE FrameOK(r, use, u[j])
  BY <1>1 DEF FramesOK
<1> QED BY <1>1, <1>2 DEF FramesOK

LEMMA PushOutcomes ==
  ASSUME NEW r, NEW use, NEW h, NEW F, NEW st \in Seq(F), Outcomes(r, use, h, st), NEW f, Calm(f), FrameOK(r, use, f),
         NEW u, u = Append(st, f)
  PROVE  Outcomes(r, use, h, u) /\ u # <<>>
<1>1. SamePlaces(u, st)
  BY PushCalm, Zenon
<1>2. FramesOK(r, use, u) /\ u # <<>>
  BY FramesPushed, Zenon DEF Outcomes, StackOK
<1> QED BY <1>1, <1>2, Repiled, Zenon

(* A frame that is not at the bottom is left, or the queue is empty.       *)
LEMMA PopOutcomes ==
  ASSUME NEW r, NEW use, NEW h, NEW F, NEW st \in Seq(F), st # <<>>, Outcomes(r, use, h, st), Calm(Peek(st)),
         Len(st) = 1 => r.jobQueue = <<>>, NEW u, u = To(st, Len(st) - 1)
  PROVE  Outcomes(r, use, h, u)
<1>1. Len(u) = Len(st) - 1 /\ Len(st) \in Nat /\ Len(st) # 0
  BY TakenOff
<1>2. SamePlaces(u, st)
  BY PopPlaces DEF Calm
<1>3. Depth(st, Len(st) - 1)
  BY <1>1 DEF Depth
<1>4. FramesOK(r, use, u)
  BY <1>3, FramesCut DEF Outcomes, StackOK
<1>5. u = <<>> => r.jobQueue = <<>>
  BY <1>1
<1> QED BY <1>2, <1>4, <1>5, Repiled

LEMMA Inner ==
  ASSUME NEW n, NEW st, Stacked(n, st), st # <<>>, Peek(st).k \notin {"run", "leave"}
  PROVE  Len(st) # 1
BY DEF Stacked, Bottom, Peek

-----------------------------------------------------------------------------
(* One lemma per action.  First, what user code does.                      *)
Out == \E use : Outcomes(rt, use, held, stack)

LEMMA LinkedNow ==
  ASSUME NEW use, Outcomes(rt, use, held, stack)
  PROVE  /\ Linked(rt, use, JobsOn(stack), HandsOn(stack), {})
         /\ Fins(rt, use) /\ Untried(rt) /\ Attended(rt, HandsOn(stack))
         /\ FramesOK(rt, use, stack) /\ BatchesOnce(stack) /\ HandsOnce(stack)
         /\ \A f \in held : Public(rt, use, f)
BY DEF Outcomes, Sound, StackOK

LEMMA GrownKeeps ==
  ASSUME NEW r, NEW s, Grown(r, s) PROVE Keeps(r, s)
BY DEF Grown

LEMMA AnOpenPair ==
  ASSUME NEW r, NEW use, NEW hands, NEW n
  PROVE  Fit(r, use, Open) /\ Plus(hands, Open, n) = hands
BY OpenIs DEF Fit, Plus

LEMMA PlainHandlers ==
  ASSUME NEW r, NEW use, NEW p, NEW f, f.f \notin {"resolve", "reject", "thunk"}, NEW g, g.f \notin {"resolve", "reject", "thunk"}
  PROVE  HandlersOK(r, use, p, f, g)
BY DEF HandlersOK, Public

(* What is new of the pairs of a runtime that has one more.                *)
LEMMA OneMore ==
  ASSUME NEW r, NEW s, Len(r.pairs) \in Nat, Len(s.pairs) = Len(r.pairs) + 1, NEW use, NEW w, NotFin(w),
         NEW v, v = With(use, Len(r.pairs) + 1, w)
  PROVE  \A k \in PairsOf(s) : k \in PairsOf(r) \/ NotFin(v[k])
<1> SUFFICES ASSUME NEW k \in PairsOf(s), k \notin PairsOf(r) PROVE NotFin(v[k])
  OBVIOUS
<1>1. k = Len(r.pairs) + 1 /\ k \in Nat
  BY DEF PairsOf
<1>2. v[k] = w
  BY <1>1 DEF With
<1> QED BY <1>2

LEMMA NewPromiseOut ==
  ASSUME Inv, NEW use, Outcomes(rt, use, held, stack), NewPromise
  PROVE  Out'
<1> DEFINE k == Len(rt'.pairs)
           v == With(use, k, Open)
<1>1. rt' = newPromise(rt) /\ stack' = stack /\ held' = held \cup {ResolveFn(k), RejectFn(k)} /\ stack # <<>>
  BY DEF NewPromise, Running
<1>2. Good(rt, Busy(stack))
  BY DEF Inv, OK
<1>3. Grown(rt, rt') /\ k \in PairsOf(rt')
  BY <1>1, <1>2, NewPromiseMade, Zenon DEF HasPair, PairsOf
<1>4. Linked(rt, use, JobsOn(stack), HandsOn(stack), {}) /\ Fit(rt, use, Open) /\ Plus(HandsOn(stack), Open, k) = HandsOn(stack)
  BY LinkedNow, AnOpenPair
<1>5. Linked(rt', v, JobsOn(stack), HandsOn(stack), {}) /\ NewOne(rt, rt')
  BY <1>1, <1>2, <1>4, NewPromiseLinked
<1>6. Len(rt.pairs) \in Nat /\ k = Len(rt.pairs) + 1
  BY <1>2, <1>5, Owners DEF NewOne
<1>7. Ext(use, v, rt) /\ v[k] = Open
  BY <1>2, <1>6, Extends
<1>8. NotFin(Open) /\ v[k].kind = "open"
  BY <1>7, OpenIs, OpenNotFin
<1>9. \A m \in PairsOf(rt') : m \in PairsOf(rt) \/ NotFin(v[m])
  BY <1>6, <1>8, OneMore, Zenon
<1> HIDE DEF k, v
<1>10. rt'.finals = rt.finals /\ rt'.resumed = rt.resumed /\ Keeps(rt, rt')
  BY <1>3, <1>5, GrownKeeps DEF NewOne
<1>11. Outcomes(rt', v, held, stack)
  BY <1>1, <1>5, <1>7, <1>9, <1>10, OutcomesStay
<1>12. Public(rt', v, ResolveFn(k)) /\ Public(rt', v, RejectFn(k))
  BY <1>3, <1>8, PairPublic
<1>13. Outcomes(rt', v, held', stack')
  BY <1>1, <1>11, <1>12, GivenOut
<1> QED BY <1>13 DEF Out

LEMMA ThenOut ==
  ASSUME Inv, NEW use, Outcomes(rt, use, held, stack), NEW p \in known, NEW f \in Handlers, NEW g \in Handlers, Then(p, f, g)
  PROVE  Out'
<1> DEFINE n == Len(rt.pairs) + 1
           w == Derived(p, UserFn(f), UserFn(g))
           v == With(use, n, w)
<1>1. rt' = then(rt, p, UserFn(f), UserFn(g)) /\ stack' = stack /\ held' = held /\ stack # <<>>
  BY DEF Then, Running
<1>2. Good(rt, Busy(stack)) /\ Has(rt, p)
  BY DEF Inv, OK, Knows, Has
<1>3. UserFn(f) \in Functions(Size(rt)) /\ UserFn(g) \in Functions(Size(rt))
  BY PromisesAssumption, HandlersTyped
<1>4. UserFn(f).f \in {"none", "js", "go"} /\ UserFn(g).f \in {"none", "js", "go"}
  BY PromisesAssumption DEF UserFn, Fn
<1>5. HandlersOK(rt, use, p, UserFn(f), UserFn(g)) /\ NotFin(w)
  BY <1>4, PlainHandlers, DerivedIs DEF NotFin
<1>6. Linked(rt, use, JobsOn(stack), HandsOn(stack), {})
  BY LinkedNow
<1>7. Linked(rt', v, JobsOn(stack), HandsOn(stack), {}) /\ Derives(rt, rt', n)
  BY <1>1, <1>2, <1>3, <1>5, <1>6, ThenLinked
<1>8. Grown(rt, rt') /\ Keeps(rt, rt') /\ Len(rt'.pairs) = Len(rt.pairs) + 1
  BY <1>1, <1>2, <1>3, Thened, GrownKeeps
<1>9. Ext(use, v, rt) /\ Len(rt.pairs) \in Nat
  BY <1>2, Extends, Owners
<1>10. \A k \in PairsOf(rt') : k \in PairsOf(rt) \/ NotFin(v[k])
  BY <1>5, <1>8, <1>9, OneMore, Zenon
<1>11. rt'.finals = rt.finals /\ rt'.resumed = rt.resumed
  BY <1>7 DEF Derives
<1> HIDE DEF v, w
<1>12. Outcomes(rt', v, held, stack)
  BY <1>1, <1>7, <1>8, <1>9, <1>10, <1>11, OutcomesStay
<1> QED BY <1>1, <1>12 DEF Out

LEMMA FinallyOut ==
  ASSUME Inv, NEW use, Outcomes(rt, use, held, stack), NEW p \in known, Finally(p)
  PROVE  Out'
<1> DEFINE n == Len(rt.finals) + 1
           f == FinThen(n)
           g == FinCatch(n)
           t == then(rt, p, f, g)
           e == [from |-> p, pair |-> Len(t.pairs), via |-> Undefined, threw |-> FALSE]
           k == Len(rt.pairs) + 1
           w == Derived(p, f, g)
           v == With(use, k, w)
<1>1. rt' = [t EXCEPT !.finals = Append(t.finals, e)] /\ stack' = stack /\ held' = held /\ stack # <<>>
  BY DEF Finally, Running, FinThen, FinCatch
<1>2. OK(rt, held, known, stack) /\ Good(rt, Busy(stack)) /\ Has(rt, p)
  BY DEF Inv, OK, Knows, Has
<1>3. f \in Functions(Size(rt)) /\ g \in Functions(Size(rt))
  <2>1. n \in Nat
    BY <1>2, LenProperties DEF Good, Typed
  <2>2. Undefined \in Values(Size(rt))
    BY OwnValues
  <2> HIDE DEF n, Undefined
  <2> QED BY <2>1, <2>2 DEF FinThen, FinCatch, Fn, Functions, Natives
<1>4. HandlersOK(rt, use, p, f, g)
  BY FinIs, PlainHandlers
<1>5. Linked(rt, use, JobsOn(stack), HandsOn(stack), {}) /\ Fins(rt, use) /\ Untried(rt)
  BY LinkedNow
<1> HIDE DEF f, g
<1>6. Linked(t, v, JobsOn(stack), HandsOn(stack), {}) /\ Derives(rt, t, k)
  BY <1>2, <1>3, <1>4, <1>5, ThenLinked
<1>7. Good(t, Busy(stack)) /\ Grown(rt, t) /\ Keeps(rt, t) /\ Len(t.pairs) = k
  BY <1>2, <1>3, Thened, GrownKeeps
<1>8. Ext(use, v, rt) /\ v[k] = w /\ Len(rt.pairs) \in Nat
  BY <1>2, Extends, Owners
<1>9. e \in Finals /\ e.from = p /\ e.pair = k /\ ~e.threw
  <2>1. p \in Nat /\ Len(t.pairs) \in Nat
    BY <1>2, <1>7, Sizes DEF Has, Good
  <2> HIDE DEF t
  <2> QED BY <2>1, <1>7 DEF Finals, Undefined, Val
<1>10. Only(t, rt', {"finals"}) /\ rt'.finals = Append(t.finals, e)
  BY <1>1, <1>7, Set_finals, Zenon DEF Good, Typed
<1>11. t.finals = rt.finals /\ t.resumed = rt.resumed /\ ~IsUsed(t, k) /\ k \in PairsOf(t)
  BY <1>6 DEF Derives
<1>12. \A m \in PairsOf(t) : m \in PairsOf(rt) \/ m = k
  <2>1. k \in Nat /\ Len(rt.pairs) \in Nat /\ k = Len(rt.pairs) + 1
    BY <1>8
  <2> HIDE DEF k, t
  <2> QED BY <2>1, <1>7 DEF PairsOf
<1>13. rt.finals \in Seq(Finals) /\ w = Derived(p, FinThen(n), FinCatch(n))
  BY <1>2 DEF Good, Typed, f, g
<1> HIDE DEF t, e, v, w, k, n
<1>14. n = Len(rt.finals) + 1
  BY DEF n
<1>15. v[k] = Derived(p, FinThen(n), FinCatch(n))
  BY <1>8, <1>13
<1>15a. Adds(rt, t, k) /\ Enters(t, rt', p, k)
  BY <1>9, <1>10, <1>11, <1>12 DEF Adds, Enters
<1>16. Linked(rt', v, JobsOn(stack), HandsOn(stack), {}) /\ Fins(rt', v)
  BY ONLY <1>5, <1>6, <1>7, <1>8, <1>11, <1>13, <1>14, <1>15, <1>15a, FinallyLinked
<1>17. rt'.pairs = t.pairs /\ rt'.promises = t.promises /\ rt'.combs = t.combs /\ rt'.resumed = t.resumed
  BY <1>10 DEF Only
<1>18. Keeps(rt, rt')
  BY <1>7, <1>17 DEF Keeps, Size
<1>19. Untried(rt')
  <2>1. ASSUME NEW m \in 1..Len(rt'.finals), rt'.finals[m].threw PROVE IsUsed(rt', rt'.finals[m].pair)
    <3>1. rt.finals \in Seq(Finals) /\ rt'.finals = Append(rt.finals, e)
      BY <1>10, <1>11, <1>13
    <3>2. m \in 1..Len(rt.finals) /\ rt'.finals[m] = rt.finals[m]
      BY <2>1, <3>1, <1>9
    <3>3. rt.finals[m].pair \in PairsOf(rt) /\ IsUsed(rt, rt.finals[m].pair)
      BY <2>1, <3>2, <1>5 DEF Fins, Untried
    <3>4. IsUsed(rt', rt.finals[m].pair)
      BY <3>3, <1>18, Remain
    <3> QED BY <3>2, <3>4
  <2> QED BY <2>1 DEF Untried
<1>20. Outcomes(rt', v, held, stack)
  BY <1>1, <1>8, <1>11, <1>16, <1>17, <1>18, <1>19, OutcomesKept, Zenon
<1> QED BY <1>1, <1>20 DEF Out

LEMMA StaticResolveOut ==
  ASSUME Inv, NEW use, Outcomes(rt, use, held, stack), NEW x \in Args, StaticResolve(x)
  PROVE  Out'
<1> DEFINE v == Resolving(rt, use, x)
<1>1. rt' = promiseResolve(rt, x) /\ stack' = stack /\ held' = held /\ stack # <<>>
  BY DEF StaticResolve, Running
<1>2. Good(rt, Busy(stack)) /\ x \in Values(Size(rt))
  BY ArgsTyped DEF Inv, OK
<1>3. Grown(rt, rt') /\ Keeps(rt, rt')
  BY <1>1, <1>2, ResolvedTo, GrownKeeps
<1>4. Linked(rt, use, JobsOn(stack), HandsOn(stack), {})
  BY LinkedNow
<1>5. /\ Linked(rt', v, JobsOn(stack), HandsOn(stack), {}) /\ Untold(rt, rt') /\ Ext(use, v, rt)
      /\ \A k \in PairsOf(rt') : k \in PairsOf(rt) \/ v[k].kind = "open"
  BY <1>1, <1>2, <1>4, AllResolved
<1> HIDE DEF v
<1>6. \A k \in PairsOf(rt') : k \in PairsOf(rt) \/ NotFin(v[k])
  BY <1>5, OpenNotFin
<1>7. rt'.finals = rt.finals /\ rt'.resumed = rt.resumed
  BY <1>5 DEF Untold
<1>8. Outcomes(rt', v, held, stack)
  BY <1>1, <1>3, <1>5, <1>6, <1>7, OutcomesStay
<1> QED BY <1>1, <1>8 DEF Out

LEMMA StaticRejectOut ==
  ASSUME Inv, NEW use, Outcomes(rt, use, held, stack), NEW x \in Args, StaticReject(x)
  PROVE  Out'
<1> DEFINE c == newPromise(rt)
           k == Len(c.pairs)
           v == With(use, k, Open)
<1>1. rt' = rejectBy(c, k, x) /\ stack' = stack /\ held' = held /\ stack # <<>>
  BY DEF StaticReject, Running
<1>2. Good(rt, Busy(stack)) /\ x \in Values(Size(rt))
  BY ArgsTyped DEF Inv, OK
<1>3. Good(c, Busy(stack)) /\ Grown(rt, c) /\ HasPair(c, k)
  BY <1>2, NewPromiseMade
<1>4. Linked(rt, use, JobsOn(stack), HandsOn(stack), {}) /\ Fit(rt, use, Open) /\ Plus(HandsOn(stack), Open, k) = HandsOn(stack)
  BY LinkedNow, AnOpenPair
<1>5. Linked(c, v, JobsOn(stack), HandsOn(stack), {}) /\ NewOne(rt, c)
  BY <1>2, <1>4, NewPromiseLinked
<1>6. Len(rt.pairs) \in Nat /\ k = Len(rt.pairs) + 1
  BY <1>2, <1>5, Owners DEF NewOne
<1>7. Ext(use, v, rt) /\ v[k] = Open
  BY <1>2, <1>6, Extends
<1>8. NotFin(Open) /\ v[k].kind = "open"
  BY <1>7, OpenIs, OpenNotFin
<1>9. \A m \in PairsOf(c) : m \in PairsOf(rt) \/ NotFin(v[m])
  BY <1>6, <1>8, OneMore, Zenon
<1> HIDE DEF c, k, v
<1>10. x \in Values(Size(c))
  BY <1>2, <1>3, StillTyped
<1>11. Linked(rt', v, JobsOn(stack), HandsOn(stack), {}) /\ Others(c, rt')
  BY <1>1, <1>3, <1>5, <1>8, <1>10, OpenResolved
<1>12. Grown(c, rt') /\ Size(rt') = Size(c)
  BY <1>1, <1>3, <1>10, RejectedBy
<1>13. Keeps(rt, rt')
  BY <1>3, <1>12, GrownOn, GrownKeeps
<1>14. PairsOf(rt') = PairsOf(c)
  BY <1>12 DEF Size, PairsOf
<1>15. rt'.finals = rt.finals /\ rt'.resumed = rt.resumed
  BY <1>5, <1>11 DEF NewOne, Others
<1>16. Outcomes(rt', v, held, stack)
  BY <1>1, <1>7, <1>9, <1>11, <1>13, <1>14, <1>15, OutcomesStay
<1> QED BY <1>1, <1>16 DEF Out

(* A call of a native function, with any stack.                            *)
LEMMA CallOutcomes ==
  ASSUME NEW r, NEW busy, Good(r, busy), NEW use, NEW h, NEW st, Outcomes(r, use, h, st), st # <<>>,
         NEW f, f \in h, f \in Functions(Size(r)), NEW x, x \in Values(Size(r)), NEW s, s = call(r, f, x)
  PROVE  Outcomes(s, use, h, st)
<1>1. Linked(r, use, JobsOn(st), HandsOn(st), {}) /\ Public(r, use, f)
  BY DEF Outcomes, Sound
<1>2. Linked(s, use, JobsOn(st), HandsOn(st), {}) /\ Untold(r, s)
  BY <1>1, CallLinked
<1>3. Grown(r, s) /\ Size(s) = Size(r)
  BY Called
<1>4. Keeps(r, s) /\ PairsOf(s) = PairsOf(r)
  BY <1>3, GrownKeeps DEF Size, PairsOf
<1>5. Ext(use, use, r) /\ s.finals = r.finals /\ s.resumed = r.resumed
  BY <1>2 DEF Ext, Untold
<1> QED BY <1>2, <1>4, <1>5, OutcomesStay

LEMMA CallHeldOut ==
  ASSUME Inv, NEW use, Outcomes(rt, use, held, stack), NEW f \in held, NEW x \in Args, CallHeld(f, x)
  PROVE  Out'
<1>1. rt' = call(rt, f, x) /\ stack' = stack /\ held' = held /\ stack # <<>>
  BY DEF CallHeld, Running
<1>2. Good(rt, Busy(stack)) /\ x \in Values(Size(rt)) /\ f \in Functions(Size(rt))
  BY ArgsTyped DEF Inv, OK, Held
<1>3. Outcomes(rt', use, held, stack)
  BY <1>1, <1>2, CallOutcomes
<1> QED BY <1>1, <1>3 DEF Out

(* Combinators.                                                            *)
LEMMA StackTyped ==
  ASSUME Inv
  PROVE  /\ stack \in Seq(Frames(Size(rt))) /\ Stacked(Size(rt), stack) /\ Good(rt, Busy(stack)) /\ Typed(rt)
         /\ Held(held, rt) /\ Knows(known, rt)
BY DEF Inv, OK, Stacked, Good

LEMMA UserFrame ==
  ASSUME NEW r, NEW use, NEW f, f.batch = <<>>, f.k \in {"run", "leave", "iterate"}
  PROVE  Calm(f) /\ FrameOK(r, use, f)
BY DEF Calm, FrameOK

LEMMA CombineOut ==
  ASSUME Inv, NEW use, Outcomes(rt, use, held, stack), NEW op \in Combinators, Combine(op)
  PROVE  Out'
<1> DEFINE f == Frame("iterate", TRUE, FALSE, <<>>, NoJob, Len(rt'.combs))
           n == Len(rt.pairs) + 1
           v == With(use, n, Open)
<1>1. rt' = combinator(rt, op) /\ stack' = Append(stack, f) /\ held' = held /\ stack # <<>>
  BY DEF Combine, push, Running
<1>2. Good(rt, Busy(stack)) /\ op \in {"all", "allSettled", "any", "race"}
  BY PromisesAssumption DEF Inv, OK
<1>3. Grown(rt, rt') /\ Keeps(rt, rt')
  BY <1>1, <1>2, Combined, GrownKeeps
<1>4. Linked(rt, use, JobsOn(stack), HandsOn(stack), {})
  BY LinkedNow
<1>5. /\ Linked(rt', v, JobsOn(stack), HandsOn(stack), {}) /\ Len(rt'.pairs) = n
      /\ rt'.finals = rt.finals /\ rt'.resumed = rt.resumed
  BY <1>1, <1>2, <1>4, CombinedLinked
<1>6. Len(rt.pairs) \in Nat /\ Ext(use, v, rt)
  BY <1>2, Owners, Extends
<1>7. \A m \in PairsOf(rt') : m \in PairsOf(rt) \/ NotFin(v[m])
  <2>1. NotFin(Open)
    BY OpenIs, OpenNotFin
  <2> QED BY <2>1, <1>5, <1>6, OneMore, Zenon
<1>8. f.batch = <<>> /\ f.k = "iterate"
  BY DEF Frame
<1> HIDE DEF v, n, f
<1>9. Outcomes(rt', v, held, stack)
  BY <1>1, <1>3, <1>5, <1>6, <1>7, OutcomesStay
<1>10. Calm(f) /\ FrameOK(rt', v, f)
  BY <1>8, UserFrame
<1>11. stack \in Seq(Frames(Size(rt)))
  BY StackTyped
<1>12. Outcomes(rt', v, held, stack')
  BY <1>1, <1>9, <1>10, <1>11, PushOutcomes, Zenon
<1> QED BY <1>1, <1>12 DEF Out

LEMMA ElementHandlers ==
  ASSUME NEW r, NEW use, Openly(r, use), NEW c, HasComb(r, c), HasPair(r, r.combs[c].cap), NEW i, NEW p,
         NEW f, f = onFulfilled(r, c, i), NEW g, g = onRejected(r, c, i)
  PROVE  HandlersOK(r, use, p, f, g) /\ Public(r, use, f) /\ Public(r, use, g) /\ NotFin(Derived(p, f, g))
<1>1. r.combs[c].cap \in PairsOf(r) /\ use[r.combs[c].cap].kind = "open"
  BY DEF Openly, HasComb, HasPair, PairsOf
<1>2. f.f \in {"fulfilled", "resolve"} /\ (f.f = "resolve" => f.a = r.combs[c].cap)
  BY DEF onFulfilled, Fn, ResolveFn
<1>3. g.f \in {"rejected", "reject"} /\ (g.f = "reject" => g.a = r.combs[c].cap)
  BY DEF onRejected, Fn, RejectFn
<1>4. Public(r, use, f) /\ Public(r, use, g)
  BY <1>1, <1>2, <1>3 DEF Public
<1>5. HandlersOK(r, use, p, f, g)
  BY <1>2, <1>3, <1>4 DEF HandlersOK
<1>6. NotFin(Derived(p, f, g))
  BY <1>2, <1>3, DerivedIs DEF NotFin
<1> QED BY <1>4, <1>5, <1>6

LEMMA IterNextOut ==
  ASSUME Inv, NEW use, Outcomes(rt, use, held, stack), NEW x \in Args, IterNext(x)
  PROVE  Out'
<1> DEFINE c == Top.n
           q == promiseResolve(rt, x)
           p == promiseOf(rt, x)
           r == counted(q, c, p)
           i == Len(r.combs[c].inputs)
           f == onFulfilled(r, c, i)
           g == onRejected(r, c, i)
           u == Resolving(rt, use, x)
           n == Len(r.pairs) + 1
           w == Derived(p, f, g)
           v == With(u, n, w)
<1>1. rt' = then(r, p, f, g) /\ stack' = stack /\ held' = held /\ On("iterate") /\ stack # <<>>
  BY DEF IterNext, More, On
<1>2. HasComb(rt, c) /\ Good(rt, Busy(stack)) /\ x \in Values(Size(rt))
  BY <1>1, Looping, ArgsTyped
<1> HIDE DEF c
<1>3. Good(q, Busy(stack)) /\ Grown(rt, q) /\ Has(q, p)
  BY <1>2, ResolvedTo
<1>4. HasComb(q, c) /\ p \in Nat
  BY <1>2, <1>3, StillThere DEF Has
<1>5. Linked(rt, use, JobsOn(stack), HandsOn(stack), {})
  BY LinkedNow
<1>6. /\ Linked(q, u, JobsOn(stack), HandsOn(stack), {}) /\ Untold(rt, q) /\ Ext(use, u, rt)
      /\ \A k \in PairsOf(q) : k \in PairsOf(rt) \/ u[k].kind = "open"
  BY <1>2, <1>5, AllResolved
<1> HIDE DEF q, p, u
<1>7. Good(r, Busy(stack)) /\ Grown(q, r) /\ Size(r) = Size(q) /\ Recounted(q, r)
  BY <1>3, <1>4, Counted DEF Recounted
<1>8. Linked(r, u, JobsOn(stack), HandsOn(stack), {}) /\ Untold(q, r)
  BY <1>3, <1>6, <1>7, RecountedLinked
<1>9. HasComb(r, c) /\ Has(r, p)
  BY <1>3, <1>4, <1>7, StillThere
<1> HIDE DEF r
<1>10. f \in Functions(Size(r)) /\ g \in Functions(Size(r))
  <2>1. Typed(r) /\ i \in Nat
    BY <1>7, <1>9, InputsCounted DEF Good
  <2> HIDE DEF i
  <2> QED BY <1>9, <2>1, ElementFunctions
<1>11. HandlersOK(r, u, p, f, g) /\ NotFin(w)
  <2>1. Openly(r, u)
    BY <1>8 DEF Linked
  <2>2. HasPair(r, r.combs[c].cap)
    BY <1>7, <1>9, CombIs
  <2> QED BY <1>9, <2>1, <2>2, ElementHandlers
<1> HIDE DEF f, g
<1>12. Linked(rt', v, JobsOn(stack), HandsOn(stack), {}) /\ Derives(r, rt', n)
  BY <1>1, <1>7, <1>8, <1>9, <1>10, <1>11, ThenLinked
<1>13. Grown(r, rt') /\ Len(rt'.pairs) = Len(r.pairs) + 1
  BY <1>1, <1>7, <1>9, <1>10, Thened
<1>14. Ext(u, v, r) /\ Len(r.pairs) \in Nat
  BY <1>7, Extends, Owners
<1>15. \A k \in PairsOf(rt') : k \in PairsOf(r) \/ NotFin(v[k])
  BY <1>11, <1>13, <1>14, OneMore, Zenon
<1> HIDE DEF v, w, n
<1>16. Grown(rt, r)
  BY <1>3, <1>7, GrownOn
<1>17. Keeps(rt, rt') /\ Keeps(rt, r)
  BY <1>13, <1>16, GrownOn, GrownKeeps
<1>18. Ext(use, v, rt)
  BY <1>6, <1>14, <1>17, ExtOn
<1>19. PairsOf(r) = PairsOf(q)
  BY <1>7 DEF Size, PairsOf
<1>20. \A k \in PairsOf(r) : v[k] = u[k]
  BY <1>14 DEF Ext
<1>21. \A k \in PairsOf(rt') : k \in PairsOf(rt) \/ NotFin(v[k])
  BY <1>6, <1>15, <1>19, <1>20, OpenNotFin
<1>22. rt'.finals = rt.finals /\ rt'.resumed = rt.resumed
  BY <1>6, <1>8, <1>12 DEF Untold, Derives
<1>23. Outcomes(rt', v, held, stack)
  BY <1>1, <1>12, <1>17, <1>18, <1>21, <1>22, OutcomesStay
<1> QED BY <1>1, <1>23 DEF Out

LEMMA IterWildOut ==
  ASSUME Inv, NEW use, Outcomes(rt, use, held, stack), IterWild
  PROVE  Out'
<1> DEFINE c == Top.n
           r == counted(rt, c, 0)
           i == Len(r.combs[c].inputs)
           f == onFulfilled(r, c, i)
           g == onRejected(r, c, i)
<1>1. rt' = r /\ stack' = stack /\ held' = held \cup {f, g} /\ On("iterate") /\ stack # <<>>
  BY DEF IterWild, More, On
<1>2. HasComb(rt, c) /\ Good(rt, Busy(stack))
  BY <1>1, Looping
<1> HIDE DEF c
<1>3. Good(r, Busy(stack)) /\ Recounted(rt, r) /\ Grown(rt, r) /\ Size(r) = Size(rt)
  BY <1>2, Counted DEF Recounted
<1>4. HasComb(r, c)
  BY <1>2, <1>3, StillThere
<1>5. Linked(rt, use, JobsOn(stack), HandsOn(stack), {})
  BY LinkedNow
<1> HIDE DEF r
<1>6. Linked(r, use, JobsOn(stack), HandsOn(stack), {}) /\ Untold(rt, r)
  BY <1>2, <1>3, <1>5, RecountedLinked
<1>7. Keeps(rt, r) /\ PairsOf(r) = PairsOf(rt) /\ Ext(use, use, rt)
  BY <1>3, GrownKeeps DEF Size, PairsOf, Ext
<1>8. r.finals = rt.finals /\ r.resumed = rt.resumed
  BY <1>6 DEF Untold
<1>9. Outcomes(r, use, held, stack)
  BY <1>1, <1>6, <1>7, <1>8, OutcomesStay
<1>10. Public(r, use, f) /\ Public(r, use, g)
  <2>1. Openly(r, use)
    BY <1>6 DEF Linked
  <2>2. HasPair(r, r.combs[c].cap)
    BY <1>3, <1>4, CombIs
  <2> QED BY <1>4, <2>1, <2>2, ElementHandlers
<1> HIDE DEF f, g
<1>11. Outcomes(r, use, held \cup {f, g}, stack)
  BY <1>9, <1>10, GivenOut
<1> QED BY <1>1, <1>11 DEF Out

(* The frame of a combinator's loop is left.                               *)
LEMMA IterDoneOut ==
  ASSUME Inv, IterDone, NEW use, Outcomes(rt', use, held, stack)
  PROVE  Out'
<1>1. stack' = To(stack, Len(stack) - 1) /\ held' = held /\ On("iterate") /\ stack # <<>>
  BY DEF IterDone, below, To, On
<1>2. stack \in Seq(Frames(Size(rt))) /\ Stacked(Size(rt), stack)
  BY StackTyped
<1>3. Peek(stack).k = "iterate" /\ Len(stack) \in Nat /\ Len(stack) # 0
  BY <1>1, <1>2 DEF On, Top, Peek
<1>4. Len(stack) # 1
  BY <1>1, <1>2, <1>3, Inner
<1>5. Peek(stack).batch = <<>>
  <2>1. FrameOK(rt', use, stack[Len(stack)])
    BY <1>3 DEF Outcomes, StackOK, FramesOK
  <2> QED BY <2>1, <1>3 DEF FrameOK, Peek
<1>6. Calm(Peek(stack))
  BY <1>3, <1>5 DEF Calm
<1>7. Outcomes(rt', use, held, stack')
  BY <1>1, <1>2, <1>4, <1>6, PopOutcomes
<1> QED BY <1>1, <1>7 DEF Out

LEMMA IterEndOut ==
  ASSUME Inv, NEW use, Outcomes(rt, use, held, stack), IterEnd
  PROVE  Out'
<1>1. rt' = ended(rt, Top.n) /\ IterDone /\ On("iterate") /\ stack # <<>>
  BY DEF IterEnd, IterDone, On
<1>2. HasComb(rt, Top.n) /\ Good(rt, Busy(stack))
  BY <1>1, Looping
<1>3. Grown(rt, rt') /\ Size(rt') = Size(rt)
  BY <1>1, <1>2, Ended
<1>4. Linked(rt, use, JobsOn(stack), HandsOn(stack), {})
  BY LinkedNow
<1>5. Linked(rt', use, JobsOn(stack), HandsOn(stack), {}) /\ Untold(rt, rt')
  BY <1>1, <1>2, <1>4, EndedLinked
<1>6. Keeps(rt, rt') /\ PairsOf(rt') = PairsOf(rt) /\ Ext(use, use, rt)
  BY <1>3, GrownKeeps DEF Size, PairsOf, Ext
<1>7. rt'.finals = rt.finals /\ rt'.resumed = rt.resumed
  BY <1>5 DEF Untold
<1>8. Outcomes(rt', use, held, stack)
  BY <1>1, <1>5, <1>6, <1>7, OutcomesStay
<1> QED BY <1>1, <1>8, IterDoneOut

LEMMA IterThrowsOut ==
  ASSUME Inv, NEW use, Outcomes(rt, use, held, stack), NEW x \in Plain, IterThrows(x)
  PROVE  Out'
<1> DEFINE k == rt.combs[Top.n].cap
<1>1. rt' = rejectBy(rt, k, x) /\ IterDone /\ On("iterate") /\ stack # <<>>
  BY DEF IterThrows, IterDone, On
<1>2. HasComb(rt, Top.n) /\ HasPair(rt, k) /\ Good(rt, Busy(stack)) /\ x \in Values(Size(rt))
  BY <1>1, Looping, ArgsTyped
<1>3. Grown(rt, rt') /\ Size(rt') = Size(rt)
  BY <1>1, <1>2, RejectedBy
<1>4. Linked(rt, use, JobsOn(stack), HandsOn(stack), {})
  BY LinkedNow
<1>5. use[k].kind = "open"
  BY <1>2, <1>4 DEF Linked, Openly, HasComb
<1> HIDE DEF k
<1>6. Linked(rt', use, JobsOn(stack), HandsOn(stack), {}) /\ Others(rt, rt')
  BY <1>1, <1>2, <1>4, <1>5, OpenResolved
<1>7. Keeps(rt, rt') /\ PairsOf(rt') = PairsOf(rt) /\ Ext(use, use, rt)
  BY <1>3, GrownKeeps DEF Size, PairsOf, Ext
<1>8. rt'.finals = rt.finals /\ rt'.resumed = rt.resumed
  BY <1>6 DEF Others
<1>9. Outcomes(rt', use, held, stack)
  BY <1>1, <1>6, <1>7, <1>8, OutcomesStay
<1> QED BY <1>1, <1>9, IterDoneOut

(* The embedder.                                                           *)
LEMMA EnterOut ==
  ASSUME Inv, NEW use, Outcomes(rt, use, held, stack), NEW prog \in Entries, Enter(prog)
  PROVE  Out'
<1> DEFINE f == Frame("run", TRUE, prog, <<>>, NoJob, 0)
<1>1. stack' = Append(stack, f) /\ rt' = rt /\ held' = held
  BY DEF Enter, push
<1>2. f.batch = <<>> /\ f.k = "run"
  BY DEF Frame
<1> HIDE DEF f
<1>3. Calm(f) /\ FrameOK(rt, use, f)
  BY <1>2, UserFrame
<1>4. stack \in Seq(Frames(Size(rt)))
  BY StackTyped
<1>5. Outcomes(rt, use, held, stack')
  BY <1>1, <1>3, <1>4, PushOutcomes, Zenon
<1> QED BY <1>1, <1>5 DEF Out

LEMMA HostCallOut ==
  ASSUME Inv, NEW use, Outcomes(rt, use, held, stack), NEW g \in held, NEW x \in Args, HostCall(g, x)
  PROVE  Out'
<1> DEFINE f == Frame("leave", FALSE, FALSE, <<>>, NoJob, 0)
<1>1. rt' = call(rt, g, x) /\ stack' = Append(stack, f) /\ held' = held
  BY DEF HostCall, push
<1>2. f.batch = <<>> /\ f.k = "leave"
  BY DEF Frame
<1> HIDE DEF f
<1>3. Calm(f) /\ FrameOK(rt, use, f)
  BY <1>2, UserFrame
<1>4. stack \in Seq(Frames(Size(rt))) /\ Good(rt, Busy(stack)) /\ x \in Values(Size(rt)) /\ g \in Functions(Size(rt))
  BY StackTyped, ArgsTyped DEF Held
<1>5. Outcomes(rt, use, held, stack') /\ stack' # <<>>
  BY <1>1, <1>3, <1>4, PushOutcomes, Zenon
<1>6. Outcomes(rt', use, held, stack')
  BY <1>1, <1>4, <1>5, CallOutcomes, Zenon
<1> QED BY <1>1, <1>6 DEF Out

LEMMA ReturnOut ==
  ASSUME Inv, NEW use, Outcomes(rt, use, held, stack), Return
  PROVE  Out'
<1> DEFINE f == Frame("leave", FALSE, Top.prog, <<>>, NoJob, 0)
<1>1. stack # <<>> /\ stack' = OnTop(stack, f) /\ rt' = rt /\ held' = held /\ Peek(stack).k = "run"
  BY DEF Return, On, below, To, OnTop, Top, Peek
<1>2. f.batch = <<>> /\ f.k = "leave"
  BY DEF Frame
<1> HIDE DEF f
<1>3. Calm(f) /\ FrameOK(rt, use, f)
  BY <1>2, UserFrame
<1>4. stack \in Seq(Frames(Size(rt))) /\ Len(stack) \in Nat /\ Len(stack) # 0
  BY <1>1, StackTyped
<1>5. FramesOK(rt, use, stack)
  BY LinkedNow
<1>6. Calm(Peek(stack))
  <2>1. FrameOK(rt, use, Peek(stack))
    BY <1>4, <1>5 DEF FramesOK, Peek
  <2> QED BY <1>1, <2>1 DEF FrameOK, Calm
<1>7. SamePlaces(stack', stack)
  BY <1>1, <1>3, <1>4, <1>6, SwapCalm
<1>8. FramesOK(rt, use, stack') /\ stack' # <<>>
  BY <1>1, <1>3, <1>4, <1>5, FramesTopped
<1>9. Outcomes(rt, use, held, stack')
  BY <1>7, <1>8, Repiled
<1> QED BY <1>1, <1>9 DEF Out

LEMMA LeftOut ==
  ASSUME Inv, NEW use, Outcomes(rt, use, held, stack), Left
  PROVE  Out'
<1>1. /\ stack # <<>> /\ stack' = To(stack, Len(stack) - 1) /\ rt' = rt /\ held' = held
      /\ Peek(stack).k = "leave" /\ Peek(stack).batch = <<>> /\ rt.jobQueue = <<>>
  BY DEF Left, On, below, To, Top, Peek
<1>2. stack \in Seq(Frames(Size(rt))) /\ Calm(Peek(stack))
  BY <1>1, StackTyped DEF Calm
<1>3. Outcomes(rt, use, held, stack')
  BY <1>1, <1>2, PopOutcomes
<1> QED BY <1>1, <1>3 DEF Out

LEMMA NextBatchOut ==
  ASSUME Inv, NEW use, Outcomes(rt, use, held, stack), NextBatch
  PROVE  Out'
<1> DEFINE g == [Peek(stack) EXCEPT !.batch = rt.jobQueue]
<1>1. /\ stack # <<>> /\ stack' = OnTop(stack, g) /\ NoQueue(rt', rt) /\ held' = held
      /\ Peek(stack).k = "leave" /\ Batch(stack) = <<>>
  BY DEF NextBatch, On, below, To, Top, Peek, OnTop, NoQueue, Batch
<1>2. Stacked(Size(rt), stack) /\ Good(rt, Busy(stack)) /\ Typed(rt) /\ BatchOf(g, stack, rt.jobQueue)
      /\ stack \in Seq(Frames(Size(rt)))
  BY StackTyped DEF BatchOf
<1>3. Linked(rt, use, JobsOn(stack), HandsOn(stack), {}) /\ FramesOK(rt, use, stack) /\ BatchesOnce(stack)
      /\ HandsOnce(stack) /\ Fins(rt, use) /\ Untried(rt) /\ Attended(rt, HandsOn(stack))
  BY LinkedNow
<1>4. g.k = "leave"
  <2>1. Peek(stack) \in Frames(Size(rt))
    BY <1>1, OnTyped DEF Inv
  <2> QED BY <1>1, <2>1 DEF Frames
<1> HIDE DEF g
<1>5. /\ \A job : job \in JobsOn(stack') <=> job \in JobsOn(stack) \/ \E n \in 1..Len(rt.jobQueue) : job = rt.jobQueue[n]
      /\ HandsOn(stack') = HandsOn(stack) /\ BatchesOnce(stack') /\ (HandsOnce(stack) => HandsOnce(stack'))
  <2>1. Apart(rt, JobsOn(stack), HandsOn(stack))
    BY <1>3 DEF Linked
  <2> QED BY <1>1, <1>2, <1>3, <2>1, BatchPlaces
<1>6. Only(rt, rt', {"jobQueue"}) /\ rt'.jobQueue = <<>>
  BY <1>1, <1>2, Set_jobQueue, Zenon DEF NoQueue, Typed
<1>7. Linked(rt', use, JobsOn(stack'), HandsOn(stack), {})
  BY <1>2, <1>3, <1>5, <1>6, BatchLinked
<1>8. Keeps(rt, rt')
  BY <1>1, <1>2, QueueDropped
<1>9. Ext(use, use, rt) /\ rt'.finals = rt.finals /\ rt'.resumed = rt.resumed /\ PairsOf(rt') = PairsOf(rt)
  BY <1>6 DEF Ext, Only, PairsOf
<1>10. Fins(rt', use)
  BY <1>3, <1>8, <1>9, FinsStay
<1>11. Untried(rt')
  BY <1>3, <1>8, <1>9, UntriedStays
<1>12. Sound(rt', use, JobsOn(stack'), HandsOn(stack'))
  BY <1>3, <1>5, <1>7, <1>9, <1>10, <1>11 DEF Sound, Attended
<1>13. FramesOK(rt', use, stack)
  BY <1>3, <1>7, <1>8, <1>9, FramesStay DEF Linked
<1>14. FrameOK(rt', use, g)
  BY <1>4 DEF FrameOK
<1>15. FramesOK(rt', use, stack') /\ stack' # <<>>
  BY <1>1, <1>2, <1>13, <1>14, FramesTopped
<1>16. \A f \in held : Public(rt', use, f)
  BY <1>8, <1>9, LinkedNow, PublicStays
<1>17. Outcomes(rt', use, held, stack')
  BY <1>3, <1>5, <1>12, <1>15, <1>16 DEF Outcomes, StackOK
<1> QED BY <1>1, <1>17 DEF Out

LEMMA FewerAttended ==
  ASSUME NEW r, NEW hands, Attended(r, hands), NEW s, s.resumed = r.resumed, NEW fewer, fewer \subseteq hands
  PROVE  Attended(s, fewer)
<1>1. IsFiniteSet(fewer) /\ Cardinality(fewer) <= Cardinality(hands) /\ Cardinality(fewer) \in Nat /\ Cardinality(hands) \in Nat
  BY FS_Subset, FS_CardinalityType DEF Attended
<1> QED BY <1>1 DEF Attended

(* What an interrupt unwinds through: the queue, and batches and handlers. *)
LEMMA LeftBehind ==
  ASSUME Typed(rt), stack \in Seq(Frames(Size(rt))), NEW b, b \in 1..Len(stack), NEW u, u = To(stack, b - 1),
         NEW use, Linked(rt, use, JobsOn(stack), HandsOn(stack), {}), FramesOK(rt, use, stack),
         NEW gone, gone = jobsFrom(b)
  PROVE  /\ \A n \in 1..Len(rt.jobQueue) : rt.jobQueue[n] \in gone
         /\ \A job \in JobsOn(stack) : job \in JobsOn(u) \/ job \in gone
         /\ \A k \in HandsOn(stack) : k \in HandsOn(u) \/ InBatch(gone, k)
         /\ \A job \in gone : Belongs(rt, use, job)
<1>1. Len(stack) \in Nat /\ Len(u) = b - 1 /\ \A i \in 1..(b - 1) : u[i] = stack[i]
  BY DEF To
<1>2. \A i \in 1..Len(stack) : i \in 1..(b - 1) \/ i \in b..Len(stack)
  BY <1>1
<1>3. \A i \in b..Len(stack) : i \in 1..Len(stack)
  BY <1>1
<1>40. \A f \in Frames(Size(rt)) : f.batch \in Seq(JobsOf(Size(rt)))
  BY DEF Frames
<1>41. \A i \in b..Len(stack) : stack[i].batch \in Seq(JobsOf(Size(rt)))
  BY <1>3, <1>40, ElementOfSeq
<1>42. rt.jobQueue \in Seq(JobsOf(Size(rt)))
  BY DEF Typed
<1>43. \A F, s : s \in Seq(F) => \A job : job \in ToSet(s) <=> \E n \in 1..Len(s) : job = s[n]
  BY DEF ToSet
<1>44. \A job : job \in gone <=>
        \/ job \in ToSet(rt.jobQueue)
        \/ \E j \in b..Len(stack) : job \in ToSet(stack[j].batch)
        \/ \E j \in b..Len(stack) : stack[j].k = "handler" /\ job = stack[j].job
  BY Zenon DEF jobsFrom
<1>4. \A job : job \in gone <=>
        \/ \E n \in 1..Len(rt.jobQueue) : job = rt.jobQueue[n]
        \/ \E j \in b..Len(stack) : \E i \in 1..Len(stack[j].batch) : job = stack[j].batch[i]
        \/ \E j \in b..Len(stack) : stack[j].k = "handler" /\ job = stack[j].job
  <2>1. \A job : job \in ToSet(rt.jobQueue) <=> \E n \in 1..Len(rt.jobQueue) : job = rt.jobQueue[n]
    BY <1>42, <1>43
  <2>2. \A j \in b..Len(stack) : \A job :
          job \in ToSet(stack[j].batch) <=> \E i \in 1..Len(stack[j].batch) : job = stack[j].batch[i]
    BY <1>41, <1>43
  <2> TAKE job
  <2>3. (\E j \in b..Len(stack) : job \in ToSet(stack[j].batch))
          <=> \E j \in b..Len(stack) : \E i \in 1..Len(stack[j].batch) : job = stack[j].batch[i]
    <3> DEFINE A(j) == job \in ToSet(stack[j].batch)
               B(j) == \E i \in 1..Len(stack[j].batch) : job = stack[j].batch[i]
    <3>1. \A j \in b..Len(stack) : A(j) <=> B(j)
      BY <2>2
    <3> HIDE DEF A, B
    <3>2. (\E j \in b..Len(stack) : A(j)) <=> \E j \in b..Len(stack) : B(j)
      BY <3>1
    <3> QED BY <3>2 DEF A, B
  <2>4. job \in ToSet(rt.jobQueue) <=> \E n \in 1..Len(rt.jobQueue) : job = rt.jobQueue[n]
    BY <2>1, Zenon
  <2>5. job \in gone <=>
          \/ job \in ToSet(rt.jobQueue)
          \/ \E j \in b..Len(stack) : job \in ToSet(stack[j].batch)
          \/ \E j \in b..Len(stack) : stack[j].k = "handler" /\ job = stack[j].job
    BY <1>44, Zenon
  <2> QED BY ONLY <2>3, <2>4, <2>5, Zenon
<1>5. ASSUME NEW job \in JobsOn(stack) PROVE job \in JobsOn(u) \/ job \in gone
  <2>1. PICK j \in 1..Len(stack) : \E i \in 1..Len(stack[j].batch) : job = stack[j].batch[i]
    BY <1>5 DEF JobsOn
  <2>2. CASE j \in 1..(b - 1)
    <3>1. j \in 1..Len(u) /\ u[j] = stack[j]
      BY <1>1, <2>2
    <3>2. PICK i \in 1..Len(stack[j].batch) : job = stack[j].batch[i]
      BY <2>1
    <3>3. OnBatch(u, j, i, job)
      BY <3>1, <3>2 DEF OnBatch
    <3> QED BY <3>3, JobsBy
  <2>3. CASE j \in b..Len(stack)
    BY <1>4, <2>1, <2>3
  <2> QED BY <1>2, <2>2, <2>3
<1>6. ASSUME NEW k \in HandsOn(stack) PROVE k \in HandsOn(u) \/ InBatch(gone, k)
  <2>1. PICK j \in 1..Len(stack) : HandlerAt(stack, j) /\ k = stack[j].job.cap
    BY <1>6 DEF HandsOn
  <2>2. CASE j \in 1..(b - 1)
    BY <1>1, <2>1, <2>2 DEF HandsOn, HandlerAt
  <2>3. CASE j \in b..Len(stack)
    <3>1. stack[j].job \in gone /\ IsReaction(stack[j].job)
      BY <1>4, <2>1, <2>3 DEF HandlerAt
    <3> QED BY <2>1, <3>1 DEF InBatch
  <2> QED BY <1>2, <2>2, <2>3
<1>7. ASSUME NEW job \in gone PROVE Belongs(rt, use, job)
  <2>1. CASE \E n \in 1..Len(rt.jobQueue) : job = rt.jobQueue[n]
    <3>1. JobOK(rt, use, job)
      BY <2>1 DEF Linked, QueueOK
    <3> QED BY <3>1, JobReacts
  <2>2. ASSUME NEW j \in b..Len(stack), NEW i \in 1..Len(stack[j].batch), job = stack[j].batch[i]
        PROVE  Belongs(rt, use, job)
    <3>1. job \in JobsOn(stack)
      BY <1>3, <2>2 DEF JobsOn
    <3>2. JobOK(rt, use, job)
      BY <3>1 DEF Linked, BatchesOK
    <3> QED BY <3>2, JobReacts
  <2>3. ASSUME NEW j \in b..Len(stack), stack[j].k = "handler", job = stack[j].job
        PROVE  Belongs(rt, use, job)
    <3>1. FrameOK(rt, use, stack[j])
      BY <1>3, <2>3 DEF FramesOK
    <3>2. CASE IsReaction(job)
      BY <2>3, <3>1, <3>2, JobReacts DEF FrameOK
    <3>3. CASE ~IsReaction(job)
      BY <3>3 DEF Belongs
    <3> QED BY <3>2, <3>3
  <2> QED BY <1>4, <2>1, <2>2, <2>3
<1>8. \A n \in 1..Len(rt.jobQueue) : rt.jobQueue[n] \in gone
  BY <1>4
<1> QED BY <1>5, <1>6, <1>7, <1>8

LEMMA InterruptOut ==
  ASSUME Inv, NEW use, Outcomes(rt, use, held, stack), Interrupt
  PROVE  Out'
<1> DEFINE b == Caught
           s == [rt EXCEPT !.jobQueue = <<>>]
           gone == jobsFrom(b)
           lost == rt.lost \cup gone
<1>1. /\ stack # <<>> /\ stack' = To(stack, b - 1) /\ held' = held
      /\ rt' = [rt EXCEPT !.jobQueue = <<>>, !.lost = @ \cup gone]
  BY DEF Interrupt, To
<1>2. Good(rt, Busy(stack)) /\ Typed(rt) /\ stack \in Seq(Frames(Size(rt))) /\ Stacked(Size(rt), stack)
  BY StackTyped
<1>3. b \in 1..Len(stack) /\ Depth(stack, b - 1)
  BY <1>1, Unwound
<1>4. rt' = [s EXCEPT !.lost = lost] /\ Shape(rt)
  BY <1>1, <1>2 DEF Typed, Shape
<1>5. Only(rt, s, {"jobQueue"}) /\ s.jobQueue = <<>> /\ NoQueue(s, rt)
  BY <1>4, Set_jobQueue, Zenon DEF NoQueue
<1> HIDE DEF s, lost
<1>6. Only(s, rt', {"lost"}) /\ rt'.lost = lost
  <2>1. Shape(s)
    BY <1>5 DEF Only
  <2> QED BY <1>4, <2>1, Set_lost
<1>7. Only(rt, rt', {"jobQueue", "lost"}) /\ rt'.jobQueue = <<>> /\ rt'.lost = rt.lost \cup gone
  BY <1>5, <1>6 DEF Only, lost
<1>8. Keeps(rt, rt')
  BY InterruptStep DEF Emptied
<1>9. /\ Linked(rt, use, JobsOn(stack), HandsOn(stack), {}) /\ FramesOK(rt, use, stack) /\ BatchesOnce(stack)
      /\ HandsOnce(stack) /\ Fins(rt, use) /\ Untried(rt) /\ Attended(rt, HandsOn(stack))
  BY LinkedNow
<1>10. Fewer(stack', stack)
  BY <1>1, <1>2, <1>3, CutPlaces
<1>11. /\ JobsOn(stack') \subseteq JobsOn(stack) /\ HandsOn(stack') \subseteq HandsOn(stack)
       /\ BatchesOnce(stack') /\ HandsOnce(stack')
  BY <1>9, <1>10 DEF Fewer
<1>12. Linked(rt', use, JobsOn(stack'), HandsOn(stack'), {})
  <2>1. /\ \A n \in 1..Len(rt.jobQueue) : rt.jobQueue[n] \in gone
        /\ \A job \in JobsOn(stack) : job \in JobsOn(stack') \/ job \in gone
        /\ \A k \in HandsOn(stack) : k \in HandsOn(stack') \/ InBatch(gone, k)
        /\ \A job \in gone : Belongs(rt, use, job)
    BY <1>1, <1>2, <1>3, <1>9, LeftBehind
  <2>2. \A k : InBatch(gone, k) => Missed(rt', k)
    BY <1>7 DEF InBatch, Missed
  <2> HIDE DEF gone
  <2> QED BY <1>2, <1>7, <1>9, <1>11, <2>1, <2>2, DropLinked
<1>13. Ext(use, use, rt) /\ rt'.finals = rt.finals /\ rt'.resumed = rt.resumed /\ PairsOf(rt') = PairsOf(rt)
  BY <1>7 DEF Ext, Only, PairsOf
<1>14. Fins(rt', use)
  BY <1>8, <1>9, <1>13, FinsStay
<1>15. Untried(rt')
  BY <1>8, <1>9, <1>13, UntriedStays
<1>16. Attended(rt', HandsOn(stack'))
  BY <1>9, <1>11, <1>13, FewerAttended
<1>17. Sound(rt', use, JobsOn(stack'), HandsOn(stack'))
  BY <1>12, <1>14, <1>15, <1>16 DEF Sound
<1>18. Uses(rt, use) /\ HandsOK(rt', use, HandsOn(stack'))
  BY <1>9, <1>12 DEF Linked
<1>19. FramesOK(rt, use, stack')
  BY <1>1, <1>2, <1>3, <1>9, FramesCut
<1>20. FramesOK(rt', use, stack')
  BY <1>8, <1>13, <1>18, <1>19, FramesStay
<1>21. \A f \in held : Public(rt', use, f)
  BY <1>8, <1>13, LinkedNow, PublicStays
<1>22. Outcomes(rt', use, held, stack')
  BY <1>7, <1>11, <1>17, <1>20, <1>21 DEF Outcomes, StackOK
<1> QED BY <1>1, <1>22 DEF Out

(* Jobs: what is right afterwards, with a stack of any kind.               *)
LEMMA AfterOutcomes ==
  ASSUME NEW r, NEW use, NEW h, NEW st, Outcomes(r, use, h, st), NEW s, Keeps(r, s), NEW v, Ext(use, v, r),
         NEW u, FramesOK(r, use, u), BatchesOnce(u), HandsOnce(u), u # <<>>,
         Linked(s, v, JobsOn(u), HandsOn(u), {}), Fins(s, v), Untried(s), Attended(s, HandsOn(u))
  PROVE  Outcomes(s, v, h, u)
<1>1. Uses(r, use) /\ HandsOK(s, v, HandsOn(u)) /\ \A f \in h : Public(r, use, f)
  BY DEF Outcomes, Sound, Linked
<1>2. FramesOK(s, v, u)
  BY <1>1, FramesStay
<1>3. \A f \in h : Public(s, v, f)
  BY <1>1, PublicStays
<1>4. Sound(s, v, JobsOn(u), HandsOn(u))
  BY DEF Sound
<1> QED BY <1>2, <1>3, <1>4 DEF Outcomes, StackOK

LEMMA TakenNow ==
  ASSUME Inv, NEW use, Outcomes(rt, use, held, stack), NEW kind, Taking(kind)
  PROVE  /\ Takes(JobsOn(stack), JobsOn(After), TheJob) /\ HandsOn(After) = HandsOn(stack)
         /\ BatchesOnce(After) /\ HandsOnce(After) /\ FramesOK(rt, use, After) /\ After # <<>>
         /\ JobOK(rt, use, TheJob) /\ TheJob.k = kind /\ TheJob \in JobsOf(Size(rt))
         /\ Good(rt, Busy(After)) /\ After \in Seq(Frames(Size(rt)))
<1>1. /\ Stacked(Size(rt), stack) /\ stack # <<>> /\ Good(rt, Busy(stack)) /\ Busy(After) \subseteq Busy(stack)
      /\ Stacked(Size(rt), After) /\ rest \in Frames(Size(rt)) /\ After # <<>>
      /\ TheJob \in JobsOf(Size(rt)) /\ TheJob.k = kind
  BY JobTaken
<1>2. Batch(stack) # <<>> /\ Peek(stack).k = "leave" /\ TheJob = Head(Batch(stack)) /\ RestOf(rest, stack)
  BY DEF Taking, On, Batch, Peek, Top, TheJob, rest, RestOf
<1>3. Linked(rt, use, JobsOn(stack), HandsOn(stack), {}) /\ FramesOK(rt, use, stack) /\ BatchesOnce(stack)
      /\ HandsOnce(stack)
  BY LinkedNow
<1>4. rest.k = "leave"
  <2>1. stack \in Seq(Frames(Size(rt)))
    BY <1>1 DEF Stacked
  <2>2. Peek(stack) \in Frames(Size(rt))
    BY <1>1, OnTyped DEF Inv
  <2> QED BY <1>2, <2>2 DEF RestOf, Frames
<1> HIDE DEF rest
<1>5. /\ Takes(JobsOn(stack), JobsOn(After), TheJob) /\ HandsOn(After) = HandsOn(stack)
      /\ BatchesOnce(After) /\ HandsOnce(After)
  BY <1>1, <1>2, <1>3, RestPlaces DEF After
<1>6. FramesOK(rt, use, After)
  <2>1. FrameOK(rt, use, rest)
    BY <1>4 DEF FrameOK
  <2>2. stack \in Seq(Frames(Size(rt)))
    BY <1>1 DEF Stacked
  <2> QED BY <1>1, <1>3, <2>1, <2>2, FramesTopped DEF After
<1>7. JobOK(rt, use, TheJob)
  <2>1. TheJob \in JobsOn(stack)
    BY <1>5 DEF Takes
  <2>2. BatchesOK(rt, use, JobsOn(stack))
    BY <1>3 DEF Linked
  <2> HIDE DEF TheJob
  <2> QED BY <2>1, <2>2 DEF BatchesOK
<1> HIDE DEF After, TheJob
<1>8. Good(rt, Busy(After)) /\ After \in Seq(Frames(Size(rt)))
  BY <1>1, LessBusy DEF Stacked
<1> QED BY <1>1, <1>5, <1>6, <1>7, <1>8

LEMMA TakenReaction ==
  ASSUME Inv, NEW use, Outcomes(rt, use, held, stack), Taking("reaction"), NEW job, job = TheJob, NEW k, k = job.cap
  PROVE  /\ IsReaction(job) /\ k \notin HandsOn(stack) /\ k \in PairsOf(rt) /\ use[k].kind = "derived"
         /\ Gone(rt, use[k].p) /\ job = JobFor(rt, use, k)
         /\ Linked(rt, use, JobsOn(After), HandsOn(stack) \cup {k}, {})
         /\ Linked(resumed(rt), use, JobsOn(After), HandsOn(stack) \cup {k}, {})
<1>1. Takes(JobsOn(stack), JobsOn(After), job) /\ job.k = "reaction" /\ Good(rt, Busy(After)) /\ JobOK(rt, use, job)
  BY TakenNow
<1> HIDE DEF TheJob, After
<1>2. Linked(rt, use, JobsOn(stack), HandsOn(stack), {})
  BY LinkedNow
<1>3. IsReaction(job) /\ InBatch(JobsOn(stack), k)
  BY <1>1 DEF IsReaction, Takes, InBatch
<1>4. k \notin HandsOn(stack)
  BY <1>2, <1>3, ListedNotRun
<1>5. k \in PairsOf(rt) /\ use[k].kind = "derived" /\ Gone(rt, use[k].p) /\ job = JobFor(rt, use, k)
  BY <1>1, <1>3 DEF JobOK
<1>6. /\ Linked(rt, use, JobsOn(After), HandsOn(stack) \cup {job.cap}, {})
      /\ Linked(resumed(rt), use, JobsOn(After), HandsOn(stack) \cup {job.cap}, {})
  BY <1>1, <1>2, <1>3, TakenLinked
<1> QED BY <1>3, <1>4, <1>5, <1>6

LEMMA ResumedIs ==
  ASSUME NEW r, NEW busy, Good(r, busy)
  PROVE  Only(r, resumed(r), {"grabs", "resumed"}) /\ resumed(r).resumed = r.resumed + 1
<1> DEFINE g == [r EXCEPT !.grabs = @ - 1]
           u == [g EXCEPT !.resumed = @ + 1]
<1>1. u = resumed(r)
  BY DEF resumed
<1>2. Shape(r)
  BY DEF Good, Typed
<1>3. Only(r, g, {"grabs"})
  BY <1>2, Set_grabs
<1>4. Shape(g)
  BY <1>3 DEF Only
<1> HIDE DEF g
<1>5. Only(g, u, {"resumed"}) /\ u.resumed = g.resumed + 1
  BY <1>4, Set_resumed, Zenon
<1>6. Only(r, u, {"grabs", "resumed"}) /\ u.resumed = r.resumed + 1
  BY <1>3, <1>5 DEF Only
<1> QED BY <1>1, <1>6, Zenon

(* The end of a reaction's job that ran no user code, or of its handler.   *)
LEMMA HandsBack ==
  ASSUME NEW H, NEW k, k \notin H PROVE (H \cup {k}) \ {k} = H
OBVIOUS

LEMMA RunReactionOut ==
  ASSUME Inv, NEW use, Outcomes(rt, use, held, stack), RunReaction
  PROVE  Out'
<1> DEFINE job == TheJob
           k == job.cap
           h == job.handler
           a == resumed(rt)
           H == HandsOn(stack)
<1>1. Taking("reaction") /\ stack' = After /\ held' = held
  BY DEF RunReaction, After, OnTop, To, below
<1>2. \/ h.f = "none" /\ rt' = settle(rt, k, job.typ = "fulfill", job.arg)
      \/ h.f \in Internal /\ rt' = settle(exited(call(a, h, job.arg)), k, h.f # "thrower", h.x)
  BY DEF RunReaction, TheJob
<1>3. /\ HandsOn(After) = H /\ BatchesOnce(After) /\ HandsOnce(After) /\ FramesOK(rt, use, After) /\ After # <<>>
      /\ job \in JobsOf(Size(rt)) /\ Good(rt, Busy(After))
  BY <1>1, TakenNow
<1>4. /\ k \notin H /\ k \in PairsOf(rt) /\ Gone(rt, use[k].p) /\ job = JobFor(rt, use, k)
      /\ Linked(rt, use, JobsOn(After), H \cup {k}, {}) /\ Linked(a, use, JobsOn(After), H \cup {k}, {})
  BY <1>1, TakenReaction
<1>5. Fins(rt, use) /\ Untried(rt) /\ Attended(rt, H) /\ k \in H \cup {k} /\ (H \cup {k}) \ {k} = H
  BY <1>4, LinkedNow, HandsBack
<1>6. Ext(use, use, rt)
  BY DEF Ext
<1> HIDE DEF H, After, job
<1>7. /\ Linked(rt', use, JobsOn(After), H, {}) /\ Grown(rt, rt') /\ Size(rt') = Size(rt)
      /\ rt'.finals = rt.finals /\ rt'.resumed = rt.resumed
  <2>1. CASE h.f = "none" /\ rt' = settle(rt, k, job.typ = "fulfill", job.arg)
    <3>1. Linked(rt', use, JobsOn(After), (H \cup {k}) \ {k}, {}) /\ EndsWith(rt, rt', rt.resumed)
      BY <1>3, <1>4, <1>5, <2>1, PlainEnd, Zenon
    <3> QED BY <1>5, <3>1 DEF EndsWith
  <2>2. CASE h.f \in Internal /\ rt' = settle(exited(call(a, h, job.arg)), k, h.f # "thrower", h.x)
    <3>1. Good(a, Busy(After)) /\ Grown(rt, a) /\ Size(a) = Size(rt)
      BY <1>3, Counting
    <3>2. Only(rt, a, {"grabs", "resumed"}) /\ a.resumed = rt.resumed + 1
      BY <1>3, ResumedIs
    <3> HIDE DEF a, k, h
    <3>3. Gone(a, use[k].p) /\ JobFor(a, use, k) = JobFor(rt, use, k) /\ a.finals = rt.finals
      BY <1>4, <3>2 DEF Only, Gone, Now, JobFor, ResultOf
    <3>4. h = job.handler /\ h \in Functions(Size(a))
      <4>1. job.handler \in Functions(Size(rt))
        BY <1>3, JobParts DEF Good
      <4> QED BY <3>1, <4>1 DEF h
    <3>5. Linked(rt', use, JobsOn(After), (H \cup {k}) \ {k}, {}) /\ EndsWith(a, rt', a.resumed - 1)
      <4>1. job = JobFor(a, use, k) /\ k \in H \cup {k}
        BY <1>4, <3>3
      <4> QED BY <1>4, <2>2, <3>1, <3>3, <3>4, <4>1, InternalEnd
    <3>6. Grown(rt, rt')
      BY <3>1, <3>5, GrownOn DEF EndsWith
    <3>7. rt.resumed \in Nat
      BY <1>5 DEF Attended
    <3>8. rt'.resumed = rt.resumed
      BY <3>2, <3>5, <3>7 DEF EndsWith
    <3> QED BY <1>5, <3>1, <3>3, <3>5, <3>6, <3>8 DEF EndsWith
  <2>3. \/ h.f = "none" /\ rt' = settle(rt, k, job.typ = "fulfill", job.arg)
        \/ h.f \in Internal /\ rt' = settle(exited(call(a, h, job.arg)), k, h.f # "thrower", h.x)
    BY <1>2
  <2> HIDE DEF a, k, h
  <2> QED BY ONLY <2>1, <2>2, <2>3
<1>8. Keeps(rt, rt')
  BY <1>7, GrownKeeps
<1>9. Fins(rt', use)
  <2>1. \A m \in PairsOf(rt') : m \in PairsOf(rt) \/ NotFin(use[m])
    <3>1. Len(rt'.pairs) = Len(rt.pairs)
      BY <1>7 DEF Size
    <3> QED BY <3>1 DEF PairsOf
  <2> QED BY <1>5, <1>6, <1>7, <1>8, <2>1, FinsStay
<1>10. Untried(rt')
  BY <1>5, <1>7, <1>8, UntriedStays
<1>11. Attended(rt', HandsOn(After))
  BY <1>3, <1>5, <1>7 DEF Attended
<1>12. Outcomes(rt', use, held, After)
  BY <1>3, <1>6, <1>7, <1>8, <1>9, <1>10, <1>11, AfterOutcomes
<1> QED BY <1>1, <1>12 DEF Out

(* The reaction whose handler begins.                                      *)
LEMMA OneMoreAttended ==
  ASSUME NEW r, NEW H, Attended(r, H), NEW k, k \notin H, NEW s, s.resumed = r.resumed + 1
  PROVE  Attended(s, H \cup {k})
<1>1. IsFiniteSet(H) /\ r.resumed \in Nat /\ Cardinality(H) <= r.resumed
  BY DEF Attended
<1>2. IsFiniteSet(H \cup {k}) /\ Cardinality(H \cup {k}) = Cardinality(H) + 1 /\ Cardinality(H) \in Nat
  BY <1>1, FS_AddElement, FS_CardinalityType
<1> QED BY <1>1, <1>2 DEF Attended

LEMMA OneLessAttended ==
  ASSUME NEW r, NEW H, Attended(r, H), NEW k \in H, NEW s, OneLess(r, s)
  PROVE  Attended(s, H \ {k})
<1>1. IsFiniteSet(H) /\ r.resumed \in Nat /\ Cardinality(H) <= r.resumed
  BY DEF Attended
<1>2. IsFiniteSet(H \ {k}) /\ Cardinality(H \ {k}) = Cardinality(H) - 1 /\ Cardinality(H) \in Nat
  BY <1>1, FS_RemoveElement, FS_CardinalityType
<1>3. Cardinality(H) # 0
  BY <1>1, FS_EmptySet
<1> QED BY <1>1, <1>2, <1>3 DEF Attended, OneLess

LEMMA BeginHandlerOut ==
  ASSUME Inv, NEW use, Outcomes(rt, use, held, stack), BeginHandler
  PROVE  Out'
<1> DEFINE job == TheJob
           k == job.cap
           js == job.handler.f # "go"
           f == Frame("handler", js, FALSE, <<>>, job, 0)
           H == HandsOn(stack)
<1>1. /\ Taking("reaction") /\ stack' = below \o <<rest, f>> /\ held' = held /\ rt' = resumed(rt)
      /\ job.handler.f \notin Internal \cup {"none"}
  BY DEF BeginHandler, TheJob
<1>2. /\ HandsOn(After) = H /\ BatchesOnce(After) /\ HandsOnce(After) /\ FramesOK(rt, use, After) /\ After # <<>>
      /\ job \in JobsOf(Size(rt)) /\ Good(rt, Busy(After)) /\ After \in Seq(Frames(Size(rt))) /\ JobOK(rt, use, job)
  BY <1>1, TakenNow
<1>3. k \notin H /\ IsReaction(job) /\ Linked(rt', use, JobsOn(After), H \cup {k}, {})
  BY <1>1, TakenReaction, Zenon
<1>4. Fins(rt, use) /\ Untried(rt) /\ Attended(rt, H)
  BY LinkedNow
<1>5. Ext(use, use, rt)
  BY DEF Ext
<1> HIDE DEF H, job
<1>6. f.batch = <<>> /\ f.k = "handler" /\ f.job = job
  BY DEF Frame
<1>7. Grown(rt, rt') /\ Size(rt') = Size(rt) /\ rt'.finals = rt.finals /\ rt'.resumed = rt.resumed + 1
  BY <1>1, <1>2, Counting, ResumedIs, Zenon DEF Only
<1>8. stack' = Append(After, f)
  <2>1. f \in Frames(Size(rt'))
    <3>1. AtMost(Size(rt'), Size(rt')) /\ job \in JobsOf(Size(rt')) /\ js \in BOOLEAN
      <4>1. Good(rt', Busy(After))
        BY <1>1, <1>2, Counting
      <4> QED BY <1>2, <1>7, <4>1, Sizes DEF Good
    <3> HIDE DEF f, js
    <3>2. f = Frame("handler", js, FALSE, <<>>, job, 0)
      BY DEF f
    <3> QED BY <1>2, <3>1, <3>2, <1>3, HandlerFrame, Zenon DEF IsReaction
  <2> HIDE DEF f
  <2> QED BY <1>1, <1>7, <2>1, StackOfTwo, Zenon
<1>9. FrameOK(rt, use, f)
  BY <1>1, <1>2, <1>3, <1>6, Zenon DEF FrameOK
<1> HIDE DEF f
<1>10. /\ JobsOn(stack') = JobsOn(After) /\ HandsOn(stack') = H \cup {k}
       /\ BatchesOnce(stack') /\ HandsOnce(stack')
  BY <1>2, <1>3, <1>6, <1>8, PushHandler, Zenon
<1>11. FramesOK(rt, use, stack') /\ stack' # <<>>
  BY <1>2, <1>8, <1>9, FramesPushed, Zenon
<1>12. Keeps(rt, rt')
  BY <1>7, GrownKeeps
<1>13. Fins(rt', use)
  <2>1. \A m \in PairsOf(rt') : m \in PairsOf(rt) \/ NotFin(use[m])
    BY <1>7 DEF Size, PairsOf
  <2> QED BY <1>4, <1>5, <1>7, <1>12, <2>1, FinsStay
<1>14. Untried(rt')
  BY <1>4, <1>7, <1>12, UntriedStays
<1>15. Attended(rt', HandsOn(stack'))
  BY <1>3, <1>4, <1>7, <1>10, OneMoreAttended
<1>16. Outcomes(rt', use, held, stack')
  BY <1>3, <1>5, <1>10, <1>11, <1>12, <1>13, <1>14, <1>15, AfterOutcomes
<1> QED BY <1>1, <1>16 DEF Out

LEMMA RunThenableOut ==
  ASSUME Inv, NEW use, Outcomes(rt, use, held, stack), RunThenable
  PROVE  Out'
<1> DEFINE job == TheJob
           c == newPair(rt, job.cap)
           k == Len(c.pairs)
           f == Frame("handler", TRUE, FALSE, <<>>, job, k)
           H == HandsOn(stack)
<1>1. /\ Taking("thenable")
      /\ \/ /\ job.arg.t = "promise" /\ stack' = After
            /\ rt' = then(c, job.arg.n, ResolveFn(k), RejectFn(k)) /\ held' = held
         \/ /\ job.arg.t = "thenable" /\ rt' = c /\ held' = held \cup {ResolveFn(k), RejectFn(k)}
            /\ stack' = below \o <<rest, f>>
  BY Zenon DEF RunThenable, TheJob, After, OnTop, To, below
<1>2. /\ HandsOn(After) = H /\ BatchesOnce(After) /\ HandsOnce(After) /\ FramesOK(rt, use, After) /\ After # <<>>
      /\ job \in JobsOf(Size(rt)) /\ Good(rt, Busy(After)) /\ After \in Seq(Frames(Size(rt)))
      /\ Takes(JobsOn(stack), JobsOn(After), job) /\ job.k = "thenable"
  BY <1>1, TakenNow
<1>3. Ready(rt, Busy(After), job.cap)
  BY <1>1, JobTaken, Unbusied, Zenon
<1>4. Linked(rt, use, JobsOn(stack), H, {}) /\ Fins(rt, use) /\ Untried(rt) /\ Attended(rt, H)
  BY LinkedNow
<1> HIDE DEF H, job
<1>5. job.arg \in Values(Size(rt))
  BY <1>2, JobParts DEF Good
<1>6. ASSUME NEW s, NEW v, Ext(use, v, rt), Linked(s, v, JobsOn(After), H, {}), Fins(s, v),
             s.finals = rt.finals, s.resumed = rt.resumed, Grown(rt, s)
      PROVE  Outcomes(s, v, held, After)
  <2>1. Keeps(rt, s)
    BY <1>6, GrownKeeps
  <2>2. Untried(s)
    BY <1>4, <1>6, <2>1, UntriedStays
  <2>3. Attended(s, HandsOn(After))
    BY <1>2, <1>4, <1>6 DEF Attended
  <2> QED BY <1>2, <1>6, <2>1, <2>2, <2>3, AfterOutcomes
<1>7. CASE /\ job.arg.t = "promise" /\ stack' = After
           /\ rt' = then(c, job.arg.n, ResolveFn(k), RejectFn(k)) /\ held' = held
  <2> HIDE DEF After
  <2>1. PICK v : /\ Ext(use, v, rt) /\ Linked(rt', v, JobsOn(After), H, {}) /\ Fins(rt', v)
                 /\ rt'.finals = rt.finals /\ rt'.resumed = rt.resumed /\ Grown(rt, rt')
    BY <1>2, <1>3, <1>4, <1>5, <1>7, AdoptingThen
  <2>2. Outcomes(rt', v, held, After)
    BY <1>6, <2>1
  <2> QED BY <1>7, <2>2 DEF Out
<1>8. CASE /\ job.arg.t = "thenable" /\ rt' = c /\ held' = held \cup {ResolveFn(k), RejectFn(k)}
           /\ stack' = below \o <<rest, f>>
  <2>1. PICK v : /\ Ext(use, v, rt) /\ Linked(rt', v, JobsOn(After), H, {}) /\ Fins(rt', v)
                 /\ rt'.finals = rt.finals /\ rt'.resumed = rt.resumed /\ Grown(rt, rt')
                 /\ k \in PairsOf(rt') /\ v[k].kind = "open"
    <3>1. rt' = newPair(rt, job.cap) /\ k = Len(rt'.pairs) /\ job.arg.t # "promise"
      BY <1>8
    <3> HIDE DEF After, f, k, c
    <3> QED BY <1>2, <1>3, <1>4, <3>1, ThenableCalled
  <2>2. Outcomes(rt', v, held, After)
    BY <1>6, <2>1
  <2>3. Good(rt', Busy(After)) /\ After \in Seq(Frames(Size(rt')))
    <3>1. Good(rt', Busy(After))
      BY <1>2, <1>3, <1>8, NewPair
    <3>2. Stacked(Size(rt), After) /\ Good(rt, {})
      BY <1>1, JobTaken, LessBusy
    <3> HIDE DEF After, c, k, f
    <3>3. Stacked(Size(rt'), After)
      BY <2>1, <3>1, <3>2, Kept
    <3> QED BY <3>1, <3>3 DEF Stacked
  <2>4. f \in Frames(Size(rt'))
    <3>1. AtMost(Size(rt'), Size(rt')) /\ job \in JobsOf(Size(rt')) /\ k \in Nat /\ k \in 1..Size(rt').k
      BY <1>2, <2>1, <2>3, Sizes, StillTyped DEF Good, PairsOf
    <3> HIDE DEF f, k
    <3>2. f = Frame("handler", TRUE, FALSE, <<>>, job, k)
      BY DEF f
    <3> QED BY <3>1, <3>2, HandlerFrame, Zenon
  <2>5. f.batch = <<>> /\ f.k = "handler" /\ f.job = job /\ f.n = k
    BY DEF Frame
  <2> HIDE DEF f
  <2>6. stack' = Append(After, f)
    BY <1>1, <1>8, <2>1, <2>4, StackOfTwo, Zenon
  <2>7. Calm(f) /\ FrameOK(rt', v, f)
    BY <1>2, <2>1, <2>5 DEF Calm, FrameOK, IsReaction
  <2>8. Outcomes(rt', v, held, stack')
    BY <2>2, <2>3, <2>6, <2>7, PushOutcomes, Zenon
  <2>9. Public(rt', v, ResolveFn(k)) /\ Public(rt', v, RejectFn(k))
    BY <2>1, PairPublic
  <2> HIDE DEF k
  <2>10. Outcomes(rt', v, held', stack')
    BY <1>8, <2>8, <2>9, GivenOut
  <2> QED BY <2>10 DEF Out
<1> QED BY <1>1, <1>7, <1>8, Zenon

(* The end of a handler.                                                   *)
LEMMA Handled ==
  ASSUME Inv, NEW use, Outcomes(rt, use, held, stack), On("handler"), NEW job, job = Top.job, NEW k, k = job.cap
  PROVE  /\ Good(rt, Busy(stack)) /\ stack # <<>> /\ stack \in Seq(Frames(Size(rt))) /\ Len(stack) # 1
         /\ below = To(stack, Len(stack) - 1) /\ job \in JobsOf(Size(rt))
         /\ FramesOK(rt, use, below) /\ below # <<>> /\ JobsOn(below) = JobsOn(stack)
         /\ BatchesOnce(below) /\ HandsOnce(below)
         /\ ~IsReaction(job) => /\ Calm(Peek(stack)) /\ job.k = "thenable" /\ HasPair(rt, Top.n) /\ use[Top.n].kind = "open"
         /\ IsReaction(job) => /\ k \in HandsOn(stack) /\ HandsOn(below) = HandsOn(stack) \ {k}
                               /\ Gone(rt, use[k].p) /\ job = JobFor(rt, use, k)
                               /\ job.handler.f \notin Internal \cup {"none"}
<1>1. Good(rt, Busy(stack)) /\ stack # <<>> /\ job \in JobsOf(Size(rt))
  BY Handling
<1>2. Peek(stack) = Top /\ Peek(stack).k = "handler"
  BY DEF On, Top, Peek
<1>3. stack \in Seq(Frames(Size(rt))) /\ Stacked(Size(rt), stack) /\ Typed(rt)
  BY StackTyped
<1>4. Len(stack) # 1 /\ Len(stack) \in Nat /\ Len(stack) # 0
  BY <1>1, <1>2, <1>3, Inner
<1>5. FramesOK(rt, use, stack) /\ BatchesOnce(stack) /\ HandsOnce(stack)
  BY LinkedNow
<1>6. FrameOK(rt, use, Peek(stack))
  BY <1>4, <1>5 DEF FramesOK, Peek
<1>7. below = To(stack, Len(stack) - 1)
  BY DEF below, To
<1>8. Depth(stack, Len(stack) - 1) /\ below # <<>>
  <2>1. Depth(stack, Len(stack) - 1) /\ Len(stack) - 1 # 0
    BY <1>4 DEF Depth
  <2>2. Len(below) = Len(stack) - 1
    BY <1>3, <1>7, <2>1, Cut
  <2> QED BY <2>1, <2>2, EmptySeq
<1>9. FramesOK(rt, use, below)
  BY <1>3, <1>5, <1>7, <1>8, FramesCut
<1> HIDE DEF below
<1>10. Peek(stack).batch = <<>> /\ Peek(stack).job = job
  BY <1>2, <1>6 DEF FrameOK
<1>11. /\ Fewer(below, stack) /\ JobsOn(below) = JobsOn(stack)
       /\ ~Calm(Peek(stack)) => k \in HandsOn(stack) /\ HandsOn(below) = HandsOn(stack) \ {k}
  BY <1>1, <1>3, <1>5, <1>7, <1>10, PopPlaces
<1>12. BatchesOnce(below) /\ HandsOnce(below)
  BY <1>5, <1>11 DEF Fewer
<1>13. CASE IsReaction(job)
  <2>1. ~Calm(Peek(stack))
    BY <1>2, <1>10, <1>13 DEF Calm
  <2>2. JobOK(rt, use, job) /\ job.handler.f \notin Internal \cup {"none"}
    BY <1>2, <1>6, <1>10, <1>13 DEF FrameOK
  <2>3. Gone(rt, use[k].p) /\ job = JobFor(rt, use, k)
    BY <1>13, <2>2 DEF JobOK
  <2> QED BY <1>1, <1>3, <1>4, <1>7, <1>8, <1>9, <1>11, <1>12, <1>13, <2>1, <2>2, <2>3
<1>14. CASE ~IsReaction(job)
  <2>1. Calm(Peek(stack))
    BY <1>10, <1>14 DEF Calm
  <2>2. job.k = "thenable" /\ Top.n \in PairsOf(rt) /\ use[Top.n].kind = "open"
    BY <1>2, <1>6, <1>10, <1>14 DEF FrameOK
  <2>3. HasPair(rt, Top.n)
    BY <2>2 DEF HasPair, PairsOf
  <2> QED BY <1>1, <1>3, <1>4, <1>7, <1>8, <1>9, <1>11, <1>12, <1>14, <2>1, <2>2, <2>3
<1> QED BY <1>13, <1>14

(* ... of a reaction: its pair has been used.                              *)
LEMMA EndedOut ==
  ASSUME Inv, NEW use, Outcomes(rt, use, held, stack), On("handler"), IsReaction(Top.job), NEW k, k = Top.job.cap,
         stack' = below, held' = held, NEW v, Ext(use, v, rt), Linked(rt', v, JobsOn(stack), HandsOn(stack) \ {k}, {}),
         Fins(rt', v), Untried(rt'), Grown(rt, rt'), OneLess(rt, rt')
  PROVE  Out'
<1>1. /\ FramesOK(rt, use, below) /\ below # <<>> /\ JobsOn(below) = JobsOn(stack)
      /\ BatchesOnce(below) /\ HandsOnce(below)
      /\ k \in HandsOn(stack) /\ HandsOn(below) = HandsOn(stack) \ {k}
  BY Handled
<1> HIDE DEF below
<1>2. Attended(rt, HandsOn(stack))
  BY LinkedNow
<1>3. Attended(rt', HandsOn(below))
  BY <1>1, <1>2, OneLessAttended
<1>4. Keeps(rt, rt')
  BY GrownKeeps
<1>5. Outcomes(rt', v, held, below)
  BY <1>1, <1>3, <1>4, AfterOutcomes, Zenon
<1> QED BY <1>5 DEF Out

LEMMA UserEnded ==
  ASSUME Inv, NEW use, Outcomes(rt, use, held, stack), On("handler"), NEW job, job = Top.job, IsReaction(job),
         job.handler.f \notin {"finThen", "finCatch"}, NEW ok \in BOOLEAN, NEW x, x \in Values(Size(rt)),
         rt' = settle(exited(rt), job.cap, ok, x), stack' = below, held' = held
  PROVE  Out'
<1> DEFINE k == job.cap
           h == job.handler
           H == HandsOn(stack)
<1>1. /\ Good(rt, Busy(stack)) /\ k \in H /\ Gone(rt, use[k].p) /\ job = JobFor(rt, use, k)
      /\ h.f \notin Internal \cup {"none"}
  BY Handled
<1>2. Linked(rt, use, JobsOn(stack), H, {}) /\ Fins(rt, use) /\ Untried(rt)
  BY LinkedNow
<1>3. h = Chosen(rt, use, k)
  BY <1>1, JobParts2
<1>4. h.f \notin Internal \cup {"none", "finThen", "finCatch"} /\ rt' = settle(exited(rt), k, ok, x)
  BY <1>1
<1> HIDE DEF k, h, H
<1>5. Linked(rt', use, JobsOn(stack), H \ {k}, {}) /\ EndsWith(rt, rt', rt.resumed - 1)
  BY <1>1, <1>2, <1>3, <1>4, UserEnd
<1>6. Ext(use, use, rt) /\ Keeps(rt, rt') /\ rt'.finals = rt.finals
  BY <1>5, GrownKeeps DEF Ext, EndsWith
<1>7. Fins(rt', use)
  <2>1. \A m \in PairsOf(rt') : m \in PairsOf(rt) \/ NotFin(use[m])
    BY <1>5 DEF Size, PairsOf, EndsWith
  <2> QED BY <1>2, <1>6, <2>1, FinsStay
<1>8. Untried(rt')
  BY <1>2, <1>6, UntriedStays
<1>9. k = Top.job.cap /\ IsReaction(Top.job) /\ Grown(rt, rt') /\ OneLess(rt, rt')
  BY <1>5 DEF k, EndsWith, OneLess
<1> QED BY <1>5, <1>6, <1>7, <1>8, <1>9, EndedOut DEF H

LEMMA HandlerReturnsOut ==
  ASSUME Inv, NEW use, Outcomes(rt, use, held, stack), NEW x \in Args, HandlerReturns(x)
  PROVE  Out'
<1> DEFINE job == Top.job
           k == job.cap
           h == job.handler
           fin == finallyResult(rt, job, x)
           H == HandsOn(stack)
<1>1. On("handler") /\ stack' = below /\ held' = held
  BY DEF HandlerReturns
<1>2. /\ job.k = "thenable" => rt' = rt
      /\ job.k # "thenable" /\ h.f \in {"finThen", "finCatch"} => rt' = settle(exited(fin.r), k, TRUE, fin.x)
      /\ job.k # "thenable" /\ h.f \notin {"finThen", "finCatch"} => rt' = settle(exited(rt), k, TRUE, x)
  BY Zenon DEF HandlerReturns
<1>3. x \in Values(Size(rt))
  BY ArgsTyped
<1>4. /\ Good(rt, Busy(stack)) /\ stack # <<>> /\ stack \in Seq(Frames(Size(rt))) /\ Len(stack) # 1
      /\ below = To(stack, Len(stack) - 1)
      /\ ~IsReaction(job) => Calm(Peek(stack)) /\ job.k = "thenable"
      /\ IsReaction(job) => k \in H /\ Gone(rt, use[k].p) /\ job = JobFor(rt, use, k)
  BY <1>1, Handled
<1>5. Linked(rt, use, JobsOn(stack), H, {}) /\ Fins(rt, use) /\ Untried(rt)
  BY LinkedNow
<1>6. CASE ~IsReaction(job)
  <2>1. rt' = rt
    BY <1>2, <1>4, <1>6
  <2>2. Outcomes(rt, use, held, stack')
    BY <1>1, <1>4, <1>6, PopOutcomes
  <2> QED BY <1>1, <2>1, <2>2 DEF Out
<1>7. CASE IsReaction(job) /\ h.f \in {"finThen", "finCatch"}
  <2>1. rt' = settle(exited(fin.r), k, TRUE, fin.x)
    BY <1>2, <1>7, Zenon DEF IsReaction
  <2>2. h = Chosen(rt, use, k) /\ job = JobFor(rt, use, k) /\ k \in H /\ Gone(rt, use[k].p)
    BY <1>4, <1>7, JobParts2
  <2> HIDE DEF fin, H, k, h, job
  <2>3. PICK v : /\ Ext(use, v, rt) /\ Linked(rt', v, JobsOn(stack), H \ {k}, {}) /\ Fins(rt', v) /\ Untried(rt')
                 /\ Grown(rt, rt') /\ OneLess(rt, rt')
    <3>1. fin = finallyResult(rt, job, x)
      BY DEF fin
    <3>2. h.f \in {"finThen", "finCatch"} /\ Good(rt, Busy(stack))
      BY <1>4, <1>7
    <3> QED BY ONLY <1>3, <1>5, <2>1, <2>2, <3>1, <3>2, FinallyEnds, Zenon
  <2> QED BY <1>1, <1>7, <2>3, EndedOut DEF k, job, H
<1>8. CASE IsReaction(job) /\ h.f \notin {"finThen", "finCatch"}
  <2>1. rt' = settle(exited(rt), k, TRUE, x)
    BY <1>2, <1>8, Zenon DEF IsReaction
  <2> QED BY <1>1, <1>3, <1>8, <2>1, UserEnded, Zenon
<1> QED BY <1>6, <1>7, <1>8

LEMMA HandlerThrowsOut ==
  ASSUME Inv, NEW use, Outcomes(rt, use, held, stack), NEW x \in Plain, HandlerThrows(x)
  PROVE  Out'
<1> DEFINE job == Top.job
           k == job.cap
           h == job.handler
           finals == Threw(rt.finals, h.a, x)
           s == [rt EXCEPT !.finals = finals]
           H == HandsOn(stack)
<1>1. On("handler") /\ stack' = below /\ held' = held
  BY DEF HandlerThrows
<1>2. /\ job.k = "thenable" => rt' = rejectBy(rt, Top.n, x)
      /\ job.k # "thenable" /\ h.f \in {"finThen", "finCatch"} => rt' = settle(exited(s), k, FALSE, x)
      /\ job.k # "thenable" /\ h.f \notin {"finThen", "finCatch"} => rt' = settle(exited(rt), k, FALSE, x)
  <2>1. s = [rt EXCEPT !.finals[h.a].via = x, !.finals[h.a].threw = TRUE]
    <3>1. Shape(rt)
      BY StackTyped DEF Typed
    <3> HIDE DEF job
    <3> QED BY <3>1, Zenon DEF Threw, Shape
  <2> HIDE DEF s
  <2> QED BY <2>1, Zenon DEF HandlerThrows
<1>3. x \in Values(Size(rt))
  BY ArgsTyped
<1>4. /\ Good(rt, Busy(stack)) /\ stack # <<>> /\ stack \in Seq(Frames(Size(rt))) /\ Len(stack) # 1
      /\ below = To(stack, Len(stack) - 1)
      /\ ~IsReaction(job) => Calm(Peek(stack)) /\ job.k = "thenable" /\ HasPair(rt, Top.n) /\ use[Top.n].kind = "open"
      /\ IsReaction(job) => k \in H /\ Gone(rt, use[k].p) /\ job = JobFor(rt, use, k)
  BY <1>1, Handled
<1>5. Linked(rt, use, JobsOn(stack), H, {}) /\ Fins(rt, use) /\ Untried(rt)
  BY LinkedNow
<1>6. Only(rt, s, {"finals"}) /\ s.finals = finals
  <2>1. Shape(rt)
    BY StackTyped DEF Typed
  <2> QED BY <2>1, Set_finals
<1> HIDE DEF s
<1>7. CASE ~IsReaction(job)
  <2>1. rt' = rejectBy(rt, Top.n, x) /\ HasPair(rt, Top.n) /\ use[Top.n].kind = "open"
    BY <1>2, <1>4, <1>7
  <2>2. Linked(rt', use, JobsOn(stack), H, {}) /\ Others(rt, rt')
    BY <1>3, <1>4, <1>5, <2>1, OpenResolved
  <2>3. Grown(rt, rt')
    BY <1>3, <1>4, <2>1, RejectedBy
  <2>4. Keeps(rt, rt') /\ Ext(use, use, rt)
    BY <2>3, GrownKeeps DEF Ext
  <2>5. rt'.finals = rt.finals /\ rt'.resumed = rt.resumed /\ PairsOf(rt') = PairsOf(rt)
    <3>1. Size(rt') = Size(rt)
      BY <1>3, <1>4, <2>1, RejectedBy
    <3> QED BY <2>2, <3>1 DEF Others, PairsOf, Size
  <2>6. Outcomes(rt', use, held, stack)
    BY <1>4, <2>2, <2>4, <2>5, OutcomesStay
  <2>7. Good(rt', Busy(stack)) /\ stack \in Seq(Frames(Size(rt')))
    <3>1. Good(rt', Busy(stack)) /\ Stacked(Size(rt), stack) /\ Good(rt, {})
      BY <1>3, <1>4, <2>1, RejectedBy, StackTyped, LessBusy
    <3>2. Stacked(Size(rt'), stack)
      BY <2>3, <3>1, Kept
    <3> QED BY <3>1, <3>2 DEF Stacked
  <2>8. Outcomes(rt', use, held, stack')
    BY <1>1, <1>4, <1>7, <2>6, <2>7, PopOutcomes
  <2> QED BY <1>1, <2>8 DEF Out
<1>8. CASE IsReaction(job) /\ h.f \in {"finThen", "finCatch"}
  <2>1. rt' = settle(exited(s), k, FALSE, x) /\ s.finals = Threw(rt.finals, h.a, x)
    BY <1>2, <1>6, <1>8, Zenon DEF IsReaction
  <2>2. h = Chosen(rt, use, k) /\ k \in H /\ Gone(rt, use[k].p)
    BY <1>4, <1>8, JobParts2
  <2> HIDE DEF finals, H, k, h, job
  <2>3. /\ Linked(rt', use, JobsOn(stack), H \ {k}, {}) /\ Fins(rt', use) /\ Untried(rt')
        /\ Grown(rt, rt') /\ OneLess(rt, rt')
    <3>1. h.f \in {"finThen", "finCatch"} /\ Good(rt, Busy(stack)) /\ Only(rt, s, {"finals"})
      BY <1>4, <1>6, <1>8
    <3> QED BY ONLY <1>3, <1>5, <2>1, <2>2, <3>1, FinallyThrows, Zenon
  <2>4. Ext(use, use, rt)
    BY DEF Ext
  <2> QED BY <1>1, <1>8, <2>3, <2>4, EndedOut DEF k, job, H
<1>9. CASE IsReaction(job) /\ h.f \notin {"finThen", "finCatch"}
  <2>1. rt' = settle(exited(rt), k, FALSE, x)
    BY <1>2, <1>9, Zenon DEF IsReaction
  <2> QED BY <1>1, <1>3, <1>9, <2>1, UserEnded, Zenon
<1> QED BY <1>7, <1>8, <1>9

-----------------------------------------------------------------------------
(* Outcomes is an invariant.                                               *)
LEMMA NothingYet ==
  ASSUME Init, NEW use
  PROVE  Outcomes(rt, use, held, stack)
<1>1. /\ rt.promises = <<>> /\ rt.pairs = <<>> /\ rt.jobQueue = <<>> /\ rt.combs = <<>> /\ rt.finals = <<>>
      /\ rt.derived = <<>> /\ rt.adopted = {} /\ rt.lost = {} /\ rt.grabs = 0 /\ rt.resumed = 0
      /\ held = {} /\ stack = <<>>
  BY DEF Init
<1>2. PairsOf(rt) = {} /\ PromisesOf(rt) = {} /\ Len(rt.jobQueue) = 0 /\ Len(rt.combs) = 0 /\ Len(rt.finals) = 0
      /\ Len(rt.derived) = 0 /\ Len(stack) = 0
  BY <1>1 DEF PairsOf, PromisesOf
<1>3. JobsOn(stack) = {} /\ HandsOn(stack) = {}
  BY <1>2 DEF JobsOn, HandsOn
<1>4. \A k : ~InQueue(rt, k) /\ ~IsListed(rt, k) /\ \A n : ~IsQueued(rt, n, k)
  BY <1>2 DEF InQueue, IsQueued, IsListed
<1>5. Apart(rt, {}, {})
  BY <1>4 DEF Apart
<1>6. Owed(rt, {})
  <2>1. Waiting(rt, {}) = {}
    BY <1>2 DEF Waiting
  <2>2. Cardinality(Waiting(rt, {})) = 0 /\ rt.grabs = 0
    BY <1>1, <2>1, FS_EmptySet
  <2> QED BY <2>2 DEF Owed
<1>7. Derivations(rt, use)
  BY <1>1, <1>2, EmptySeq DEF Derivations
<1>8. /\ Uses(rt, use) /\ Lists(rt, use) /\ QueueOK(rt, use) /\ BatchesOK(rt, use, {}) /\ HandsOK(rt, use, {})
      /\ Effects(rt, use, {}) /\ Openly(rt, use) /\ Tended(rt, use, {}, {}) /\ Adoptions(rt, use, {})
      /\ Losses(rt, use)
  BY <1>1, <1>2 DEF Uses, Lists, QueueOK, BatchesOK, HandsOK, Effects, Openly, Tended, Adoptions, Losses
<1>9. Linked(rt, use, {}, {}, {})
  BY <1>5, <1>6, <1>7, <1>8 DEF Linked
<1>10. Fins(rt, use) /\ Untried(rt)
  BY <1>2 DEF Fins, Untried
<1>11. Attended(rt, {})
  BY <1>1, FS_EmptySet DEF Attended
<1>12. FramesOK(rt, use, stack) /\ BatchesOnce(stack) /\ HandsOnce(stack)
  BY <1>2 DEF FramesOK, BatchesOnce, BatchHas, HandsOnce, HandlerAt
<1> QED BY <1>1, <1>3, <1>9, <1>10, <1>11, <1>12, Zenon DEF Outcomes, Sound, StackOK

LEMMA OutSteps ==
  ASSUME Inv, Out, [Next]_vars
  PROVE  Out'
<1>0. PICK use : Outcomes(rt, use, held, stack)
  BY DEF Out
<1> HIDE DEF Out
<1>1. CASE UNCHANGED vars
  <2>1. Outcomes(rt', use, held', stack')
    BY <1>0, <1>1 DEF vars
  <2> QED BY <2>1 DEF Out
<1>2. CASE Script
  BY <1>0, <1>2, NewPromiseOut, ThenOut, FinallyOut, StaticResolveOut, StaticRejectOut, CallHeldOut, CombineOut
     DEF Script
<1>3. CASE Iterate
  BY <1>0, <1>3, IterNextOut, IterThrowsOut, IterWildOut, IterEndOut DEF Iterate
<1>4. CASE Jobs
  BY <1>0, <1>4, RunReactionOut, BeginHandlerOut, RunThenableOut, HandlerReturnsOut, HandlerThrowsOut,
     NextBatchOut, LeftOut DEF Jobs
<1>5. CASE Embedder
  BY <1>0, <1>5, EnterOut, HostCallOut, ReturnOut, InterruptOut DEF Embedder
<1> QED BY <1>1, <1>2, <1>3, <1>4, <1>5 DEF Next

THEOREM OutcomesInvariant == Spec => [](Inv /\ Out)
<1>1. Init => Inv /\ Out
  BY Starts, NothingYet DEF Out
<1>2. Inv /\ Out /\ [Next]_vars => Inv' /\ Out'
  BY StepsKeep, OutSteps
<1> QED BY <1>1, <1>2, PTL DEF Spec

-----------------------------------------------------------------------------
(* When control is outside.                                                *)
AtRest(r, use) == Linked(r, use, {}, {}, {}) /\ Fins(r, use) /\ r.jobQueue = <<>>

LEMMA Resting ==
  ASSUME Inv, NEW use, Outcomes(rt, use, held, stack), Idle
  PROVE  AtRest(rt, use)
<1>1. Len(stack) = 0 /\ stack = <<>>
  BY DEF Idle
<1>2. JobsOn(stack) = {} /\ HandsOn(stack) = {}
  BY <1>1 DEF JobsOn, HandsOn
<1>3. rt.jobQueue = <<>>
  BY <1>1 DEF Outcomes, StackOK
<1>4. Linked(rt, use, JobsOn(stack), HandsOn(stack), {}) /\ Fins(rt, use)
  BY LinkedNow
<1> QED BY <1>2, <1>3, <1>4 DEF AtRest

(* Severed, of any runtime.                                                *)
Halted(r, p) ==
  \E job \in r.lost :
    IF job.k = "thenable" THEN job.cap = p
    ELSE \/ OwnerOf(r, job.cap) = p
         \/ job.handler.f \in {"resolve", "reject"} /\ OwnerOf(r, job.handler.a) = p

LEMMA SeveredIs ==
  ASSUME NEW p
  PROVE  Severed(p) <=> Halted(rt, p)
BY DEF Severed, Halted, Owner, OwnerOf

LEMMA MissedHalts ==
  ASSUME NEW r, NEW k, Missed(r, k)
  PROVE  Halted(r, OwnerOf(r, k))
<1>1. PICK job \in r.lost : job.k = "reaction" /\ job.cap = k
  BY DEF Missed, InBatch, IsReaction
<1> QED BY <1>1 DEF Halted

(* The reactions to a settled promise have run.                            *)
LEMMA HaveRun ==
  ASSUME NEW r, NEW use, AtRest(r, use), NEW k \in PairsOf(r), ~Missed(r, k), use[k].kind = "derived",
         Gone(r, use[k].p)
  PROVE  IsUsed(r, k) /\ Effect(r, use, k, Chosen(r, use, k))
<1>1. Tended(r, use, {}, {}) /\ Lists(r, use) /\ Effects(r, use, {})
  BY DEF AtRest, Linked
<1>2. ~IsListed(r, k)
  <2> SUFFICES ASSUME NEW p \in PromisesOf(r), NEW i, Listed(r, p, i, k) PROVE FALSE
    BY DEF IsListed
  <2>1. ListsOK(r, use, p)
    BY <1>1 DEF Lists
  <2>2. \E g : use[k] = Derived(p, r.promises[p].fulfillReactions[i].handler, g)
    BY <2>1 DEF ListsOK, Listed
  <2>3. use[k].p = p
    BY <2>2 DEF Derived, Use
  <2>4. r.promises[p].fulfillReactions = <<>>
    BY <2>1, <2>3 DEF ListsOK
  <2> QED BY <2>4 DEF Listed
<1>3. ~InQueue(r, k) /\ ~InBatch({}, k)
  BY DEF InQueue, IsQueued, InBatch, AtRest
<1>4. IsUsed(r, k)
  BY <1>1, <1>2, <1>3 DEF Tended, Waits
<1>5. Done(r, use, k)
  BY <1>1, <1>4 DEF Effects
<1> QED BY <1>4, <1>5 DEF Done

LEMMA NoneLost ==
  ASSUME NEW use, AtRest(rt, use)
  PROVE  NoReactionLost
<1> SUFFICES ASSUME NEW i \in 1..Len(rt.derived), Settled(rt.derived[i].from), ~Severed(Owner(rt.derived[i].pair))
             PROVE  rt.pairs[rt.derived[i].pair].alreadyResolved
  BY DEF NoReactionLost
<1> DEFINE d == rt.derived[i]
<1>1. Derivation(rt, use, d)
  BY DEF AtRest, Linked, Derivations
<1>2. d.pair \in PairsOf(rt) /\ use[d.pair].kind = "derived" /\ Gone(rt, use[d.pair].p)
  BY <1>1 DEF Derivation, Settled, State, Gone, Now
<1>3. ~Missed(rt, d.pair)
  BY MissedHalts, SeveredIs DEF Owner, OwnerOf
<1> HIDE DEF d
<1>4. IsUsed(rt, d.pair)
  BY <1>2, <1>3, HaveRun
<1> QED BY <1>4 DEF IsUsed, d

(* A promise resolved with another: the pair that adopts.                  *)
Follows(r, use, p, q, k) == k \in PairsOf(r) /\ OwnerOf(r, k) = p /\ use[k] = Adopting(q)

LEMMA Following ==
  ASSUME NEW r, NEW use, AtRest(r, use), NEW a \in r.adopted, NEW p, p = a[1], NEW x, x = a[2], x.t = "promise",
         ~Halted(r, p)
  PROVE  \E k, c \in PairsOf(r) : Follows(r, use, p, x.n, k) /\ use[c] = Derived(x.n, ResolveFn(k), RejectFn(k))
<1>1. Adopted(r, use, {}, p, x)
  <2>1. Adoptions(r, use, {})
    BY DEF AtRest, Linked
  <2> QED BY <2>1 DEF Adoptions
<1>2. Len(r.jobQueue) = 0
  BY DEF AtRest
<1>3. Thenable(p, x) \notin r.lost
  BY DEF Thenable, Job, Halted
<1> QED BY <1>1, <1>2, <1>3 DEF Adopted, Follows

LEMMA Followed ==
  ASSUME NEW r, NEW use, AtRest(r, use), NEW a \in r.adopted, NEW p, p = a[1], NEW x, x = a[2], x.t = "promise",
         ~Halted(r, p), Gone(r, x.n)
  PROVE  Alike(r, p, x.n)
<1>1. PICK k, c \in PairsOf(r) : Follows(r, use, p, x.n, k) /\ use[c] = Derived(x.n, ResolveFn(k), RejectFn(k))
  BY Following
<1>2. use[c].kind = "derived" /\ use[c].p = x.n /\ Chosen(r, use, c) \in {ResolveFn(k), RejectFn(k)}
  BY <1>1 DEF Derived, Use, Chosen
<1>0. ~Missed(r, c)
  <2> SUFFICES ASSUME NEW job \in r.lost, IsReaction(job), job.cap = c PROVE FALSE
    BY DEF Missed, InBatch
  <2>1. job.handler \in {use[c].f, use[c].g}
    BY DEF AtRest, Linked, Losses, Belongs
  <2>2. job.handler \in {ResolveFn(k), RejectFn(k)}
    BY <1>1, <2>1 DEF Derived, Use
  <2>3. job.handler.f \in {"resolve", "reject"} /\ OwnerOf(r, job.handler.a) = p /\ job.k # "thenable"
    BY <1>1, <2>2 DEF ResolveFn, RejectFn, Fn, Follows, IsReaction
  <2> QED BY <2>3 DEF Halted
<1>3. Effect(r, use, c, Chosen(r, use, c))
  BY <1>0, <1>2, HaveRun
<1>4. use[k].kind = "adopting" /\ use[k].p = x.n /\ Chosen(r, use, c).f \in {"resolve", "reject"} /\ Chosen(r, use, c).a = k
  BY <1>1, <1>2, AdoptingIs DEF Follows
<1>5. IsUsed(r, k)
  BY <1>3, <1>4 DEF Effect
<1>6. Done(r, use, k)
  BY <1>5 DEF AtRest, Linked, Effects
<1> QED BY <1>1, <1>4, <1>6 DEF Done, Follows

LEMMA AllAdopt ==
  ASSUME NEW use, AtRest(rt, use)
  PROVE  Adoption
<1> SUFFICES ASSUME NEW a \in rt.adopted, a[2].t = "promise", Settled(a[2].n), ~Severed(a[1])
             PROVE  Outcome(a[1]) = Outcome(a[2].n)
  BY DEF Adoption
<1>1. Gone(rt, a[2].n)
  BY DEF Gone, Now, Settled, State
<1>2. Alike(rt, a[1], a[2].n)
  BY <1>1, Followed, SeveredIs
<1> QED BY <1>2 DEF Alike, OutcomeOf, Now, ResultOf, Outcome, State

(* finally(): its promise d follows e, whose reaction m passes on.         *)
PassedBy(r, use, f, d, e, m) ==
  /\ e \in PromisesOf(r) /\ m \in PairsOf(r) /\ OwnerOf(r, m) = e
  /\ \E a \in r.adopted : a[1] = d /\ a[2] = PromiseVal(e)
  /\ use[m] = Derived(use[m].p, Passing(Now(r, f.from), ResultOf(r, f.from)), NoFn)
  /\ f.via.t = "promise" => use[m].p = f.via.n
  /\ f.via.t = "plain" => Now(r, use[m].p) = "fulfilled"

LEMMA FinallyRun ==
  ASSUME NEW r, NEW use, AtRest(r, use), NEW i \in 1..Len(r.finals), NEW f, f = r.finals[i], Gone(r, f.from),
         NEW d, d = OwnerOf(r, f.pair), ~Halted(r, d)
  PROVE  /\ f.threw => OutcomeOf(r, d) = <<"rejected", f.via>>
         /\ ~f.threw => \E e, m : PassedBy(r, use, f, d, e, m)
<1> DEFINE k == f.pair
<1>1. k \in PairsOf(r) /\ use[k] = Derived(f.from, FinThen(i), FinCatch(i))
  BY DEF AtRest, Fins
<1>2. use[k].kind = "derived" /\ use[k].p = f.from /\ Chosen(r, use, k) \in {FinThen(i), FinCatch(i)}
  BY <1>1 DEF Derived, Use, Chosen
<1>3. Effect(r, use, k, Chosen(r, use, k))
  <2>1. ~Missed(r, k)
    BY MissedHalts
  <2> QED BY <1>1, <1>2, <2>1, HaveRun
<1>4. Chosen(r, use, k).f \in {"finThen", "finCatch"} /\ Chosen(r, use, k).a = i
  BY <1>2, FinIs
<1>5. FinDone(r, use, i, k)
  BY <1>3, <1>4 DEF Effect
<1>6. f.threw => OutcomeOf(r, d) = <<"rejected", f.via>>
  BY <1>5 DEF FinDone
<1>7. ASSUME ~f.threw PROVE \E e, m : PassedBy(r, use, f, d, e, m)
  <2>1. PICK e \in PromisesOf(r), m \in PairsOf(r) :
          /\ <<d, PromiseVal(e)>> \in r.adopted /\ OwnerOf(r, m) = e
          /\ use[m] = Derived(use[m].p, Passing(Now(r, f.from), ResultOf(r, f.from)), NoFn)
          /\ f.via.t = "promise" => use[m].p = f.via.n
          /\ f.via.t = "plain" => Now(r, use[m].p) = "fulfilled"
    BY <1>2, <1>5, <1>7 DEF FinDone
  <2>2. \E a \in r.adopted : a[1] = d /\ a[2] = PromiseVal(e)
    BY <2>1
  <2>3. PassedBy(r, use, f, d, e, m)
    BY <2>1, <2>2 DEF PassedBy
  <2> QED BY <2>3
<1> QED BY <1>6, <1>7

LEMMA StateTyped ==
  ASSUME NEW r, NEW busy, Good(r, busy), NEW p \in PromisesOf(r)
  PROVE  Now(r, p) \in {"pending", "fulfilled", "rejected"}
<1>1. r.promises \in Seq(PromiseObjects(Size(r)))
  BY DEF Good, Typed
<1>2. r.promises[p] \in PromiseObjects(Size(r))
  BY <1>1, ElementOfSeq DEF PromisesOf
<1> QED BY <1>2 DEF PromiseObjects, Now

(* The outcome of e, and of d.                                             *)
LEMMA PassedOn ==
  ASSUME NEW r, NEW busy, Good(r, busy), NEW use, AtRest(r, use), NEW f, f.from \in PromisesOf(r), Gone(r, f.from),
         NEW d, ~Halted(r, d), NEW e, ~Halted(r, e), NEW m, PassedBy(r, use, f, d, e, m), NEW q, q = use[m].p, Gone(r, q)
  PROVE  OutcomeOf(r, d) = IF Now(r, q) = "fulfilled" THEN OutcomeOf(r, f.from) ELSE OutcomeOf(r, q)
<1> DEFINE h == Chosen(r, use, m)
           g == Passing(Now(r, f.from), ResultOf(r, f.from))
<1>1. m \in PairsOf(r) /\ OwnerOf(r, m) = e /\ use[m] = Derived(q, g, NoFn)
  BY DEF PassedBy
<1> HIDE DEF g
<1>2. use[m].kind = "derived" /\ h = IF Now(r, q) = "fulfilled" THEN g ELSE NoFn
  BY <1>1 DEF Derived, Use, Chosen
<1> HIDE DEF h
<1>3. Effect(r, use, m, h)
  <2>1. ~Missed(r, m)
    BY <1>1, MissedHalts
  <2> QED BY <1>1, <1>2, <2>1, HaveRun, Zenon DEF h
<1>4. OutcomeOf(r, e) = IF Now(r, q) = "fulfilled" THEN OutcomeOf(r, f.from) ELSE OutcomeOf(r, q)
  <2>1. CASE Now(r, q) = "fulfilled"
    <3>1. h.f = (IF Now(r, f.from) = "fulfilled" THEN "thunk" ELSE "thrower") /\ h.x = ResultOf(r, f.from)
      BY <1>2, <2>1 DEF g, Passing, Fn
    <3>2. Now(r, f.from) \in {"pending", "fulfilled", "rejected"} /\ Now(r, f.from) # "pending"
      BY StateTyped DEF Gone
    <3>3. OutcomeOf(r, e) = <<Now(r, f.from), ResultOf(r, f.from)>>
      BY <1>1, <1>3, <3>1, <3>2 DEF Effect
    <3> QED BY <2>1, <3>3 DEF OutcomeOf
  <2>2. CASE Now(r, q) # "fulfilled"
    <3>1. h.f = "none"
      BY <1>2, <2>2 DEF NoFn, Fn
    <3>2. Alike(r, e, q)
      BY <1>1, <1>3, <3>1 DEF Effect
    <3> QED BY <2>2, <3>2 DEF Alike
  <2> QED BY <2>1, <2>2
<1>5. Gone(r, e)
  BY <1>4 DEF OutcomeOf, Gone
<1>6. Alike(r, d, e)
  <2>1. PICK a \in r.adopted : a[1] = d /\ a[2] = PromiseVal(e)
    BY DEF PassedBy
  <2>2. a[2].t = "promise" /\ a[2].n = e
    BY <2>1 DEF PromiseVal, Val
  <2> QED BY <1>5, <2>1, <2>2, Followed
<1> QED BY <1>4, <1>6 DEF Alike

(* d waits while the promise that the callback returned is pending: a      *)
(* settled promise has no functions left that have not been used.          *)
LEMMA StillWaits ==
  ASSUME NEW r, NEW busy, Good(r, busy), NEW use, AtRest(r, use), NEW f,
         NEW d, ~Halted(r, d), d \in PromisesOf(r), NEW e, NEW m, PassedBy(r, use, f, d, e, m), Gone(r, d)
  PROVE  Gone(r, use[m].p)
<1>0. \A p \in PromisesOf(r), k \in PairsOf(r) : Gone(r, p) /\ OwnerOf(r, k) = p => IsUsed(r, k)
  BY DEF Good, OneEach, Free, Unused, PromisesOf, PairsOf, Gone, Now, OwnerOf, IsUsed
<1>00. Effects(r, use, {})
  BY DEF AtRest, Linked
<1>1. PICK a \in r.adopted : a[1] = d /\ a[2] = PromiseVal(e)
  BY DEF PassedBy
<1>2. a[2].t = "promise" /\ a[2].n = e
  BY <1>1 DEF PromiseVal, Val
<1>3. PICK k \in PairsOf(r) : Follows(r, use, d, e, k)
  BY <1>1, <1>2, Following
<1>4. use[k].kind = "adopting" /\ use[k].p = e /\ OwnerOf(r, k) = d
  BY <1>3, AdoptingIs DEF Follows
<1>5. Done(r, use, k)
  BY <1>0, <1>00, <1>4 DEF Effects
<1>6. Gone(r, e)
  BY <1>4, <1>5 DEF Done, Alike
<1>7. m \in PairsOf(r) /\ e \in PromisesOf(r) /\ OwnerOf(r, m) = e /\ \E g : use[m] = Derived(use[m].p, g, NoFn)
  BY DEF PassedBy
<1>8. use[m].kind = "derived"
  BY <1>7 DEF Derived, Use
<1>9. Done(r, use, m)
  BY <1>0, <1>00, <1>6, <1>7 DEF Effects
<1> QED BY <1>8, <1>9 DEF Done

LEMMA AllPass ==
  ASSUME Inv, NEW use, AtRest(rt, use)
  PROVE  FinallyPasses
<1> DEFINE Passes(f) ==
             LET d == Owner(f.pair)
             IN CASE f.threw -> Outcome(d) = <<"rejected", f.via>>
                  [] ~f.threw /\ f.via.t = "promise" ->
                       CASE ~Settled(f.via.n)           -> ~Settled(d)
                         [] State(f.via.n) = "rejected" -> Outcome(d) = Outcome(f.via.n)
                         [] OTHER                       -> Outcome(d) = Outcome(f.from)
                  [] ~f.threw /\ f.via.t = "plain" -> Outcome(d) = Outcome(f.from)
                  [] OTHER -> TRUE
<1> SUFFICES ASSUME NEW i \in 1..Len(rt.finals), Settled(rt.finals[i].from), Unbroken(Owner(rt.finals[i].pair))
             PROVE  Passes(rt.finals[i])
  BY DEF FinallyPasses
<1> DEFINE f == rt.finals[i]
           d == Owner(f.pair)
<1>1. Good(rt, Busy(stack)) /\ Typed(rt)
  BY StackTyped
<1>2. f.threw \in BOOLEAN
  <2>1. rt.finals \in Seq(Finals)
    BY <1>1 DEF Typed
  <2>2. rt.finals[i] \in Finals
    BY <2>1, ElementOfSeq
  <2> QED BY <2>2 DEF Finals
<1>3. f.from \in PromisesOf(rt) /\ f.pair \in PairsOf(rt)
  <2>1. f.pair \in PairsOf(rt) /\ use[f.pair] = Derived(f.from, FinThen(i), FinCatch(i)) /\ Uses(rt, use)
    BY DEF AtRest, Fins, Linked
  <2>2. Purposed(rt, use, f.pair) /\ use[f.pair].kind = "derived" /\ use[f.pair].p = f.from
    BY <2>1 DEF Uses, Derived, Use
  <2> QED BY <2>1, <2>2 DEF Purposed
<1>4. d \in PromisesOf(rt) /\ d = OwnerOf(rt, f.pair)
  BY <1>1, <1>3, Owners DEF Owner, OwnerOf
<1>5. \A p : (Settled(p) <=> Gone(rt, p)) /\ State(p) = Now(rt, p) /\ Outcome(p) = OutcomeOf(rt, p)
  BY DEF Settled, Gone, State, Now, Outcome, OutcomeOf, ResultOf
<1>6. Gone(rt, f.from)
  BY <1>5
<1>60. Unbroken(d) /\ ~Halted(rt, d)
  BY SeveredIs DEF Unbroken
<1> HIDE DEF f, d
<1>7. f = rt.finals[i]
  BY DEF f
<1>8. CASE f.threw
  <2>1. Outcome(d) = <<"rejected", f.via>>
    BY <1>4, <1>5, <1>6, <1>60, <1>7, <1>8, FinallyRun
  <2> QED BY <1>2, <1>8, <2>1 DEF f, d
<1>9. CASE ~f.threw
  <2>1. PICK e, m : PassedBy(rt, use, f, d, e, m)
    BY <1>4, <1>6, <1>60, <1>7, <1>9, FinallyRun
  <2>10. ~Halted(rt, e)
    <3>1. PICK a \in rt.adopted : a[1] = d /\ a[2] = PromiseVal(e)
      BY <2>1 DEF PassedBy
    <3>2. a[2].t = "promise" /\ a[2].n = e
      BY <3>1 DEF PromiseVal, Val
    <3> QED BY <1>60, <3>1, <3>2, SeveredIs DEF Unbroken
  <2> DEFINE q == use[m].p
  <2>2. /\ f.via.t = "promise" => q = f.via.n
        /\ f.via.t = "plain" => Now(rt, q) = "fulfilled"
    BY <2>1 DEF PassedBy
  <2>3. Gone(rt, d) => Gone(rt, q)
    BY <1>1, <1>4, <1>60, <2>1, StillWaits
  <2> HIDE DEF q
  <2>4. Gone(rt, q) => OutcomeOf(rt, d) = IF Now(rt, q) = "fulfilled" THEN OutcomeOf(rt, f.from) ELSE OutcomeOf(rt, q)
    BY <1>1, <1>3, <1>6, <1>60, <2>1, <2>10, PassedOn DEF q
  <2>5. CASE f.via.t = "promise"
    <3>1. ~Settled(f.via.n) => ~Settled(d)
      BY <1>5, <2>2, <2>3, <2>5
    <3>2. Settled(f.via.n) /\ State(f.via.n) = "rejected" => Outcome(d) = Outcome(f.via.n)
      BY <1>5, <2>2, <2>4, <2>5
    <3>3. Settled(f.via.n) /\ State(f.via.n) # "rejected" => Outcome(d) = Outcome(f.from)
      <4>1. q \in PromisesOf(rt)
        <5>1. m \in PairsOf(rt) /\ \E g : use[m] = Derived(q, g, NoFn)
          BY <2>1 DEF PassedBy, q
        <5>2. Purposed(rt, use, m) /\ use[m].kind = "derived"
          BY <5>1 DEF AtRest, Linked, Uses, Derived, Use
        <5> QED BY <5>2 DEF Purposed, q
      <4>2. Now(rt, q) \in {"pending", "fulfilled", "rejected"}
        BY <1>1, <4>1, StateTyped
      <4> QED BY <1>5, <2>2, <2>4, <2>5, <4>2 DEF Gone
    <3>4. ~f.threw /\ f.via.t = "promise" /\ f.via.t # "plain"
      BY <1>9, <2>5
    <3>5. CASE ~Settled(f.via.n)
      <4>1. ~Settled(d) /\ State(f.via.n) # "rejected"
        BY <3>1, <3>5 DEF Settled
      <4> QED BY <1>2, <3>4, <3>5, <4>1 DEF f, d
    <3>6. CASE Settled(f.via.n) /\ State(f.via.n) = "rejected"
      <4>1. Outcome(d) = Outcome(f.via.n)
        BY <3>2, <3>6
      <4> QED BY <1>2, <3>4, <3>6, <4>1 DEF f, d
    <3>7. CASE Settled(f.via.n) /\ State(f.via.n) # "rejected"
      <4>1. Outcome(d) = Outcome(f.from)
        BY <3>3, <3>7
      <4> QED BY <1>2, <3>4, <3>7, <4>1 DEF f, d
    <3> QED BY <3>5, <3>6, <3>7
  <2>6. CASE f.via.t = "plain"
    <3>1. Outcome(d) = Outcome(f.from)
      BY <1>5, <2>2, <2>4, <2>6 DEF Gone
    <3> QED BY <1>2, <1>9, <2>6, <3>1 DEF f, d
  <2>7. CASE f.via.t \notin {"promise", "plain"}
    BY <1>2, <1>9, <2>7 DEF f
  <2> QED BY <2>5, <2>6, <2>7
<1> QED BY <1>2, <1>8, <1>9

LEMMA AllTyped ==
  ASSUME Inv, NEW use, Outcomes(rt, use, held, stack)
  PROVE  TypeOK
<1>1. Good(rt, Busy(stack)) /\ Typed(rt) /\ stack \in Seq(Frames(Size(rt)))
  BY StackTyped
<1>2. Linked(rt, use, JobsOn(stack), HandsOn(stack), {}) /\ Attended(rt, HandsOn(stack))
  BY LinkedNow
<1>3. rt.resumed \in Nat /\ rt.grabs \in Nat
  BY <1>2 DEF Linked, Owed, Attended
<1>4. \A k \in 1..Len(rt.pairs) : Owner(k) \in Promises
  BY <1>1, Owners DEF PairsOf, PromisesOf, OwnerOf, Owner, Promises
<1>5. ASSUME NEW j \in 1..Len(stack) PROVE stack[j].k \in {"run", "leave", "handler", "iterate"}
  <2>1. stack[j] \in Frames(Size(rt))
    BY <1>1, ElementOfSeq
  <2> QED BY <2>1 DEF Frames
<1>6. ASSUME NEW p \in Promises
      PROVE  LET q == rt.promises[p]
             IN /\ q.state \in {"pending", "fulfilled", "rejected"} /\ ValOK(q.result)
                /\ q.handled \in BOOLEAN /\ q.tracked \in {"none", "reject", "handle"}
                /\ \A i \in 1..Len(q.rejectReactions) : q.rejectReactions[i].cap \in 0..Len(rt.pairs)
                /\ Len(q.fulfillReactions) = Len(q.rejectReactions)
  <2> DEFINE q == rt.promises[p]
  <2>1. q \in PromiseObjects(Size(rt))
    <3>1. rt.promises \in Seq(PromiseObjects(Size(rt)))
      BY <1>1 DEF Typed
    <3> QED BY <3>1, ElementOfSeq DEF Promises
  <2>2. ListsOK(rt, use, p) /\ Len(rt.pairs) \in Nat
    BY <1>1, <1>2, Owners DEF Linked, Lists, Promises, PromisesOf
  <2> HIDE DEF q
  <2>3. /\ Len(q.fulfillReactions) = Len(q.rejectReactions)
        /\ \A i \in 1..Len(q.rejectReactions) : q.rejectReactions[i].cap \in PairsOf(rt)
    BY <2>2, Zenon DEF ListsOK, q
  <2>4. \A i \in 1..Len(q.rejectReactions) : q.rejectReactions[i].cap \in 0..Len(rt.pairs)
    BY <2>2, <2>3 DEF PairsOf
  <2>5. q.state \in {"pending", "fulfilled", "rejected"} /\ q.result \in Values(Size(rt))
        /\ q.handled \in BOOLEAN /\ q.tracked \in {"none", "reject", "handle"}
    BY <2>1 DEF PromiseObjects
  <2>6. ValOK(q.result)
    BY <2>5 DEF Values, ValOK
  <2> QED BY <2>3, <2>4, <2>5, <2>6 DEF q
<1> QED BY <1>3, <1>4, <1>5, <1>6 DEF TypeOK

-----------------------------------------------------------------------------
(* The theorems.                                                           *)

(* A promise is decided once and tells whoever waits for it: whatever user *)
(* code, thenables, combinators and nested runs of leave() do, when        *)
(* control is outside again the reactions to settled promises have run     *)
(* (addReactions, triggerPromiseReactions, leave), and a promise that was  *)
(* resolved with another has its outcome (newPromiseResolveThenableJob),   *)
(* but for the jobs that an interrupt unwound through (leaveAbrupt).       *)
THEOREM DecidedHolds == Spec => []Decided
<1>1. Inv /\ Out => TypeOK /\ NoReactionLost /\ Adoption
  <2> SUFFICES ASSUME Inv, Out PROVE TypeOK /\ NoReactionLost /\ Adoption
    OBVIOUS
  <2>1. PICK use : Outcomes(rt, use, held, stack)
    BY DEF Out
  <2>2. TypeOK
    BY <2>1, AllTyped
  <2>3. NoReactionLost /\ Adoption
    <3>1. CASE Idle
      BY <2>1, <3>1, Resting, NoneLost, AllAdopt
    <3>2. CASE ~Idle
      BY <3>2 DEF NoReactionLost, Adoption
    <3> QED BY <3>1, <3>2
  <2> QED BY <2>2, <2>3
<1>2. TypeOK /\ NoReactionLost /\ Adoption /\ OneDecider => Decided
  BY DEF Decided
<1> QED BY <1>1, <1>2, OutcomesInvariant, OneDeciderHolds, PTL

(* Go handlers that start a nested leave() lose no reaction, and an        *)
(* interrupt (leaveAbrupt) none but those it unwinds through: the rest is  *)
(* run, promises resolved with others adopt their outcomes, and finally()  *)
(* passes on the outcome of its promise unless its callback throws or      *)
(* returns a promise that is rejected or pending (thenFinally,             *)
(* catchFinally).                                                          *)
THEOREM ControlKept == Spec => []ControlKeeps
<1>1. Inv /\ Out => ControlKeeps
  <2> SUFFICES ASSUME Inv, Out PROVE NoReactionLost /\ Adoption /\ FinallyPasses
    BY DEF ControlKeeps
  <2>1. PICK use : Outcomes(rt, use, held, stack)
    BY DEF Out
  <2>2. CASE Idle
    BY <2>1, <2>2, Resting, NoneLost, AllAdopt, AllPass
  <2>3. CASE ~Idle
    BY <2>3 DEF NoReactionLost, Adoption, FinallyPasses
  <2> QED BY <2>2, <2>3
<1> QED BY <1>1, OutcomesInvariant, PTL
=============================================================================
