---------------------------- MODULE PromisesProofs ----------------------------
(***************************************************************************)
(* Proofs about Promises, for any bounds and, but for OrderKept, any       *)
(* features of the instance.                                               *)
(***************************************************************************)
EXTENDS Promises, FiniteSetTheorems, SequenceTheorems, TLAPS

-----------------------------------------------------------------------------
(* The types, given the numbers n.p of promises, n.k of pairs of resolving *)
(* functions and n.c of combinators: all that is named exists.             *)

Values(n) ==
  {x \in [t : {"undefined", "typeError", "plain", "promise", "thenable", "trap", "list", "aggregate"},
          n : Nat] : x.t = "promise" => x.n \in 1..n.p}
Natives == {"resolve", "reject", "fulfilled", "rejected", "thunk", "thrower", "finThen", "finCatch"}
Functions(n) ==
  {h \in [f : {"none", "js", "go"} \cup Natives, a : Nat, b : Nat, x : Values(n)] :
     /\ h.f \in {"resolve", "reject"} => h.a \in 1..n.k
     /\ h.f \in {"fulfilled", "rejected"} => h.a \in 1..n.c}
Reactions(n) == [cap : 0..n.k, handler : Functions(n)]
PromiseObjects(n) ==
  [state : {"pending", "fulfilled", "rejected"}, result : Values(n),
   fulfillReactions : Seq(Reactions(n)), rejectReactions : Seq(Reactions(n)),
   handled : BOOLEAN, tracked : {"none", "reject", "handle"}]
Pairs(n) == [promise : 1..n.p, alreadyResolved : BOOLEAN]
JobsOf(n) ==
  {j \in [k : {"none", "reaction", "thenable"}, typ : {"none", "fulfill", "reject"}, cap : Nat,
          handler : Functions(n), arg : Values(n)] :
     /\ j.k # "thenable" => j.cap \in 0..n.k
     /\ j.k = "thenable" => j.cap \in 1..n.p}
Counts(n) == [status : {"none", "fulfilled", "rejected"}, value : Values(n)]
Finals ==
  [from : Nat, pair : Nat, threw : BOOLEAN,
   via : [t : {"undefined", "typeError", "plain", "promise", "thenable", "trap", "list", "aggregate"},
          n : Nat]]
Combs(n) ==
  [op : {"all", "allSettled", "any", "race"}, cap : 1..n.k, values : Seq(Counts(n)),
   called : SUBSET Nat, remaining : Int, inputs : Seq(Nat), over : BOOLEAN]
Frames(n) ==
  {f \in [k : {"run", "leave", "handler", "iterate"}, js : BOOLEAN, prog : BOOLEAN,
          batch : Seq(JobsOf(n)), job : JobsOf(n), n : Nat] :
     /\ f.k = "iterate" => f.n \in 1..n.c
     /\ f.k = "handler" /\ f.job.k = "thenable" => f.n \in 1..n.k}

Shape(r) ==
  r = [promises |-> r.promises, pairs |-> r.pairs, jobQueue |-> r.jobQueue, combs |-> r.combs,
       derived |-> r.derived, adopted |-> r.adopted, finals |-> r.finals, grabs |-> r.grabs,
       resumed |-> r.resumed, lost |-> r.lost]
Size(r) == [p |-> Len(r.promises), k |-> Len(r.pairs), c |-> Len(r.combs)]
AtMost(n, m) ==
  /\ n.p \in Nat /\ n.k \in Nat /\ n.c \in Nat /\ m.p \in Nat /\ m.k \in Nat /\ m.c \in Nat
  /\ n.p <= m.p /\ n.k <= m.k /\ n.c <= m.c

Typed(r) ==
  /\ Shape(r)
  /\ r.promises \in Seq(PromiseObjects(Size(r))) /\ r.pairs \in Seq(Pairs(Size(r)))
  /\ r.jobQueue \in Seq(JobsOf(Size(r))) /\ r.combs \in Seq(Combs(Size(r)))
  /\ r.finals \in Seq(Finals)

-----------------------------------------------------------------------------
(* Who can still decide a promise: a pair of functions that has not been   *)
(* used, or the job of a thenable that will make one.                      *)

Unused(r, k) == k \in 1..Len(r.pairs) /\ ~r.pairs[k].alreadyResolved
Adopts(jobs, i, p) == i \in 1..Len(jobs) /\ jobs[i].k = "thenable" /\ jobs[i].cap = p

(* Nobody can: neither here nor one of those in busy, the promises that a  *)
(* batch of leave() has a job for.                                         *)
Free(r, busy, p) ==
  /\ \A k \in 1..Len(r.pairs) : Unused(r, k) => r.pairs[k].promise # p
  /\ \A i \in 1..Len(r.jobQueue) : ~Adopts(r.jobQueue, i, p)
  /\ p \notin busy

(* What exists, and a promise that is pending and nobody else can decide.  *)
Has(r, p) == p \in 1..Len(r.promises)
HasPair(r, k) == k \in 1..Len(r.pairs)
HasComb(r, c) == c \in 1..Len(r.combs)
Ready(r, busy, p) == Has(r, p) /\ Free(r, busy, p) /\ r.promises[p].state = "pending"

(* Only one can, and only while the promise is pending.                    *)
OneEach(r, busy) ==
  /\ \A k, m \in 1..Len(r.pairs) :
       Unused(r, k) /\ Unused(r, m) /\ r.pairs[k].promise = r.pairs[m].promise => k = m
  /\ \A k \in 1..Len(r.pairs), i \in 1..Len(r.jobQueue) :
       Unused(r, k) => ~Adopts(r.jobQueue, i, r.pairs[k].promise)
  /\ \A k \in 1..Len(r.pairs) : Unused(r, k) => r.pairs[k].promise \notin busy
  /\ \A i, j \in 1..Len(r.jobQueue), p \in busy \cup (1..Len(r.promises)) :
       Adopts(r.jobQueue, i, p) => p \notin busy /\ (Adopts(r.jobQueue, j, p) => i = j)
  /\ \A p \in 1..Len(r.promises) : r.promises[p].state # "pending" => Free(r, busy, p)

(* What the rejection tracker has been told, per promise object.           *)
TrackedWell(q) ==
  /\ q.tracked = "reject" <=> q.state = "rejected" /\ ~q.handled
  /\ q.tracked = "handle" => q.state = "rejected" /\ q.handled

Good(r, busy) ==
  /\ Typed(r) /\ OneEach(r, busy) /\ busy \subseteq 1..Len(r.promises)
  /\ \A p \in 1..Len(r.promises) : TrackedWell(r.promises[p])

(* The promises for which a batch on the stack has a thenable's job: one   *)
(* job each.                                                               *)
HasJob(st, j, i, p) == j \in 1..Len(st) /\ Adopts(st[j].batch, i, p)
Busy(st) == {p \in Nat : \E j \in 1..Len(st) : \E i \in 1..Len(st[j].batch) : HasJob(st, j, i, p)}
BatchesApart(st) ==
  \A j, l \in 1..Len(st) : \A i \in 1..Len(st[j].batch), m \in 1..Len(st[l].batch) :
    \A p \in Nat : HasJob(st, j, i, p) /\ HasJob(st, l, m, p) => j = l /\ i = m

Bottom(st) == st # <<>> => st[1].k \in {"run", "leave"}
Stacked(n, st) == BatchesApart(st) /\ st \in Seq(Frames(n)) /\ Bottom(st)

(* The inductive invariant, as a predicate of the runtime, what user code  *)
(* holds and knows, and the stack.                                         *)
Held(h, r) == h \subseteq Functions(Size(r))
Knows(kn, r) == kn \subseteq 1..Len(r.promises)
OK(r, h, kn, st) == Good(r, Busy(st)) /\ Stacked(Size(r), st) /\ Held(h, r) /\ Knows(kn, r)
Inv == OK(rt, held, known, stack)

-----------------------------------------------------------------------------
(* A change of one field of the runtime.                                   *)

Only(r, s, changed) ==
  /\ Shape(s)
  /\ "promises" \notin changed => s.promises = r.promises
  /\ "pairs" \notin changed => s.pairs = r.pairs
  /\ "jobQueue" \notin changed => s.jobQueue = r.jobQueue
  /\ "combs" \notin changed => s.combs = r.combs
  /\ "derived" \notin changed => s.derived = r.derived
  /\ "adopted" \notin changed => s.adopted = r.adopted
  /\ "finals" \notin changed => s.finals = r.finals
  /\ "grabs" \notin changed => s.grabs = r.grabs
  /\ "resumed" \notin changed => s.resumed = r.resumed
  /\ "lost" \notin changed => s.lost = r.lost

LEMMA Set_promises ==
  ASSUME NEW r, Shape(r), NEW e
  PROVE  Only(r, [r EXCEPT !.promises = e], {"promises"}) /\ [r EXCEPT !.promises = e].promises = e
BY DEF Shape, Only

LEMMA Set_pairs ==
  ASSUME NEW r, Shape(r), NEW e
  PROVE  Only(r, [r EXCEPT !.pairs = e], {"pairs"}) /\ [r EXCEPT !.pairs = e].pairs = e
BY DEF Shape, Only

LEMMA Set_jobQueue ==
  ASSUME NEW r, Shape(r), NEW e
  PROVE  Only(r, [r EXCEPT !.jobQueue = e], {"jobQueue"}) /\ [r EXCEPT !.jobQueue = e].jobQueue = e
BY DEF Shape, Only

LEMMA Set_combs ==
  ASSUME NEW r, Shape(r), NEW e
  PROVE  Only(r, [r EXCEPT !.combs = e], {"combs"}) /\ [r EXCEPT !.combs = e].combs = e
BY DEF Shape, Only

LEMMA Set_derived ==
  ASSUME NEW r, Shape(r), NEW e
  PROVE  Only(r, [r EXCEPT !.derived = e], {"derived"}) /\ [r EXCEPT !.derived = e].derived = e
BY DEF Shape, Only

LEMMA Set_adopted ==
  ASSUME NEW r, Shape(r), NEW e
  PROVE  Only(r, [r EXCEPT !.adopted = e], {"adopted"}) /\ [r EXCEPT !.adopted = e].adopted = e
BY DEF Shape, Only

LEMMA Set_finals ==
  ASSUME NEW r, Shape(r), NEW e
  PROVE  Only(r, [r EXCEPT !.finals = e], {"finals"}) /\ [r EXCEPT !.finals = e].finals = e
BY DEF Shape, Only

LEMMA Set_grabs ==
  ASSUME NEW r, Shape(r), NEW e
  PROVE  Only(r, [r EXCEPT !.grabs = e], {"grabs"}) /\ [r EXCEPT !.grabs = e].grabs = e
BY DEF Shape, Only

LEMMA Set_resumed ==
  ASSUME NEW r, Shape(r), NEW e
  PROVE  Only(r, [r EXCEPT !.resumed = e], {"resumed"}) /\ [r EXCEPT !.resumed = e].resumed = e
BY DEF Shape, Only

LEMMA Set_lost ==
  ASSUME NEW r, Shape(r), NEW e
  PROVE  Only(r, [r EXCEPT !.lost = e], {"lost"}) /\ [r EXCEPT !.lost = e].lost = e
BY DEF Shape, Only
-----------------------------------------------------------------------------
(* The types grow with what there is.                                      *)

LEMMA SeqMono ==
  ASSUME NEW S, NEW T, S \subseteq T
  PROVE  Seq(S) \subseteq Seq(T)
<1> SUFFICES ASSUME NEW s \in Seq(S) PROVE s \in Seq(T)
  OBVIOUS
<1>1. Len(s) \in Nat /\ s \in [1..Len(s) -> S]
  BY LenProperties
<1>2. s \in [1..Len(s) -> T]
  BY <1>1
<1> QED BY <1>1, <1>2, SeqDef

LEMMA TypesMono ==
  ASSUME NEW n, NEW m, AtMost(n, m)
  PROVE  /\ Values(n) \subseteq Values(m) /\ Functions(n) \subseteq Functions(m)
         /\ Reactions(n) \subseteq Reactions(m) /\ PromiseObjects(n) \subseteq PromiseObjects(m)
         /\ Pairs(n) \subseteq Pairs(m) /\ JobsOf(n) \subseteq JobsOf(m)
         /\ Combs(n) \subseteq Combs(m) /\ Frames(n) \subseteq Frames(m)
<1>0. 1..n.p \subseteq 1..m.p /\ 1..n.k \subseteq 1..m.k /\ 1..n.c \subseteq 1..m.c /\ 0..n.k \subseteq 0..m.k
  BY DEF AtMost
<1>1. Values(n) \subseteq Values(m)
  BY <1>0 DEF Values
<1>2. Functions(n) \subseteq Functions(m)
  BY <1>0, <1>1 DEF Functions
<1>3. Reactions(n) \subseteq Reactions(m)
  BY <1>0, <1>2 DEF Reactions
<1>4. PromiseObjects(n) \subseteq PromiseObjects(m)
  <2>1. Seq(Reactions(n)) \subseteq Seq(Reactions(m))
    BY <1>3, SeqMono
  <2> QED BY <1>1, <2>1 DEF PromiseObjects
<1>5. Pairs(n) \subseteq Pairs(m)
  BY <1>0 DEF Pairs
<1>6. JobsOf(n) \subseteq JobsOf(m)
  BY <1>0, <1>1, <1>2 DEF JobsOf
<1>7. Combs(n) \subseteq Combs(m)
  <2>1. Counts(n) \subseteq Counts(m)
    BY <1>1 DEF Counts
  <2>2. Seq(Counts(n)) \subseteq Seq(Counts(m))
    BY <2>1, SeqMono
  <2> QED BY <1>0, <2>2 DEF Combs
<1>8. Frames(n) \subseteq Frames(m)
  <2>1. Seq(JobsOf(n)) \subseteq Seq(JobsOf(m))
    BY <1>6, SeqMono
  <2> QED BY <1>0, <1>6, <2>1 DEF Frames
<1> QED BY <1>1, <1>2, <1>3, <1>4, <1>5, <1>6, <1>7, <1>8

(* The same of sequences, field by field of a runtime.                     *)
LEMMA SeqTypesMono ==
  ASSUME NEW n, NEW m, AtMost(n, m)
  PROVE  /\ Seq(PromiseObjects(n)) \subseteq Seq(PromiseObjects(m)) /\ Seq(Pairs(n)) \subseteq Seq(Pairs(m))
         /\ Seq(JobsOf(n)) \subseteq Seq(JobsOf(m)) /\ Seq(Combs(n)) \subseteq Seq(Combs(m))
         /\ Seq(Frames(n)) \subseteq Seq(Frames(m))
<1>1. /\ PromiseObjects(n) \subseteq PromiseObjects(m) /\ Pairs(n) \subseteq Pairs(m)
      /\ JobsOf(n) \subseteq JobsOf(m) /\ Combs(n) \subseteq Combs(m) /\ Frames(n) \subseteq Frames(m)
  BY TypesMono
<1> QED BY <1>1, SeqMono

LEMMA TypedMono ==
  ASSUME NEW r, Typed(r), NEW m, AtMost(Size(r), m)
  PROVE  /\ r.promises \in Seq(PromiseObjects(m)) /\ r.pairs \in Seq(Pairs(m))
         /\ r.jobQueue \in Seq(JobsOf(m)) /\ r.combs \in Seq(Combs(m))
BY SeqTypesMono DEF Typed

(* What a change of the runtime keeps: what there is, the outcomes of      *)
(* promises that are settled, and which functions have been used.          *)
Keeps(r, s) ==
  /\ AtMost(Size(r), Size(s))
  /\ \A p \in 1..Len(r.promises) :
       r.promises[p].state # "pending" =>
         s.promises[p].state = r.promises[p].state /\ s.promises[p].result = r.promises[p].result
  /\ \A k \in 1..Len(r.pairs) :
       /\ s.pairs[k].promise = r.pairs[k].promise
       /\ r.pairs[k].alreadyResolved => s.pairs[k].alreadyResolved

(* What native functions do besides: they queue jobs behind the others.    *)
Longer(q, u) == Len(q) <= Len(u) /\ \A i \in 1..Len(q) : u[i] = q[i]
Grown(r, s) == Keeps(r, s) /\ Longer(r.jobQueue, s.jobQueue)

(* Sizes are numbers.                                                      *)
LEMMA Sizes ==
  ASSUME NEW r, Typed(r)
  PROVE  /\ Len(r.promises) \in Nat /\ Len(r.pairs) \in Nat /\ Len(r.combs) \in Nat /\ Len(r.jobQueue) \in Nat
         /\ Size(r).p = Len(r.promises) /\ Size(r).k = Len(r.pairs) /\ Size(r).c = Len(r.combs)
         /\ AtMost(Size(r), Size(r))
<1>1. Len(r.promises) \in Nat /\ Len(r.pairs) \in Nat /\ Len(r.combs) \in Nat /\ Len(r.jobQueue) \in Nat
  BY LenProperties DEF Typed
<1> QED BY <1>1 DEF Size, AtMost

LEMMA GrownSelf ==
  ASSUME NEW r, Typed(r) PROVE Grown(r, r)
BY Sizes DEF Grown, Keeps, Longer

LEMMA SameQueue ==
  ASSUME NEW r, NEW s, NEW busy, Good(r, busy), Keeps(r, s), s.jobQueue = r.jobQueue
  PROVE  Grown(r, s)
BY Sizes DEF Grown, Longer, Good

LEMMA KeepsOn ==
  ASSUME NEW r, NEW s, NEW u, Keeps(r, s), Keeps(s, u)
  PROVE  Keeps(r, u)
<1>1. AtMost(Size(r), Size(u))
  BY DEF Keeps, AtMost
<1>2. 1..Len(r.promises) \subseteq 1..Len(s.promises) /\ 1..Len(r.pairs) \subseteq 1..Len(s.pairs)
  BY DEF Keeps, AtMost, Size
<1> QED BY <1>1, <1>2, Zenon DEF Keeps

LEMMA GrownOn ==
  ASSUME NEW r, NEW s, NEW u, Grown(r, s), Grown(s, u)
  PROVE  Grown(r, u)
<1>1. Keeps(r, u)
  BY KeepsOn DEF Grown
<1>2. Longer(r.jobQueue, u.jobQueue)
  <2>1. Len(r.jobQueue) <= Len(s.jobQueue) /\ Len(s.jobQueue) <= Len(u.jobQueue)
    BY DEF Grown, Longer
  <2>2. 1..Len(r.jobQueue) \subseteq 1..Len(s.jobQueue)
    BY <2>1
  <2> QED BY <2>1, <2>2 DEF Grown, Longer
<1> QED BY <1>1, <1>2 DEF Grown
-----------------------------------------------------------------------------
(* What keeps the runtime good, one kind of change at a time.              *)

(* Whatever adds nobody who can decide a promise, and settles only         *)
(* promises that nobody can decide any more.                               *)
LEMMA FewerDeciders ==
  ASSUME NEW r, NEW s, NEW busy, NEW less, OneEach(r, busy), less \subseteq busy,
         Len(s.promises) = Len(r.promises), Len(s.pairs) = Len(r.pairs),
         \A k \in 1..Len(r.pairs) :
           s.pairs[k].promise = r.pairs[k].promise /\ (Unused(s, k) => Unused(r, k)),
         \A i, p : Adopts(s.jobQueue, i, p) => Adopts(r.jobQueue, i, p),
         \A p \in 1..Len(r.promises) :
           s.promises[p].state # "pending" => r.promises[p].state # "pending" \/ Free(r, busy, p)
  PROVE  OneEach(s, less)
<1>0. \A i, p : Adopts(r.jobQueue, i, p) => i \in 1..Len(r.jobQueue)
  BY DEF Adopts
<1>1. ASSUME NEW p, Free(r, busy, p) PROVE Free(s, less, p)
  <2>1. \A k \in 1..Len(s.pairs) : Unused(s, k) => s.pairs[k].promise # p
    BY <1>1 DEF Free
  <2>2. \A i \in 1..Len(s.jobQueue) : ~Adopts(s.jobQueue, i, p)
    BY <1>1, <1>0 DEF Free
  <2>3. p \notin less
    BY <1>1 DEF Free
  <2> QED BY <2>1, <2>2, <2>3 DEF Free
<1>2. \A k, m \in 1..Len(s.pairs) :
       Unused(s, k) /\ Unused(s, m) /\ s.pairs[k].promise = s.pairs[m].promise => k = m
  BY Zenon DEF OneEach
<1>3. \A k \in 1..Len(s.pairs), i \in 1..Len(s.jobQueue) :
       Unused(s, k) => ~Adopts(s.jobQueue, i, s.pairs[k].promise)
  BY <1>0 DEF OneEach
<1>4. \A k \in 1..Len(s.pairs) : Unused(s, k) => s.pairs[k].promise \notin less
  BY DEF OneEach
<1>5. \A i, j \in 1..Len(s.jobQueue), p \in less \cup (1..Len(s.promises)) :
       Adopts(s.jobQueue, i, p) => p \notin less /\ (Adopts(s.jobQueue, j, p) => i = j)
  BY <1>0 DEF OneEach
<1>6. \A p \in 1..Len(s.promises) : s.promises[p].state # "pending" => Free(s, less, p)
  BY <1>1 DEF OneEach
<1> QED BY <1>2, <1>3, <1>4, <1>5, <1>6 DEF OneEach

(* A pair made for a promise, one that has been used, the job of a         *)
(* thenable for a promise, and what a promise object may become.           *)
PairFor(e, p, n) == e \in Pairs(n) /\ e.promise = p /\ ~e.alreadyResolved
UsedPair(e, d, n) == e \in Pairs(n) /\ e.promise = d.promise /\ e.alreadyResolved
ThenableFor(e, p, n) == e \in JobsOf(n) /\ e.k = "thenable" /\ e.cap = p
NextOf(e, r, busy, p) ==
  /\ e \in PromiseObjects(Size(r)) /\ TrackedWell(e)
  /\ e.state = "pending" \/ Free(r, busy, p)
  /\ r.promises[p].state # "pending" => e.state = r.promises[p].state /\ e.result = r.promises[p].result

JustReactions(jobs, n) == jobs \in Seq(JobsOf(n)) /\ \A i \in 1..Len(jobs) : jobs[i].k # "thenable"
One(job) == <<job>>

(* The fields that only the properties read.                               *)
Counters == {"derived", "adopted", "grabs", "resumed", "lost"}

LEMMA Quiet ==
  ASSUME NEW r, NEW s, NEW busy, Good(r, busy), Only(r, s, Counters)
  PROVE  Good(s, busy) /\ Grown(r, s) /\ Size(s) = Size(r)
<1>1. /\ s.promises = r.promises /\ s.pairs = r.pairs /\ s.jobQueue = r.jobQueue /\ s.combs = r.combs
      /\ s.finals \in Seq(Finals)
  BY DEF Only, Counters, Good, Typed
<1>2. Typed(s)
  BY <1>1 DEF Good, Typed, Only, Size
<1>3. OneEach(s, busy)
  BY <1>1 DEF Good, OneEach, Free, Unused
<1>4. Grown(r, s)
  <2>1. Keeps(r, s)
    BY <1>1, Sizes DEF Good, Keeps, Size
  <2> QED BY <1>1, <2>1, SameQueue
<1> QED BY <1>1, <1>2, <1>3, <1>4 DEF Good, Size

LEMMA FinalsChanged ==
  ASSUME NEW r, NEW s, NEW busy, Good(r, busy), Only(r, s, {"finals"}), s.finals \in Seq(Finals)
  PROVE  Good(s, busy) /\ Grown(r, s) /\ Size(s) = Size(r)
<1>1. s.promises = r.promises /\ s.pairs = r.pairs /\ s.jobQueue = r.jobQueue /\ s.combs = r.combs
  BY DEF Only
<1>2. Typed(s)
  BY <1>1 DEF Good, Typed, Only, Size
<1>3. OneEach(s, busy)
  BY <1>1 DEF Good, OneEach, Free, Unused
<1>4. Grown(r, s)
  <2>1. Keeps(r, s)
    BY <1>1, Sizes DEF Good, Keeps, Size
  <2> QED BY <1>1, <2>1, SameQueue
<1> QED BY <1>1, <1>2, <1>3, <1>4 DEF Good, Size

(* What a call of finally() ends up with is noted, if there is such a call.*)
Noted(f, a, x) == [f EXCEPT ![a].via = x]
Threw(f, a, x) == [f EXCEPT ![a].via = x, ![a].threw = TRUE]

LEMMA NotesTyped ==
  ASSUME NEW f, f \in Seq(Finals), NEW a, NEW n, NEW x, x \in Values(n)
  PROVE  Noted(f, a, x) \in Seq(Finals) /\ Threw(f, a, x) \in Seq(Finals)
<1>1. Len(f) \in Nat /\ DOMAIN f = 1..Len(f) /\ f = [i \in 1..Len(f) |-> f[i]]
  BY LenProperties
<1>2. \A i \in 1..Len(f) : f[i] \in Finals
  BY ElementOfSeq
<1>3. \A e \in Finals : [e EXCEPT !.via = x] \in Finals /\ [e EXCEPT !.via = x, !.threw = TRUE] \in Finals
  BY Zenon DEF Finals, Values
<1>4. \A e : [f EXCEPT ![a] = e] = [i \in 1..Len(f) |-> IF i = a THEN e ELSE f[i]]
  BY <1>1, Zenon
<1>5. Noted(f, a, x) = [i \in 1..Len(f) |-> IF i = a THEN [f[i] EXCEPT !.via = x] ELSE f[i]]
  BY <1>1, Zenon DEF Noted
<1>6. Threw(f, a, x) = [i \in 1..Len(f) |-> IF i = a THEN [f[i] EXCEPT !.via = x, !.threw = TRUE] ELSE f[i]]
  BY <1>1 DEF Threw
<1>7. \A g : g \in [1..Len(f) -> Finals] => g \in Seq(Finals)
  BY <1>1
<1>8. Noted(f, a, x) \in [1..Len(f) -> Finals]
  BY <1>2, <1>3, <1>5
<1>9. Threw(f, a, x) \in [1..Len(f) -> Finals]
  BY <1>2, <1>3, <1>6
<1> QED BY <1>7, <1>8, <1>9

(* A sequence with one element replaced.                                   *)
Put(q, k, e) == [q EXCEPT ![k] = e]

LEMMA Replaced ==
  ASSUME NEW S, NEW q \in Seq(S), NEW k \in 1..Len(q), NEW e \in S, NEW t, t = Put(q, k, e)
  PROVE  /\ t \in Seq(S) /\ Len(t) = Len(q)
         /\ \A m \in 1..Len(q) : t[m] = IF m = k THEN e ELSE q[m]
BY ExceptSeq DEF Put

(* ... with one more.                                                      *)
LEMMA Appended ==
  ASSUME NEW S, NEW q \in Seq(S), NEW e \in S, NEW t, t = Append(q, e)
  PROVE  /\ t \in Seq(S) /\ Len(t) = Len(q) + 1 /\ t[Len(q) + 1] = e
         /\ \A m \in 1..Len(q) : t[m] = q[m]
BY AppendProperties

(* What a runtime holds is of the types above.                             *)
LEMMA Elements ==
  ASSUME NEW r, Typed(r)
  PROVE  /\ \A p \in 1..Len(r.promises) : r.promises[p] \in PromiseObjects(Size(r))
         /\ \A k \in 1..Len(r.pairs) : r.pairs[k] \in Pairs(Size(r))
         /\ \A i \in 1..Len(r.jobQueue) : r.jobQueue[i] \in JobsOf(Size(r))
         /\ \A c \in 1..Len(r.combs) : r.combs[c] \in Combs(Size(r))
<1>1. /\ r.promises \in Seq(PromiseObjects(Size(r))) /\ r.pairs \in Seq(Pairs(Size(r)))
      /\ r.jobQueue \in Seq(JobsOf(Size(r))) /\ r.combs \in Seq(Combs(Size(r)))
  BY DEF Typed
<1> QED BY <1>1, ElementOfSeq

LEMMA PairUsed ==
  ASSUME NEW r, NEW s, NEW busy, Good(r, busy), Only(r, s, {"pairs"}), NEW k, HasPair(r, k), NEW e,
         UsedPair(e, r.pairs[k], Size(r)), s.pairs = Put(r.pairs, k, e)
  PROVE  Good(s, busy) /\ Grown(r, s) /\ Size(s) = Size(r)
<1>0. s.promises = r.promises /\ s.jobQueue = r.jobQueue /\ s.combs = r.combs /\ Shape(s) /\ s.finals \in Seq(Finals)
  BY DEF Only, Good, Typed
<1>. k \in 1..Len(r.pairs) /\ e.promise = r.pairs[k].promise /\ e.alreadyResolved /\ e \in Pairs(Size(r))
  BY DEF HasPair, UsedPair
<1>1. r.pairs \in Seq(Pairs(Size(r))) /\ Typed(r)
  BY DEF Good, Typed
<1>4. /\ s.pairs \in Seq(Pairs(Size(r))) /\ Len(s.pairs) = Len(r.pairs)
      /\ \A m \in 1..Len(r.pairs) : s.pairs[m] = IF m = k THEN e ELSE r.pairs[m]
  BY <1>1, ExceptSeq DEF Put
<1>5. Size(s) = Size(r)
  BY <1>0, <1>4 DEF Size
<1>6. Typed(s)
  BY <1>0, <1>4, <1>5 DEF Good, Typed
<1>7. \A m \in 1..Len(r.pairs) :
        s.pairs[m].promise = r.pairs[m].promise /\ (Unused(s, m) => Unused(r, m))
  BY <1>4, Zenon DEF Unused
<1>8. OneEach(s, busy)
  <2>1. \A i, p : Adopts(s.jobQueue, i, p) => Adopts(r.jobQueue, i, p)
    BY <1>0
  <2>2. OneEach(r, busy) /\ Len(s.promises) = Len(r.promises)
    BY <1>0 DEF Good
  <2> QED BY <1>0, <1>4, <1>7, <2>1, <2>2, FewerDeciders
<1>9. Grown(r, s)
  <2>1. Keeps(r, s)
    BY <1>0, <1>1, <1>4, <1>5, Sizes DEF Keeps
  <2> QED BY <1>0, <2>1, SameQueue
<1> QED BY <1>0, <1>5, <1>6, <1>8, <1>9 DEF Good
LEMMA PairAdded ==
  ASSUME NEW r, NEW s, NEW busy, Good(r, busy), Only(r, s, {"pairs"}), NEW p, Ready(r, busy, p),
         NEW e, PairFor(e, p, Size(r)), s.pairs = Append(r.pairs, e)
  PROVE  /\ Good(s, busy) /\ Grown(r, s)
         /\ Len(s.promises) = Len(r.promises) /\ Len(s.pairs) = Len(r.pairs) + 1 /\ Len(s.combs) = Len(r.combs)
         /\ s.pairs[Len(r.pairs) + 1].promise = p
<1>. /\ p \in 1..Len(r.promises) /\ Free(r, busy, p) /\ r.promises[p].state = "pending"
     /\ e.promise = p /\ ~e.alreadyResolved /\ e \in Pairs(Size(r))
  BY DEF Ready, Has, PairFor
<1>0. s.promises = r.promises /\ s.jobQueue = r.jobQueue /\ s.combs = r.combs /\ Shape(s) /\ s.finals \in Seq(Finals)
  BY DEF Only, Good, Typed
<1>1. r.pairs \in Seq(Pairs(Size(r))) /\ Typed(r) /\ OneEach(r, busy) /\ Len(r.pairs) \in Nat
  BY Sizes DEF Good, Typed
<1>3. /\ s.pairs \in Seq(Pairs(Size(r))) /\ Len(s.pairs) = Len(r.pairs) + 1
      /\ s.pairs[Len(r.pairs) + 1] = e
      /\ \A k \in 1..Len(r.pairs) : s.pairs[k] = r.pairs[k]
  BY <1>1, Appended
<1>4. AtMost(Size(r), Size(s)) /\ Size(s).p = Size(r).p
  BY <1>0, <1>1, <1>3, Sizes DEF Size, AtMost
<1>5. Typed(s)
  <2>1. s.promises \in Seq(PromiseObjects(Size(s))) /\ s.jobQueue \in Seq(JobsOf(Size(s)))
        /\ s.combs \in Seq(Combs(Size(s)))
    BY <1>0, <1>1, <1>4, TypedMono
  <2>2. s.pairs \in Seq(Pairs(Size(s)))
    BY <1>3, <1>4 DEF Pairs
  <2> QED BY <1>0, <2>1, <2>2 DEF Typed
<1>6. \A k \in 1..Len(s.pairs) : Unused(s, k) => (k \in 1..Len(r.pairs) /\ Unused(r, k)
                                                    /\ s.pairs[k] = r.pairs[k])
                                                \/ (k = Len(r.pairs) + 1 /\ s.pairs[k].promise = p)
  BY <1>1, <1>3 DEF Unused
<1>7. OneEach(s, busy)
  <2>1. \A k, m \in 1..Len(s.pairs) :
          Unused(s, k) /\ Unused(s, m) /\ s.pairs[k].promise = s.pairs[m].promise => k = m
    BY <1>1, <1>6 DEF OneEach, Free
  <2>2. \A k \in 1..Len(s.pairs), i \in 1..Len(s.jobQueue) :
          Unused(s, k) => ~Adopts(s.jobQueue, i, s.pairs[k].promise)
    BY <1>0, <1>1, <1>6, Zenon DEF OneEach, Free
  <2>3. \A k \in 1..Len(s.pairs) : Unused(s, k) => s.pairs[k].promise \notin busy
    BY <1>1, <1>6 DEF OneEach, Free
  <2>4. \A q \in 1..Len(s.promises) : s.promises[q].state # "pending" => Free(s, busy, q)
    <3> SUFFICES ASSUME NEW q \in 1..Len(s.promises), s.promises[q].state # "pending"
                 PROVE  Free(s, busy, q)
      OBVIOUS
    <3>1. q # p /\ Free(r, busy, q)
      BY <1>0, <1>1 DEF OneEach
    <3> QED BY <1>0, <1>6, <3>1 DEF Free
  <2> QED BY <1>0, <1>1, <2>1, <2>2, <2>3, <2>4, Zenon DEF OneEach
<1>8. Grown(r, s)
  <2>1. Keeps(r, s)
    BY <1>0, <1>1, <1>3, <1>4 DEF Keeps
  <2> QED BY <1>0, <2>1, SameQueue
<1> QED BY <1>0, <1>3, <1>5, <1>7, <1>8 DEF Good

(* A promise that has just been made is nobody's.                          *)
LEMMA PromiseAdded ==
  ASSUME NEW r, NEW s, NEW busy, Good(r, busy), Only(r, s, {"promises"}), NEW e,
         e \in PromiseObjects(Size(r)), e.state = "pending", TrackedWell(e), s.promises = Append(r.promises, e)
  PROVE  /\ Good(s, busy) /\ Grown(r, s)
         /\ Len(s.promises) = Len(r.promises) + 1 /\ Len(s.pairs) = Len(r.pairs) /\ Len(s.combs) = Len(r.combs)
         /\ Ready(s, busy, Len(r.promises) + 1)
<1>0. s.pairs = r.pairs /\ s.jobQueue = r.jobQueue /\ s.combs = r.combs /\ Shape(s) /\ s.finals \in Seq(Finals)
  BY DEF Only, Good, Typed
<1>1. r.promises \in Seq(PromiseObjects(Size(r))) /\ Typed(r) /\ OneEach(r, busy) /\ Len(r.promises) \in Nat
  BY Sizes DEF Good, Typed
<1>3. /\ s.promises \in Seq(PromiseObjects(Size(r))) /\ Len(s.promises) = Len(r.promises) + 1
      /\ s.promises[Len(r.promises) + 1] = e
      /\ \A p \in 1..Len(r.promises) : s.promises[p] = r.promises[p]
  BY <1>1, Appended
<1>4. AtMost(Size(r), Size(s))
  BY <1>0, <1>1, <1>3, Sizes DEF Size, AtMost
<1>5. Typed(s)
  <2>1. s.pairs \in Seq(Pairs(Size(s))) /\ s.jobQueue \in Seq(JobsOf(Size(s))) /\ s.combs \in Seq(Combs(Size(s)))
    BY <1>0, <1>1, <1>4, TypedMono
  <2>2. s.promises \in Seq(PromiseObjects(Size(s)))
    BY <1>3, <1>4, SeqTypesMono, Zenon
  <2> QED BY <1>0, <2>1, <2>2 DEF Typed
<1>6. Free(s, busy, Len(r.promises) + 1)
  <2>1. \A k \in 1..Len(r.pairs) : r.pairs[k].promise \in 1..Len(r.promises)
    BY <1>1, Elements, Zenon DEF Pairs, Size
  <2>2. \A i \in 1..Len(r.jobQueue) : r.jobQueue[i] \in JobsOf(Size(r))
    BY <1>1, Elements
  <2>3. \A i \in 1..Len(r.jobQueue) : ~Adopts(r.jobQueue, i, Len(r.promises) + 1)
    BY <1>1, <2>2 DEF JobsOf, Size, Adopts
  <2>4. Len(r.promises) + 1 \notin busy
    BY <1>1 DEF Good
  <2> QED BY <1>0, <1>1, <2>1, <2>3, <2>4 DEF Free
<1>7. OneEach(s, busy)
  <2>0. \A i, p : Adopts(s.jobQueue, i, p) => i \in 1..Len(s.jobQueue)
    BY DEF Adopts
  <2>1. \A q \in 1..Len(s.promises) : q \in 1..Len(r.promises) \/ q = Len(r.promises) + 1
    BY <1>1, <1>3
  <2>2. \A q \in 1..Len(s.promises) : s.promises[q].state # "pending" => Free(s, busy, q)
    BY <1>0, <1>1, <1>3, <2>1 DEF OneEach, Free, Unused
  <2>3. \A i, j \in 1..Len(s.jobQueue), p \in busy \cup (1..Len(s.promises)) :
          Adopts(s.jobQueue, i, p) => p \notin busy /\ (Adopts(s.jobQueue, j, p) => i = j)
    BY <1>0, <1>1, <1>6, <2>1 DEF OneEach, Free
  <2> QED BY <1>0, <1>1, <2>2, <2>3 DEF OneEach, Unused
<1>8. Grown(r, s)
  <2>1. Keeps(r, s)
    BY <1>0, <1>1, <1>3, <1>4 DEF Keeps
  <2> QED BY <1>0, <2>1, SameQueue
<1>9. busy \subseteq 1..Len(s.promises) /\ \A p \in 1..Len(s.promises) : TrackedWell(s.promises[p])
  BY <1>1, <1>3 DEF Good
<1> QED BY <1>0, <1>1, <1>3, <1>5, <1>6, <1>7, <1>8, <1>9 DEF Good, Ready, Has
LEMMA ReactionsQueued ==
  ASSUME NEW r, NEW s, NEW busy, Good(r, busy), Only(r, s, {"jobQueue"}), NEW jobs, JustReactions(jobs, Size(r)),
         s.jobQueue = r.jobQueue \o jobs
  PROVE  Good(s, busy) /\ Grown(r, s) /\ Size(s) = Size(r)
<1>. jobs \in Seq(JobsOf(Size(r))) /\ \A i \in 1..Len(jobs) : jobs[i].k # "thenable"
  BY DEF JustReactions
<1>0. s.promises = r.promises /\ s.pairs = r.pairs /\ s.combs = r.combs /\ Shape(s) /\ s.finals \in Seq(Finals)
  BY DEF Only, Good, Typed
<1>1. r.jobQueue \in Seq(JobsOf(Size(r))) /\ Typed(r) /\ OneEach(r, busy)
  BY DEF Good, Typed
<1>2. Len(r.jobQueue) \in Nat /\ Len(jobs) \in Nat
  BY <1>1, LenProperties
<1>3. /\ s.jobQueue \in Seq(JobsOf(Size(r))) /\ Len(s.jobQueue) = Len(r.jobQueue) + Len(jobs)
      /\ \A i \in 1..Len(s.jobQueue) :
           s.jobQueue[i] = IF i <= Len(r.jobQueue) THEN r.jobQueue[i] ELSE jobs[i - Len(r.jobQueue)]
  BY <1>1, ConcatProperties
<1>4. Size(s) = Size(r) /\ Typed(s)
  BY <1>0, <1>1, <1>3 DEF Typed, Size
<1>5. \A i, p : Adopts(s.jobQueue, i, p) => Adopts(r.jobQueue, i, p)
  <2> SUFFICES ASSUME NEW i \in 1..Len(s.jobQueue), NEW p, Adopts(s.jobQueue, i, p)
               PROVE  Adopts(r.jobQueue, i, p)
    BY DEF Adopts
  <2>1. CASE i <= Len(r.jobQueue)
    BY <2>1, <1>2, <1>3 DEF Adopts
  <2>2. CASE ~(i <= Len(r.jobQueue))
    <3>1. i - Len(r.jobQueue) \in 1..Len(jobs)
      BY <2>2, <1>2, <1>3
    <3> QED BY <2>2, <3>1, <1>3 DEF Adopts
  <2> QED BY <2>1, <2>2
<1>6. OneEach(s, busy)
  <2>1. \A k \in 1..Len(r.pairs) :
          s.pairs[k].promise = r.pairs[k].promise /\ (Unused(s, k) => Unused(r, k))
    BY <1>0 DEF Unused
  <2> QED BY <1>0, <1>1, <1>5, <2>1, FewerDeciders, Zenon
<1>7. Grown(r, s)
  <2>1. Keeps(r, s)
    BY <1>0, <1>1, <1>4, Sizes DEF Keeps
  <2>2. Longer(r.jobQueue, s.jobQueue)
    BY <1>2, <1>3 DEF Longer
  <2> QED BY <2>1, <2>2 DEF Grown
<1> QED BY <1>0, <1>4, <1>6, <1>7 DEF Good

LEMMA ThenableQueued ==
  ASSUME NEW r, NEW s, NEW busy, Good(r, busy), Only(r, s, {"jobQueue"}), NEW p, Ready(r, busy, p),
         NEW e, ThenableFor(e, p, Size(r)), s.jobQueue = Append(r.jobQueue, e)
  PROVE  Good(s, busy) /\ Grown(r, s) /\ Size(s) = Size(r)
<1>. /\ p \in 1..Len(r.promises) /\ Free(r, busy, p) /\ r.promises[p].state = "pending"
     /\ e \in JobsOf(Size(r)) /\ e.k = "thenable" /\ e.cap = p
  BY DEF Ready, Has, ThenableFor
<1>0. s.promises = r.promises /\ s.pairs = r.pairs /\ s.combs = r.combs /\ Shape(s) /\ s.finals \in Seq(Finals)
  BY DEF Only, Good, Typed
<1>1. r.jobQueue \in Seq(JobsOf(Size(r))) /\ Typed(r) /\ OneEach(r, busy) /\ Len(r.jobQueue) \in Nat
  BY Sizes DEF Good, Typed
<1>2. /\ s.jobQueue \in Seq(JobsOf(Size(r))) /\ Len(s.jobQueue) = Len(r.jobQueue) + 1
      /\ s.jobQueue[Len(r.jobQueue) + 1] = e
      /\ \A i \in 1..Len(r.jobQueue) : s.jobQueue[i] = r.jobQueue[i]
  BY <1>1, Appended
<1>4. Size(s) = Size(r) /\ Typed(s)
  BY <1>0, <1>1, <1>2 DEF Typed, Size
<1>5. \A i, q : Adopts(s.jobQueue, i, q) => (i \in 1..Len(r.jobQueue) /\ Adopts(r.jobQueue, i, q))
                                            \/ (i = Len(r.jobQueue) + 1 /\ q = p)
  BY <1>1, <1>2 DEF Adopts
<1>6. OneEach(s, busy)
  <2>1. \A k, m \in 1..Len(s.pairs) :
          Unused(s, k) /\ Unused(s, m) /\ s.pairs[k].promise = s.pairs[m].promise => k = m
    BY <1>0, <1>1 DEF OneEach, Unused
  <2>2. \A k \in 1..Len(s.pairs), i \in 1..Len(s.jobQueue) :
          Unused(s, k) => ~Adopts(s.jobQueue, i, s.pairs[k].promise)
    BY <1>0, <1>1, <1>5 DEF OneEach, Free, Unused
  <2>3. \A k \in 1..Len(s.pairs) : Unused(s, k) => s.pairs[k].promise \notin busy
    BY <1>0, <1>1 DEF OneEach, Unused
  <2>4. \A i, j \in 1..Len(s.jobQueue), q \in busy \cup (1..Len(s.promises)) :
          Adopts(s.jobQueue, i, q) => q \notin busy /\ (Adopts(s.jobQueue, j, q) => i = j)
    BY <1>0, <1>1, <1>5 DEF OneEach, Free
  <2>5. \A q \in 1..Len(s.promises) : s.promises[q].state # "pending" => Free(s, busy, q)
    <3> SUFFICES ASSUME NEW q \in 1..Len(s.promises), s.promises[q].state # "pending"
                 PROVE  Free(s, busy, q)
      OBVIOUS
    <3>1. q # p /\ Free(r, busy, q)
      BY <1>0, <1>1 DEF OneEach
    <3> QED BY <1>0, <1>5, <3>1 DEF Free, Unused
  <2> QED BY <2>1, <2>2, <2>3, <2>4, <2>5 DEF OneEach
<1>7. Grown(r, s)
  <2>1. Keeps(r, s)
    BY <1>0, <1>1, <1>4, Sizes DEF Keeps
  <2>2. Longer(r.jobQueue, s.jobQueue)
    BY <1>1, <1>2 DEF Longer
  <2> QED BY <2>1, <2>2 DEF Grown
<1> QED BY <1>0, <1>4, <1>6, <1>7 DEF Good

(* A promise is settled only when nobody else can decide it.               *)
LEMMA PromiseChanged ==
  ASSUME NEW r, NEW s, NEW busy, Good(r, busy), Only(r, s, {"promises"}), NEW p, Has(r, p),
         NEW e, NextOf(e, r, busy, p), s.promises = Put(r.promises, p, e)
  PROVE  /\ Good(s, busy) /\ Grown(r, s) /\ Size(s) = Size(r) /\ s.promises[p] = e
<1>. /\ p \in 1..Len(r.promises) /\ e \in PromiseObjects(Size(r)) /\ TrackedWell(e)
     /\ e.state = "pending" \/ Free(r, busy, p)
     /\ r.promises[p].state # "pending" => e.state = r.promises[p].state /\ e.result = r.promises[p].result
  BY DEF Has, NextOf
<1>0. s.jobQueue = r.jobQueue /\ s.pairs = r.pairs /\ s.combs = r.combs /\ Shape(s) /\ s.finals \in Seq(Finals)
  BY DEF Only, Good, Typed
<1>1. r.promises \in Seq(PromiseObjects(Size(r))) /\ Typed(r) /\ OneEach(r, busy)
  BY DEF Good, Typed
<1>2. /\ s.promises \in Seq(PromiseObjects(Size(r))) /\ Len(s.promises) = Len(r.promises)
      /\ \A q \in 1..Len(r.promises) : s.promises[q] = IF q = p THEN e ELSE r.promises[q]
  BY <1>1, ExceptSeq DEF Put
<1>3. Size(s) = Size(r) /\ Typed(s)
  BY <1>0, <1>1, <1>2 DEF Typed, Size
<1>4. OneEach(s, busy)
  <2>1. \A k \in 1..Len(r.pairs) :
          s.pairs[k].promise = r.pairs[k].promise /\ (Unused(s, k) => Unused(r, k))
    BY <1>0 DEF Unused
  <2>2. \A i, q : Adopts(s.jobQueue, i, q) => Adopts(r.jobQueue, i, q)
    BY <1>0
  <2>3. \A q \in 1..Len(r.promises) :
          s.promises[q].state # "pending" => r.promises[q].state # "pending" \/ Free(r, busy, q)
    BY <1>2
  <2> QED BY <1>0, <1>1, <1>2, <2>1, <2>2, <2>3, FewerDeciders
<1>5. Grown(r, s)
  <2>1. Keeps(r, s)
    BY <1>0, <1>1, <1>2, <1>3, Sizes, Zenon DEF Keeps
  <2> QED BY <1>0, <2>1, SameQueue
<1> QED BY <1>0, <1>2, <1>3, <1>4, <1>5 DEF Good

LEMMA CombsChanged ==
  ASSUME NEW r, NEW s, NEW busy, Good(r, busy), Only(r, s, {"combs"}), s.combs \in Seq(Combs(Size(s))),
         Len(r.combs) <= Len(s.combs)
  PROVE  Good(s, busy) /\ Grown(r, s)
<1>0. s.promises = r.promises /\ s.jobQueue = r.jobQueue /\ s.pairs = r.pairs /\ Shape(s) /\ s.finals \in Seq(Finals)
  BY DEF Only, Good, Typed
<1>1. Typed(r) /\ OneEach(r, busy) /\ Len(s.combs) \in Nat
  BY LenProperties DEF Good
<1>2. AtMost(Size(r), Size(s))
  BY <1>0, <1>1, Sizes DEF Size, AtMost
<1>3. Typed(s)
  BY <1>0, <1>1, <1>2, TypedMono, Zenon DEF Typed
<1>4. OneEach(s, busy)
  BY <1>0, <1>1, Zenon DEF OneEach, Free, Unused
<1>5. Grown(r, s)
  <2>1. Keeps(r, s)
    BY <1>0, <1>1, <1>2 DEF Keeps
  <2> QED BY <1>0, <2>1, SameQueue
<1> QED BY <1>0, <1>3, <1>4, <1>5 DEF Good
-----------------------------------------------------------------------------
(* The operations.                                                         *)

LEMMA NewPair ==
  ASSUME NEW r, NEW busy, Good(r, busy), NEW p, Ready(r, busy, p), NEW s, s = newPair(r, p)
  PROVE  /\ Good(s, busy) /\ Grown(r, s)
         /\ Len(s.promises) = Len(r.promises) /\ Len(s.pairs) = Len(r.pairs) + 1 /\ Len(s.combs) = Len(r.combs)
         /\ s.pairs[Len(r.pairs) + 1].promise = p
<1> DEFINE e == [promise |-> p, alreadyResolved |-> FALSE]
           q == Append(r.pairs, e)
<1>1. s = [r EXCEPT !.pairs = q]
  BY DEF newPair
<1>2. PairFor(e, p, Size(r))
  BY DEF Ready, Has, PairFor, Pairs, Size
<1>3. Shape(r) /\ q = Append(r.pairs, e)
  BY DEF Good, Typed
<1> HIDE DEF e, q
<1>4. Only(r, s, {"pairs"}) /\ s.pairs = q
  BY <1>1, <1>3, Set_pairs, Zenon
<1> QED BY <1>2, <1>3, <1>4, PairAdded, Zenon

LEMMA NewPromiseMade ==
  ASSUME NEW r, NEW busy, Good(r, busy), NEW s, s = newPromise(r)
  PROVE  /\ Good(s, busy) /\ Grown(r, s)
         /\ Len(s.promises) = Len(r.promises) + 1 /\ Len(s.pairs) = Len(r.pairs) + 1 /\ Len(s.combs) = Len(r.combs)
         /\ s.pairs[Len(s.pairs)].promise = Len(s.promises)
         /\ HasPair(s, Len(s.pairs)) /\ Has(s, Len(s.promises))
<1> DEFINE e == [state |-> "pending", result |-> Undefined, fulfillReactions |-> <<>>,
                 rejectReactions |-> <<>>, handled |-> FALSE, tracked |-> "none"]
           q == Append(r.promises, e)
           u == [r EXCEPT !.promises = q]
<1>1. s = newPair(u, Len(r.promises) + 1)
  BY DEF newPromise
<1>2. Shape(r) /\ Typed(r) /\ Len(r.pairs) \in Nat /\ Len(r.promises) \in Nat
  BY Sizes DEF Good, Typed
<1>3. e \in PromiseObjects(Size(r)) /\ e.state = "pending" /\ TrackedWell(e)
  <2>1. <<>> \in Seq(Reactions(Size(r)))
    BY EmptySeq
  <2>2. Undefined \in Values(Size(r))
    BY DEF Undefined, Val, Values
  <2> QED BY <2>1, <2>2 DEF PromiseObjects, TrackedWell
<1>4. Only(r, u, {"promises"}) /\ u.promises = q /\ q = Append(r.promises, e)
  BY <1>2, Set_promises, Zenon
<1> HIDE DEF e, q, u
<1>5. /\ Good(u, busy) /\ Grown(r, u)
      /\ Len(u.promises) = Len(r.promises) + 1 /\ Len(u.pairs) = Len(r.pairs) /\ Len(u.combs) = Len(r.combs)
      /\ Ready(u, busy, Len(r.promises) + 1)
  BY <1>3, <1>4, PromiseAdded
<1>6. /\ Good(s, busy) /\ Grown(u, s)
      /\ Len(s.promises) = Len(u.promises) /\ Len(s.pairs) = Len(u.pairs) + 1 /\ Len(s.combs) = Len(u.combs)
      /\ s.pairs[Len(u.pairs) + 1].promise = Len(r.promises) + 1
  BY <1>1, <1>5, NewPair
<1>7. Grown(r, s)
  BY <1>5, <1>6, GrownOn
<1> QED BY <1>2, <1>5, <1>6, <1>7 DEF Has, HasPair

(* The jobs of a promise's reactions.                                      *)
LEMMA Trigger ==
  ASSUME NEW r, NEW busy, Good(r, busy), NEW reactions, reactions \in Seq(Reactions(Size(r))),
         NEW typ, typ \in {"fulfill", "reject"}, NEW x, x \in Values(Size(r)),
         NEW s, s = triggerPromiseReactions(r, reactions, typ, x)
  PROVE  Good(s, busy) /\ Grown(r, s) /\ Size(s) = Size(r)
<1> DEFINE jobs == [i \in 1..Len(reactions) |->
                      Job("reaction", typ, reactions[i].cap, reactions[i].handler, x)]
           q == r.jobQueue \o jobs
<1>1. Len(reactions) \in Nat /\ \A i \in 1..Len(reactions) : reactions[i] \in Reactions(Size(r))
  BY ElementOfSeq, LenProperties
<1>2. \A i \in 1..Len(reactions) : jobs[i] \in JobsOf(Size(r)) /\ jobs[i].k = "reaction"
  <2>1. Size(r).k \in Nat
    BY Sizes DEF Good
  <2> SUFFICES ASSUME NEW i \in 1..Len(reactions)
               PROVE  jobs[i] \in JobsOf(Size(r)) /\ jobs[i].k = "reaction"
    OBVIOUS
  <2>2. reactions[i].cap \in 0..Size(r).k /\ reactions[i].handler \in Functions(Size(r))
    BY <1>1 DEF Reactions
  <2>3. jobs[i] = Job("reaction", typ, reactions[i].cap, reactions[i].handler, x)
    OBVIOUS
  <2> HIDE DEF jobs
  <2> QED BY <2>1, <2>2, <2>3 DEF Job, JobsOf
<1>3. jobs \in Seq(JobsOf(Size(r))) /\ Len(jobs) = Len(reactions)
  <2>1. jobs \in [1..Len(reactions) -> JobsOf(Size(r))]
    BY <1>2
  <2> HIDE DEF jobs
  <2> QED BY <1>1, <2>1, SeqDef, LenProperties
<1>4. s = [r EXCEPT !.jobQueue = q] /\ Shape(r) /\ q = r.jobQueue \o jobs
  BY DEF triggerPromiseReactions, Good, Typed
<1> HIDE DEF jobs, q
<1>5. Only(r, s, {"jobQueue"}) /\ s.jobQueue = q
  BY <1>4, Set_jobQueue
<1>6. JustReactions(jobs, Size(r))
  BY <1>2, <1>3 DEF JustReactions
<1> QED BY <1>4, <1>5, <1>6, ReactionsQueued, Zenon

LEMMA SettlementIs ==
  ASSUME NEW n, NEW q, q \in PromiseObjects(n), NEW st, st \in {"fulfilled", "rejected"},
         NEW x, x \in Values(n), NEW e, e = settlement(q, st, x)
  PROVE  e \in PromiseObjects(n) /\ e.state = st /\ e.handled = q.handled /\ e.tracked = q.tracked
<1>1. <<>> \in Seq(Reactions(n))
  BY EmptySeq
<1> QED BY <1>1 DEF PromiseObjects, settlement

LEMMA Fulfilled ==
  ASSUME NEW r, NEW busy, Good(r, busy), NEW p, Ready(r, busy, p), NEW x, x \in Values(Size(r)),
         NEW s, s = fulfill(r, p, x)
  PROVE  Good(s, busy) /\ Grown(r, s) /\ Size(s) = Size(r)
<1> DEFINE q == r.promises[p]
           e == settlement(q, "fulfilled", x)
           u == [r EXCEPT !.promises[p] = e]
           reactions == r.promises[p].fulfillReactions
<1>1. s = triggerPromiseReactions(u, reactions, "fulfill", x) /\ q = r.promises[p]
      /\ e = settlement(q, "fulfilled", x)
  BY DEF fulfill
<1>2. Typed(r) /\ Has(r, p) /\ Free(r, busy, p) /\ q.state = "pending"
  BY DEF Good, Ready
<1>3. q \in PromiseObjects(Size(r)) /\ TrackedWell(q)
  BY <1>2, Elements DEF Has, Good
<1> HIDE DEF e
<1>4. u = [r EXCEPT !.promises = Put(r.promises, p, e)] /\ Shape(r)
  BY <1>2 DEF Put, Typed
<1> HIDE DEF u
<1>6. Only(r, u, {"promises"}) /\ u.promises = Put(r.promises, p, e)
  BY <1>4, Set_promises
<1>7. reactions \in Seq(Reactions(Size(r)))
  BY <1>3 DEF PromiseObjects
<1> HIDE DEF q, reactions
<1>5. e \in PromiseObjects(Size(r)) /\ e.state = "fulfilled" /\ e.handled = q.handled /\ e.tracked = q.tracked
  BY <1>1, <1>3, SettlementIs
<1>8. NextOf(e, r, busy, p)
  BY <1>1, <1>2, <1>3, <1>5 DEF NextOf, TrackedWell
<1>9. Good(u, busy) /\ Grown(r, u) /\ Size(u) = Size(r)
  <2>1. Good(u, busy) /\ Grown(r, u) /\ Size(u) = Size(r) /\ u.promises[p] = e
    BY <1>2, <1>6, <1>8, PromiseChanged
  <2> QED BY <2>1
<1>10. Good(s, busy) /\ Grown(u, s) /\ Size(s) = Size(u)
  BY <1>1, <1>7, <1>9, Trigger
<1> QED BY <1>9, <1>10, GrownOn

LEMMA Rejected ==
  ASSUME NEW r, NEW busy, Good(r, busy), NEW p, Ready(r, busy, p), NEW x, x \in Values(Size(r)),
         NEW s, s = reject(r, p, x)
  PROVE  Good(s, busy) /\ Grown(r, s) /\ Size(s) = Size(r)
<1> DEFINE q == r.promises[p]
           d == settlement(q, "rejected", x)
           t == [r EXCEPT !.promises[p] = d]
           e == [d EXCEPT !.tracked = IF d.handled THEN @ ELSE "reject"]
           u == trackPromiseRejection(t, p, "reject")
           reactions == r.promises[p].rejectReactions
<1>1. s = triggerPromiseReactions(u, reactions, "reject", x) /\ q = r.promises[p]
      /\ d = settlement(q, "rejected", x)
  BY DEF reject
<1>2. Typed(r) /\ Has(r, p) /\ Free(r, busy, p) /\ q.state = "pending"
  BY DEF Good, Ready
<1>3. q \in PromiseObjects(Size(r)) /\ TrackedWell(q)
  BY <1>2, Elements DEF Has, Good
<1> HIDE DEF d
<1>4. u = [r EXCEPT !.promises = Put(r.promises, p, e)] /\ Shape(r)
  <2>1. r.promises \in Seq(PromiseObjects(Size(r))) /\ Shape(r) /\ p \in 1..Len(r.promises)
    BY <1>2 DEF Typed, Has
  <2>2. t.promises = [r.promises EXCEPT ![p] = d] /\ t.promises[p] = d
    BY <2>1 DEF Shape
  <2>3. u = [t EXCEPT !.promises = [t.promises EXCEPT ![p] = e]]
    BY <2>2, Zenon DEF trackPromiseRejection
  <2>4. [t.promises EXCEPT ![p] = e] = [r.promises EXCEPT ![p] = e]
    <3> HIDE DEF e, t
    <3> QED BY <2>1, <2>2
  <2>5. Shape(r)
    BY <2>1
  <2> QED BY <2>1, <2>3, <2>4, <2>5, Zenon DEF Shape, Put
<1> HIDE DEF u
<1>6. Only(r, u, {"promises"}) /\ u.promises = Put(r.promises, p, e)
  <2> HIDE DEF e
  <2> QED BY <1>4, Set_promises
<1>7. reactions \in Seq(Reactions(Size(r)))
  BY <1>3 DEF PromiseObjects
<1> HIDE DEF q, reactions
<1>5. d \in PromiseObjects(Size(r)) /\ d.state = "rejected" /\ d.handled = q.handled /\ d.tracked = q.tracked
  BY <1>1, <1>3, SettlementIs
<1>8. NextOf(e, r, busy, p)
  <2>1. e \in PromiseObjects(Size(r)) /\ e.state = "rejected" /\ e.handled = q.handled
        /\ e.tracked = IF q.handled THEN q.tracked ELSE "reject"
    BY <1>5 DEF PromiseObjects
  <2> HIDE DEF e
  <2> QED BY <1>1, <1>2, <1>3, <2>1 DEF NextOf, TrackedWell
<1> HIDE DEF e
<1>9. Good(u, busy) /\ Grown(r, u) /\ Size(u) = Size(r)
  <2>1. Good(u, busy) /\ Grown(r, u) /\ Size(u) = Size(r) /\ u.promises[p] = e
    BY <1>2, <1>6, <1>8, PromiseChanged
  <2> QED BY <2>1
<1>10. Good(s, busy) /\ Grown(u, s) /\ Size(s) = Size(u)
  BY <1>1, <1>7, <1>9, Trigger
<1> QED BY <1>9, <1>10, GrownOn
(* Values that the runtime makes itself.                                   *)
LEMMA OwnValues ==
  ASSUME NEW n
  PROVE  /\ Undefined \in Values(n) /\ TypeError \in Values(n) /\ Val("plain", 1) \in Values(n)
         /\ NoFn \in Functions(n)
BY DEF Undefined, TypeError, Val, Values, NoFn, Fn, Functions, Natives

LEMMA Queued ==
  ASSUME NEW r, NEW busy, Good(r, busy), NEW p, Ready(r, busy, p), NEW job, ThenableFor(job, p, Size(r)),
         NEW s, s = enqueuePromiseJob(r, job)
  PROVE  Good(s, busy) /\ Grown(r, s) /\ Size(s) = Size(r)
<1> DEFINE q == Append(r.jobQueue, job)
<1>1. s = [r EXCEPT !.jobQueue = q] /\ Shape(r) /\ q = Append(r.jobQueue, job)
  BY DEF enqueuePromiseJob, Good, Typed
<1> HIDE DEF q
<1>2. Only(r, s, {"jobQueue"}) /\ s.jobQueue = q
  BY <1>1, Set_jobQueue, Zenon
<1> QED BY <1>1, <1>2, ThenableQueued, Zenon

LEMMA Resolution ==
  ASSUME NEW r, NEW busy, Good(r, busy), NEW p, Ready(r, busy, p), NEW x, x \in Values(Size(r)),
         NEW s, s = resolution(r, p, x)
  PROVE  Good(s, busy) /\ Grown(r, s) /\ Size(s) = Size(r)
<1>1. CASE x = PromiseVal(p)
  <2>1. x.t # "trap"
    BY <1>1 DEF PromiseVal, Val
  <2>2. s = reject(r, p, TypeError)
    BY <1>1, <2>1 DEF resolution
  <2> QED BY <2>2, OwnValues, Rejected
<1>2. CASE x # PromiseVal(p) /\ x.t = "trap"
  <2>1. s = reject(r, p, Val("plain", 1))
    BY <1>2 DEF resolution
  <2> QED BY <2>1, OwnValues, Rejected
<1>3. CASE x # PromiseVal(p) /\ x.t \in {"promise", "thenable"}
  <2> DEFINE u == [r EXCEPT !.adopted = @ \cup {<<p, x>>}]
             a == r.adopted \cup {<<p, x>>}
             job == Job("thenable", "none", p, NoFn, x)
  <2>1. s = enqueuePromiseJob(u, job) /\ u = [r EXCEPT !.adopted = a]
    BY <1>3 DEF resolution
  <2>2. ThenableFor(job, p, Size(r))
    <3>1. p \in 1..Size(r).p /\ NoFn \in Functions(Size(r))
      BY OwnValues DEF Ready, Has, Size
    <3> QED BY <3>1 DEF Job, ThenableFor, JobsOf
  <2>3. Shape(r)
    BY DEF Good, Typed
  <2> HIDE DEF u, a, job
  <2>4. Only(r, u, Counters)
    <3>1. Only(r, u, {"adopted"})
      BY <2>1, <2>3, Set_adopted
    <3> QED BY <3>1 DEF Only, Counters
  <2>5. Good(u, busy) /\ Grown(r, u) /\ Size(u) = Size(r)
    BY <2>4, Quiet
  <2>6. Ready(u, busy, p)
    <3>1. u.promises = r.promises /\ u.pairs = r.pairs /\ u.jobQueue = r.jobQueue
      BY <2>4 DEF Only, Counters
    <3> QED BY <3>1 DEF Ready, Has, Free, Unused
  <2>7. Good(s, busy) /\ Grown(u, s) /\ Size(s) = Size(u)
    BY <2>1, <2>2, <2>5, <2>6, Queued
  <2> QED BY <2>5, <2>7, GrownOn
<1>4. CASE x # PromiseVal(p) /\ x.t # "trap" /\ x.t \notin {"promise", "thenable"}
  <2>1. s = fulfill(r, p, x)
    BY <1>4 DEF resolution
  <2> QED BY <2>1, Fulfilled
<1> QED BY <1>1, <1>2, <1>3, <1>4

(* The pair of a promise that has been used leaves nobody else.            *)
LEMMA UsePair ==
  ASSUME NEW r, NEW busy, Good(r, busy), NEW k, HasPair(r, k), ~r.pairs[k].alreadyResolved,
         NEW s, s = [r EXCEPT !.pairs[k].alreadyResolved = TRUE]
  PROVE  Good(s, busy) /\ Grown(r, s) /\ Size(s) = Size(r) /\ Ready(s, busy, r.pairs[k].promise)
<1> DEFINE e == [r.pairs[k] EXCEPT !.alreadyResolved = TRUE]
           q == Put(r.pairs, k, e)
           u == [r EXCEPT !.pairs = q]
           p == r.pairs[k].promise
<1>1. s = u
  BY DEF Put
<1>2. /\ r.pairs[k] \in Pairs(Size(r)) /\ Shape(r) /\ k \in 1..Len(r.pairs) /\ Typed(r)
      /\ r.pairs \in Seq(Pairs(Size(r))) /\ OneEach(r, busy)
  BY Elements DEF HasPair, Good, Typed
<1>3. UsedPair(e, r.pairs[k], Size(r)) /\ e.alreadyResolved /\ e \in Pairs(Size(r)) /\ q = Put(r.pairs, k, e)
  BY <1>2, Zenon DEF UsedPair, Pairs
<1> HIDE DEF e, q
<1>4. Only(r, u, {"pairs"}) /\ u.pairs = q
  BY <1>2, Set_pairs, Zenon
<1> HIDE DEF u
<1>5. Good(u, busy) /\ Grown(r, u) /\ Size(u) = Size(r)
  BY <1>3, <1>4, PairUsed
<1>6. Len(u.pairs) = Len(r.pairs) /\ \A m \in 1..Len(r.pairs) : u.pairs[m] = IF m = k THEN e ELSE r.pairs[m]
  BY <1>2, <1>3, <1>4, ExceptSeq DEF Put
<1>7. u.promises = r.promises /\ u.jobQueue = r.jobQueue
  BY <1>4 DEF Only
<1>8. Unused(r, k) /\ p \in 1..Len(r.promises)
  BY <1>2 DEF Unused, Pairs, Size
<1>9. r.promises[p].state = "pending"
  BY <1>2, <1>8 DEF OneEach, Free
<1>10. Free(u, busy, p)
  <2>1. \A m \in 1..Len(u.pairs) : Unused(u, m) => u.pairs[m].promise # p
    BY <1>2, <1>3, <1>6, <1>8 DEF OneEach, Unused
  <2> QED BY <1>2, <1>7, <1>8, <2>1 DEF OneEach, Free
<1>11. Ready(u, busy, p)
  BY <1>7, <1>8, <1>9, <1>10 DEF Ready, Has
<1> QED BY <1>1, <1>5, <1>11, Zenon

LEMMA Resolved ==
  ASSUME NEW r, NEW busy, Good(r, busy), NEW k, HasPair(r, k), NEW x, x \in Values(Size(r)),
         NEW s, s = resolve(r, k, x)
  PROVE  Good(s, busy) /\ Grown(r, s) /\ Size(s) = Size(r)
<1>1. CASE r.pairs[k].alreadyResolved
  <2>1. s = r /\ Typed(r)
    BY <1>1 DEF resolve, Good
  <2> QED BY <2>1, GrownSelf
<1>2. CASE ~r.pairs[k].alreadyResolved
  <2> DEFINE u == [r EXCEPT !.pairs[k].alreadyResolved = TRUE]
  <2>1. s = resolution(u, r.pairs[k].promise, x)
    BY <1>2 DEF resolve
  <2>2. Good(u, busy) /\ Grown(r, u) /\ Size(u) = Size(r) /\ Ready(u, busy, r.pairs[k].promise)
    BY <1>2, UsePair
  <2> HIDE DEF u
  <2>3. Good(s, busy) /\ Grown(u, s) /\ Size(s) = Size(u)
    BY <2>1, <2>2, Resolution
  <2> QED BY <2>2, <2>3, GrownOn
<1> QED BY <1>1, <1>2

LEMMA RejectedBy ==
  ASSUME NEW r, NEW busy, Good(r, busy), NEW k, HasPair(r, k), NEW x, x \in Values(Size(r)),
         NEW s, s = rejectBy(r, k, x)
  PROVE  Good(s, busy) /\ Grown(r, s) /\ Size(s) = Size(r)
<1>1. CASE r.pairs[k].alreadyResolved
  <2>1. s = r /\ Typed(r)
    BY <1>1 DEF rejectBy, Good
  <2> QED BY <2>1, GrownSelf
<1>2. CASE ~r.pairs[k].alreadyResolved
  <2> DEFINE u == [r EXCEPT !.pairs[k].alreadyResolved = TRUE]
  <2>1. s = reject(u, r.pairs[k].promise, x)
    BY <1>2 DEF rejectBy
  <2>2. Good(u, busy) /\ Grown(r, u) /\ Size(u) = Size(r) /\ Ready(u, busy, r.pairs[k].promise)
    BY <1>2, UsePair
  <2> HIDE DEF u
  <2>3. Good(s, busy) /\ Grown(u, s) /\ Size(s) = Size(u)
    BY <2>1, <2>2, Rejected
  <2> QED BY <2>2, <2>3, GrownOn
<1> QED BY <1>1, <1>2
-----------------------------------------------------------------------------
(* Combinators.                                                            *)

LEMMA PutTyped ==
  ASSUME NEW S, NEW q, q \in Seq(S), NEW i, NEW e, e \in S
  PROVE  Put(q, i, e) \in Seq(S)
<1>1. CASE i \in 1..Len(q)
  BY <1>1, ExceptSeq DEF Put
<1>2. CASE i \notin 1..Len(q)
  <2>1. q \in [1..Len(q) -> S]
    BY LenProperties
  <2>2. Put(q, i, e) = q
    BY <1>2, <2>1 DEF Put
  <2> QED BY <2>2
<1> QED BY <1>1, <1>2

(* The combinators change, but neither how many there are nor what they    *)
(* settle.                                                                 *)
Recounted(r, s) ==
  /\ Grown(r, s) /\ Size(s) = Size(r) /\ Only(r, s, {"combs"})
  /\ \A c : HasComb(r, c) => s.combs[c].cap = r.combs[c].cap

LEMMA CombPut ==
  ASSUME NEW r, NEW busy, Good(r, busy), NEW c, HasComb(r, c), NEW e, e \in Combs(Size(r)),
         e.cap = r.combs[c].cap, NEW s, s = [r EXCEPT !.combs = Put(r.combs, c, e)]
  PROVE  Good(s, busy) /\ Recounted(r, s)
<1> DEFINE q == Put(r.combs, c, e)
<1>1. /\ Shape(r) /\ c \in 1..Len(r.combs) /\ r.combs \in Seq(Combs(Size(r)))
      /\ s = [r EXCEPT !.combs = q] /\ q = Put(r.combs, c, e) /\ Typed(r)
  BY DEF HasComb, Good, Typed
<1> HIDE DEF q
<1>2. Only(r, s, {"combs"}) /\ s.combs = q
  BY <1>1, Set_combs
<1>3. q \in Seq(Combs(Size(r))) /\ Len(q) = Len(r.combs)
  BY <1>1, ExceptSeq DEF Put
<1>4. Size(s) = Size(r)
  BY <1>2, <1>3 DEF Size, Only
<1>5. Len(r.combs) <= Len(s.combs)
  BY <1>1, <1>2, <1>3, Sizes
<1>6. Good(s, busy) /\ Grown(r, s)
  BY <1>2, <1>3, <1>4, <1>5, CombsChanged, Zenon
<1>7. \A d : HasComb(r, d) => s.combs[d].cap = r.combs[d].cap
  BY <1>1, <1>2 DEF HasComb, Put
<1> QED BY <1>2, <1>4, <1>6, <1>7 DEF Recounted

LEMMA CombIs ==
  ASSUME NEW r, NEW busy, Good(r, busy), NEW c, HasComb(r, c)
  PROVE  /\ r.combs[c] \in Combs(Size(r)) /\ HasPair(r, r.combs[c].cap)
         /\ List(c) \in Values(Size(r)) /\ AggregateError(c) \in Values(Size(r))
<1>1. r.combs[c] \in Combs(Size(r)) /\ c \in Nat
  BY Elements, Sizes DEF Good, HasComb
<1>2. HasPair(r, r.combs[c].cap)
  BY <1>1, Zenon DEF Combs, HasPair, Size
<1> QED BY <1>1, <1>2 DEF List, AggregateError, Val, Values

LEMMA Finished ==
  ASSUME NEW r, NEW busy, Good(r, busy), NEW c, HasComb(r, c), NEW s, s = finish(r, c)
  PROVE  Good(s, busy) /\ Grown(r, s) /\ Size(s) = Size(r)
<1> DEFINE k == r.combs[c].cap
           op == IF r.combs[c].remaining = 0 THEN r.combs[c].op ELSE "waiting"
<1>1. HasPair(r, k) /\ List(c) \in Values(Size(r)) /\ AggregateError(c) \in Values(Size(r))
  BY CombIs
<1>2. s = CASE op \in {"all", "allSettled"} -> resolve(r, k, List(c))
            [] op = "any"                   -> rejectBy(r, k, AggregateError(c))
            [] OTHER                        -> r
  BY DEF finish
<1> HIDE DEF k, op
<1>3. CASE s = resolve(r, k, List(c))
  BY <1>1, <1>3, Resolved
<1>4. CASE s = rejectBy(r, k, AggregateError(c))
  BY <1>1, <1>4, RejectedBy
<1>5. CASE s = r
  <2>1. Typed(r)
    BY DEF Good
  <2> QED BY <1>5, <2>1, GrownSelf
<1> QED BY <1>2, <1>3, <1>4, <1>5

(* What happens before a combinator may finish.                            *)
LEMMA ElementSet ==
  ASSUME NEW r, NEW busy, Good(r, busy), NEW c, HasComb(r, c), NEW i, i \in Nat,
         NEW status, status \in {"fulfilled", "rejected"}, NEW x, x \in Values(Size(r)),
         NEW u, u = [r EXCEPT !.combs[c].values[i] = [status |-> status, value |-> x],
                              !.combs[c].called = @ \cup {i}, !.combs[c].remaining = @ - 1]
  PROVE  Good(u, busy) /\ Recounted(r, u)
<1> DEFINE v == [status |-> status, value |-> x]
           m == r.combs[c]
           values == Put(m.values, i, v)
           called == m.called \cup {i}
           remaining == m.remaining - 1
           d == [m EXCEPT !.values = values]
           f == [d EXCEPT !.called = called]
           e == [f EXCEPT !.remaining = remaining]
<1>1. m \in Combs(Size(r)) /\ Shape(r) /\ r.combs \in Seq(Combs(Size(r))) /\ c \in 1..Len(r.combs)
  BY CombIs DEF Good, Typed, HasComb
<1>2. u = [r EXCEPT !.combs = Put(r.combs, c, e)]
  BY <1>1 DEF Put
<1>3. e \in Combs(Size(r)) /\ e.cap = m.cap
  <2>1. v \in Counts(Size(r))
    BY DEF Counts
  <2>2. m.values \in Seq(Counts(Size(r))) /\ called \in SUBSET Nat /\ remaining \in Int
    <3> HIDE DEF v, values, d, f, e
    <3>1. m.called \in SUBSET Nat /\ m.remaining \in Int /\ m.values \in Seq(Counts(Size(r)))
      BY <1>1, Zenon DEF Combs
    <3> HIDE DEF m
    <3> QED BY <3>1
  <2> HIDE DEF v
  <2>3. values \in Seq(Counts(Size(r)))
    BY <2>1, <2>2, PutTyped
  <2> HIDE DEF values, called, remaining
  <2>4. d \in Combs(Size(r)) /\ d.cap = m.cap
    BY <1>1, <2>3, Zenon DEF Combs
  <2> HIDE DEF d
  <2>5. f \in Combs(Size(r)) /\ f.cap = m.cap
    BY <2>2, <2>4, Zenon DEF Combs
  <2> HIDE DEF f
  <2> QED BY <2>2, <2>5, Zenon DEF Combs
<1> HIDE DEF e
<1> QED BY <1>2, <1>3, CombPut, Zenon

LEMMA Counted ==
  ASSUME NEW r, NEW busy, Good(r, busy), NEW c, HasComb(r, c), NEW p, p \in Nat, NEW s, s = counted(r, c, p)
  PROVE  Good(s, busy) /\ Recounted(r, s)
<1> DEFINE v == [status |-> "none", value |-> Undefined]
           m == r.combs[c]
           values == Append(m.values, v)
           inputs == Append(m.inputs, p)
           remaining == IF m.op = "race" THEN m.remaining ELSE m.remaining + 1
           d == [m EXCEPT !.values = values]
           f == [d EXCEPT !.inputs = inputs]
           e == [f EXCEPT !.remaining = remaining]
<1>1. m \in Combs(Size(r)) /\ Shape(r) /\ r.combs \in Seq(Combs(Size(r))) /\ c \in 1..Len(r.combs)
  BY CombIs DEF Good, Typed, HasComb
<1>2. s = [r EXCEPT !.combs = Put(r.combs, c, e)]
  BY <1>1 DEF Put, counted
<1>3. e \in Combs(Size(r)) /\ e.cap = m.cap
  <2>1. v \in Counts(Size(r))
    BY OwnValues DEF Counts
  <2>2. m.values \in Seq(Counts(Size(r))) /\ inputs \in Seq(Nat) /\ remaining \in Int
    <3> HIDE DEF v, values, d, f, e
    <3>1. m.inputs \in Seq(Nat) /\ m.remaining \in Int /\ m.values \in Seq(Counts(Size(r)))
      BY <1>1, Zenon DEF Combs
    <3> HIDE DEF m
    <3> QED BY <3>1, AppendProperties
  <2> HIDE DEF v
  <2>3. values \in Seq(Counts(Size(r)))
    BY <2>1, <2>2, AppendProperties
  <2> HIDE DEF values, inputs, remaining
  <2>4. d \in Combs(Size(r)) /\ d.cap = m.cap
    BY <1>1, <2>3, Zenon DEF Combs
  <2> HIDE DEF d
  <2>5. f \in Combs(Size(r)) /\ f.cap = m.cap
    BY <2>2, <2>4, Zenon DEF Combs
  <2> HIDE DEF f
  <2> QED BY <2>2, <2>5, Zenon DEF Combs
<1> HIDE DEF e
<1> QED BY <1>2, <1>3, CombPut

LEMMA EndSet ==
  ASSUME NEW r, NEW busy, Good(r, busy), NEW c, HasComb(r, c),
         NEW u, u = [r EXCEPT !.combs[c].over = TRUE,
                              !.combs[c].remaining = IF r.combs[c].op = "race" THEN @ ELSE @ - 1]
  PROVE  Good(u, busy) /\ Recounted(r, u)
<1> DEFINE m == r.combs[c]
           remaining == IF m.op = "race" THEN m.remaining ELSE m.remaining - 1
           d == [m EXCEPT !.over = TRUE]
           e == [d EXCEPT !.remaining = remaining]
<1>1. m \in Combs(Size(r)) /\ Shape(r) /\ r.combs \in Seq(Combs(Size(r))) /\ c \in 1..Len(r.combs)
  BY CombIs DEF Good, Typed, HasComb
<1>2. u = [r EXCEPT !.combs = Put(r.combs, c, e)]
  BY <1>1, Zenon DEF Put
<1>3. e \in Combs(Size(r)) /\ e.cap = m.cap
  <2>1. remaining \in Int
    <3>1. m.remaining \in Int
      <4> HIDE DEF remaining, d, e
      <4> QED BY <1>1, Zenon DEF Combs
    <3> HIDE DEF m
    <3> QED BY <3>1
  <2> HIDE DEF remaining
  <2>2. d \in Combs(Size(r)) /\ d.cap = m.cap
    BY <1>1, Zenon DEF Combs
  <2> HIDE DEF d
  <2> QED BY <2>1, <2>2, Zenon DEF Combs
<1> HIDE DEF e
<1> QED BY <1>2, <1>3, CombPut, Zenon

(* The combinator finishes.                                                *)
LEMMA ThenFinished ==
  ASSUME NEW r, NEW busy, NEW c, HasComb(r, c), NEW u, Good(u, busy), Recounted(r, u), NEW s, s = finish(u, c)
  PROVE  Good(s, busy) /\ Grown(r, s) /\ Size(s) = Size(r)
<1>1. HasComb(u, c) /\ Grown(r, u) /\ Size(u) = Size(r)
  BY DEF HasComb, Recounted, Size
<1>2. Good(s, busy) /\ Grown(u, s) /\ Size(s) = Size(u)
  BY <1>1, Finished
<1> QED BY <1>1, <1>2, GrownOn

(* One of the functions that a combinator gives to an element's then().    *)
LEMMA Element ==
  ASSUME NEW r, NEW busy, Good(r, busy), NEW c, HasComb(r, c), NEW i, i \in Nat,
         NEW status, status \in {"fulfilled", "rejected"}, NEW x, x \in Values(Size(r)),
         NEW s, s = element(r, c, i, status, x)
  PROVE  Good(s, busy) /\ Grown(r, s) /\ Size(s) = Size(r)
<1>1. CASE i \in r.combs[c].called
  <2>1. s = r /\ Typed(r)
    BY <1>1 DEF element, Good
  <2> QED BY <2>1, GrownSelf
<1>2. CASE i \notin r.combs[c].called
  <2> DEFINE u == [r EXCEPT !.combs[c].values[i] = [status |-> status, value |-> x],
                            !.combs[c].called = @ \cup {i}, !.combs[c].remaining = @ - 1]
  <2>1. s = finish(u, c)
    BY <1>2 DEF element
  <2>2. Good(u, busy) /\ Recounted(r, u)
    BY ElementSet
  <2> HIDE DEF u
  <2> QED BY <2>1, <2>2, ThenFinished
<1> QED BY <1>1, <1>2

LEMMA Ended ==
  ASSUME NEW r, NEW busy, Good(r, busy), NEW c, HasComb(r, c), NEW s, s = ended(r, c)
  PROVE  Good(s, busy) /\ Grown(r, s) /\ Size(s) = Size(r)
<1> DEFINE u == [r EXCEPT !.combs[c].over = TRUE,
                          !.combs[c].remaining = IF r.combs[c].op = "race" THEN @ ELSE @ - 1]
<1>1. s = finish(u, c)
  BY DEF ended
<1>2. Good(u, busy) /\ Recounted(r, u)
  BY EndSet
<1> HIDE DEF u
<1> QED BY <1>1, <1>2, ThenFinished

(* Calls of native functions, and the end of a reaction's job.             *)
LEMMA Called ==
  ASSUME NEW r, NEW busy, Good(r, busy), NEW fn, fn \in Functions(Size(r)), NEW x, x \in Values(Size(r)),
         NEW s, s = call(r, fn, x)
  PROVE  Good(s, busy) /\ Grown(r, s) /\ Size(s) = Size(r)
<1>1. CASE fn.f = "resolve"
  <2>1. HasPair(r, fn.a) /\ s = resolve(r, fn.a, x)
    BY <1>1 DEF Functions, HasPair, Size, call
  <2> QED BY <2>1, Resolved
<1>2. CASE fn.f = "reject"
  <2>1. HasPair(r, fn.a) /\ s = rejectBy(r, fn.a, x)
    BY <1>2 DEF Functions, HasPair, Size, call
  <2> QED BY <2>1, RejectedBy
<1>3. CASE fn.f \in {"fulfilled", "rejected"}
  <2>1. HasComb(r, fn.a) /\ fn.b \in Nat /\ s = element(r, fn.a, fn.b, fn.f, x)
    BY <1>3 DEF Functions, HasComb, Size, call
  <2> QED BY <1>3, <2>1, Element
<1>4. CASE fn.f \notin {"resolve", "reject", "fulfilled", "rejected"}
  <2>1. s = r /\ Typed(r)
    BY <1>4 DEF call, Good
  <2> QED BY <2>1, GrownSelf
<1> QED BY <1>1, <1>2, <1>3, <1>4

LEMMA SettledBy ==
  ASSUME NEW r, NEW busy, Good(r, busy), NEW cap, cap = NoPair \/ HasPair(r, cap),
         NEW ok, ok \in BOOLEAN, NEW x, x \in Values(Size(r)), NEW s, s = settle(r, cap, ok, x)
  PROVE  Good(s, busy) /\ Grown(r, s) /\ Size(s) = Size(r)
<1>1. CASE cap = NoPair
  <2>1. s = r /\ Typed(r)
    BY <1>1 DEF settle, Good
  <2> QED BY <2>1, GrownSelf
<1>2. CASE cap # NoPair /\ ok
  <2>1. HasPair(r, cap) /\ s = resolve(r, cap, x)
    BY <1>2 DEF settle
  <2> QED BY <2>1, Resolved
<1>3. CASE cap # NoPair /\ ~ok
  <2>1. HasPair(r, cap) /\ s = rejectBy(r, cap, x)
    BY <1>3 DEF settle
  <2> QED BY <2>1, RejectedBy
<1> QED BY <1>1, <1>2, <1>3
-----------------------------------------------------------------------------
(* Reactions.                                                              *)

LEMMA PutTwice ==
  ASSUME NEW S, NEW q, q \in Seq(S), NEW p, p \in 1..Len(q), NEW a, NEW b
  PROVE  Put(Put(q, p, a), p, b) = Put(q, p, b) /\ Put(q, p, a)[p] = a
<1>1. q \in [1..Len(q) -> S]
  BY LenProperties
<1> QED BY <1>1, Zenon DEF Put

LEMMA PromiseAndQueue ==
  ASSUME NEW r, NEW busy, Good(r, busy), NEW p, Has(r, p), NEW e, NextOf(e, r, busy, p),
         NEW jobs, JustReactions(jobs, Size(r)),
         NEW s, Only(r, s, {"promises", "jobQueue", "grabs"}),
         s.promises = Put(r.promises, p, e), s.jobQueue = r.jobQueue \o jobs
  PROVE  Good(s, busy) /\ Grown(r, s) /\ Size(s) = Size(r)
<1> DEFINE a == [r EXCEPT !.promises = s.promises]
           b == [a EXCEPT !.jobQueue = s.jobQueue]
<1>1. Shape(r)
  BY DEF Good, Typed
<1>2. Only(r, a, {"promises"}) /\ a.promises = s.promises
  BY <1>1, Set_promises, Zenon
<1>3. Shape(a)
  BY <1>2 DEF Only
<1> HIDE DEF a
<1>4. Only(a, b, {"jobQueue"}) /\ b.jobQueue = s.jobQueue
  BY <1>3, Set_jobQueue, Zenon
<1> HIDE DEF b
<1>5. Only(b, s, Counters)
  BY <1>2, <1>4 DEF Only, Counters
<1>6. Good(a, busy) /\ Grown(r, a) /\ Size(a) = Size(r)
  <2>1. Good(a, busy) /\ Grown(r, a) /\ Size(a) = Size(r) /\ a.promises[p] = e
    BY <1>2, PromiseChanged
  <2> QED BY <2>1
<1>7. b.jobQueue = a.jobQueue \o jobs
  BY <1>2, <1>4, Zenon DEF Only
<1>8. Good(b, busy) /\ Grown(a, b) /\ Size(b) = Size(a)
  BY <1>4, <1>6, <1>7, ReactionsQueued, Zenon
<1>9. Good(s, busy) /\ Grown(b, s) /\ Size(s) = Size(b)
  BY <1>5, <1>8, Quiet
<1>10. Grown(r, b)
  BY <1>6, <1>8, GrownOn
<1>11. Grown(r, s)
  BY <1>9, <1>10, GrownOn
<1> QED BY <1>6, <1>8, <1>9, <1>11

(* The promise that is reacted to, afterwards: with one more of each, or   *)
(* only looked at.                                                         *)
Onto(e, q, f, g) ==
  /\ e.state = q.state /\ e.result = q.result
  /\ e.fulfillReactions = Append(q.fulfillReactions, f) /\ e.rejectReactions = Append(q.rejectReactions, g)
Likewise(e, q) ==
  /\ e.state = q.state /\ e.result = q.result
  /\ e.fulfillReactions = q.fulfillReactions /\ e.rejectReactions = q.rejectReactions

LEMMA ReactedPending ==
  ASSUME NEW r, NEW busy, Good(r, busy), NEW p, Has(r, p), r.promises[p].state = "pending",
         NEW f, f \in Reactions(Size(r)), NEW g, g \in Reactions(Size(r)), NEW a, NEW b, NEW e,
         a = [r.promises[p] EXCEPT !.fulfillReactions = Append(r.promises[p].fulfillReactions, f)],
         b = [a EXCEPT !.rejectReactions = Append(r.promises[p].rejectReactions, g)],
         e = [b EXCEPT !.handled = TRUE]
  PROVE  NextOf(e, r, busy, p) /\ Onto(e, r.promises[p], f, g)
<1> DEFINE q == r.promises[p]
<1>1. q \in PromiseObjects(Size(r)) /\ TrackedWell(q) /\ q.state = "pending"
  BY Elements DEF Has, Good
<1>2. /\ Append(q.fulfillReactions, f) \in Seq(Reactions(Size(r)))
      /\ Append(q.rejectReactions, g) \in Seq(Reactions(Size(r)))
  <2>1. q.fulfillReactions \in Seq(Reactions(Size(r))) /\ q.rejectReactions \in Seq(Reactions(Size(r)))
    BY <1>1 DEF PromiseObjects
  <2> HIDE DEF q
  <2> QED BY <2>1, AppendProperties
<1> HIDE DEF q
<1>3. a = [q EXCEPT !.fulfillReactions = Append(q.fulfillReactions, f)]
  BY DEF q
<1>4. /\ a \in PromiseObjects(Size(r)) /\ a.state = "pending" /\ a.tracked = q.tracked
      /\ a.result = q.result /\ a.fulfillReactions = Append(q.fulfillReactions, f)
  BY <1>1, <1>2, <1>3, Zenon DEF PromiseObjects
<1>. b = [a EXCEPT !.rejectReactions = Append(q.rejectReactions, g)]
  BY DEF q
<1>5. /\ b \in PromiseObjects(Size(r)) /\ b.state = "pending" /\ b.tracked = q.tracked
      /\ b.result = q.result /\ b.fulfillReactions = a.fulfillReactions
      /\ b.rejectReactions = Append(q.rejectReactions, g)
  BY <1>2, <1>4 DEF PromiseObjects
<1>6. /\ e \in PromiseObjects(Size(r)) /\ e.state = "pending" /\ e.tracked = q.tracked
      /\ e.result = b.result /\ e.fulfillReactions = b.fulfillReactions /\ e.rejectReactions = b.rejectReactions
  BY <1>5, Zenon DEF PromiseObjects
<1>7. r.promises[p].state = "pending"
  OBVIOUS
<1>8. NextOf(e, r, busy, p)
  BY <1>1, <1>6, <1>7 DEF NextOf, TrackedWell
<1>9. Onto(e, q, f, g)
  BY <1>1, <1>4, <1>5, <1>6, Zenon DEF Onto
<1> QED BY <1>8, <1>9 DEF q

LEMMA ReactedFulfilled ==
  ASSUME NEW r, NEW busy, Good(r, busy), NEW p, Has(r, p), r.promises[p].state = "fulfilled", NEW e,
         e = [r.promises[p] EXCEPT !.handled = TRUE]
  PROVE  NextOf(e, r, busy, p) /\ Likewise(e, r.promises[p])
<1> DEFINE q == r.promises[p]
<1>1. q \in PromiseObjects(Size(r)) /\ TrackedWell(q) /\ q.state = "fulfilled" /\ Free(r, busy, p)
  BY Elements DEF Has, Good, OneEach
<1>2. e = [q EXCEPT !.handled = TRUE]
  OBVIOUS
<1> HIDE DEF q
<1>3. e \in PromiseObjects(Size(r)) /\ e.tracked = q.tracked /\ Likewise(e, q)
  BY <1>1, <1>2, Zenon DEF PromiseObjects, Likewise
<1> QED BY <1>1, <1>3 DEF NextOf, TrackedWell, Likewise, q

LEMMA ReactedRejected ==
  ASSUME NEW r, NEW busy, Good(r, busy), NEW p, Has(r, p), r.promises[p].state = "rejected", NEW a, NEW e,
         a = [r.promises[p] EXCEPT !.tracked = IF r.promises[p].handled THEN @ ELSE "handle"],
         e = [a EXCEPT !.handled = TRUE]
  PROVE  NextOf(e, r, busy, p) /\ Likewise(e, r.promises[p])
<1> DEFINE q == r.promises[p]
           t == IF q.handled THEN q.tracked ELSE "handle"
<1>1. q \in PromiseObjects(Size(r)) /\ TrackedWell(q) /\ q.state = "rejected" /\ Free(r, busy, p)
  BY Elements DEF Has, Good, OneEach
<1>2. a = [q EXCEPT !.tracked = t]
  OBVIOUS
<1>3. t \in {"none", "reject", "handle"} /\ t # "reject"
  <2> HIDE DEF q
  <2> QED BY <1>1 DEF TrackedWell, PromiseObjects
<1> HIDE DEF q, t
<1>4. a \in PromiseObjects(Size(r)) /\ a.tracked = t /\ Likewise(a, q)
  BY <1>1, <1>2, <1>3 DEF PromiseObjects, Likewise
<1>5. e \in PromiseObjects(Size(r)) /\ e.tracked = t /\ Likewise(e, q) /\ e.handled
  BY <1>4, Zenon DEF PromiseObjects, Likewise
<1> QED BY <1>1, <1>3, <1>5 DEF NextOf, TrackedWell, Likewise, q
LEMMA ReactionQueue ==
  ASSUME NEW r, NEW busy, Good(r, busy), NEW job, job \in JobsOf(Size(r)), job.k = "reaction",
         NEW q, q = r.jobQueue
  PROVE  Append(q, job) = r.jobQueue \o One(job) /\ JustReactions(One(job), Size(r))
<1>1. r.jobQueue \in Seq(JobsOf(Size(r)))
  BY DEF Good, Typed
<1>4. <<job>> \in Seq(JobsOf(Size(r))) /\ Append(q, job) = q \o <<job>>
  BY <1>1, AppendIsConcat
<1> QED BY <1>4 DEF One, JustReactions

(* What addReactions does.                                                 *)
Reacts(r, s, p, cap, f, h) ==
  LET q == r.promises[p]
  IN /\ Only(r, s, {"promises", "jobQueue", "grabs"}) /\ s.grabs = r.grabs + 1
     /\ \E e : /\ s.promises = Put(r.promises, p, e)
               /\ IF q.state = "pending" THEN Onto(e, q, [cap |-> cap, handler |-> f], [cap |-> cap, handler |-> h])
                  ELSE Likewise(e, q)
     /\ q.state = "pending" => s.jobQueue = r.jobQueue
     /\ q.state = "fulfilled" =>
          s.jobQueue = r.jobQueue \o One(Job("reaction", "fulfill", cap, f, q.result))
     /\ q.state = "rejected" =>
          s.jobQueue = r.jobQueue \o One(Job("reaction", "reject", cap, h, q.result))

LEMMA Reacted ==
  ASSUME NEW r, NEW busy, Good(r, busy), NEW p, Has(r, p), NEW cap, cap \in 0..Len(r.pairs),
         NEW f, f \in Functions(Size(r)), NEW h, h \in Functions(Size(r)),
         NEW s, s = addReactions(r, p, cap, f, h)
  PROVE  Good(s, busy) /\ Grown(r, s) /\ Size(s) = Size(r) /\ Reacts(r, s, p, cap, f, h)
<1> DEFINE q == r.promises[p]
           onF == [cap |-> cap, handler |-> f]
           onR == [cap |-> cap, handler |-> h]
           g == [r EXCEPT !.grabs = @ + 1]
<1>1. /\ Typed(r) /\ Shape(r) /\ p \in 1..Len(r.promises) /\ r.promises \in Seq(PromiseObjects(Size(r)))
      /\ r.jobQueue \in Seq(JobsOf(Size(r)))
  BY DEF Good, Typed, Has
<1>2. onF \in Reactions(Size(r)) /\ onR \in Reactions(Size(r)) /\ cap \in 0..Size(r).k
  BY DEF Reactions, Size
<1>3. q \in PromiseObjects(Size(r)) /\ q.result \in Values(Size(r))
      /\ q.state \in {"pending", "fulfilled", "rejected"}
  <2>1. q \in PromiseObjects(Size(r))
    BY <1>1, Elements
  <2> QED BY <2>1 DEF PromiseObjects
<1>4. Only(r, g, {"grabs"}) /\ Shape(g) /\ g.grabs = r.grabs + 1
  <2>1. Only(r, g, {"grabs"}) /\ g.grabs = r.grabs + 1
    BY <1>1, Set_grabs, Zenon
  <2> QED BY <2>1 DEF Only
<1>5. g.promises = r.promises /\ g.jobQueue = r.jobQueue
  BY <1>4 DEF Only
<1> HIDE DEF onF, onR
<1>6. CASE q.state = "pending"
  <2> DEFINE x == Append(q.fulfillReactions, onF)
             y == Append(q.rejectReactions, onR)
             none == <<>>
             a == [q EXCEPT !.fulfillReactions = x]
             b == [a EXCEPT !.rejectReactions = y]
             e == [b EXCEPT !.handled = TRUE]
             done == [g EXCEPT !.promises[p].fulfillReactions = Append(@, onF),
                               !.promises[p].rejectReactions = Append(@, onR)]
  <2>1. s = [done EXCEPT !.promises[p].handled = TRUE]
    BY <1>6, Zenon DEF addReactions, onF, onR
  <2>2. done = [g EXCEPT !.promises = Put(r.promises, p, b)]
    <3>1. g.promises[p] = q
      BY <1>5
    <3>2. done = [g EXCEPT !.promises[p].fulfillReactions = x, !.promises[p].rejectReactions = y]
      BY <3>1
    <3>3. g.promises \in Seq(PromiseObjects(Size(r)))
      BY <1>1, <1>5
    <3> HIDE DEF x, y, done
    <3>4. done = [g EXCEPT !.promises = [g.promises EXCEPT ![p] = [g.promises[p] EXCEPT
                                            !.fulfillReactions = x, !.rejectReactions = y]]]
      <4> HIDE DEF g, q
      <4> QED BY <3>2, <3>3, <1>4, <1>5, <1>1, Zenon DEF Shape
    <3> HIDE DEF g, q
    <3> QED BY <3>1, <3>4, <1>5 DEF Put
  <2>3. NextOf(e, r, busy, p) /\ Onto(e, q, onF, onR)
    <3> HIDE DEF q, g, done
    <3>1. a = [r.promises[p] EXCEPT !.fulfillReactions = Append(r.promises[p].fulfillReactions, onF)]
      BY DEF q
    <3>2. b = [a EXCEPT !.rejectReactions = Append(r.promises[p].rejectReactions, onR)]
      BY DEF q
    <3> HIDE DEF a
    <3> HIDE DEF b
    <3> HIDE DEF e
    <3> QED BY <1>2, <1>6, <3>1, <3>2, ReactedPending, Zenon DEF q, e
  <2> HIDE DEF g, q, b
  <2>4. Only(g, done, {"promises"}) /\ done.promises = Put(r.promises, p, b)
    <3> HIDE DEF done
    <3> QED BY <1>4, <2>2, Set_promises, Zenon
  <2> HIDE DEF done
  <2>5. done.promises[p] = b /\ Put(done.promises, p, e) = Put(r.promises, p, e) /\ Shape(done)
    <3> HIDE DEF e
    <3> QED BY <1>1, <2>4, PutTwice DEF Only
  <2>6. s = [done EXCEPT !.promises = Put(done.promises, p, e)]
    BY <2>1, <2>5 DEF Put, Shape
  <2> HIDE DEF e
  <2>7. Only(done, s, {"promises"}) /\ s.promises = Put(r.promises, p, e)
    BY <2>5, <2>6, Set_promises
  <2>8. Only(r, s, {"promises", "jobQueue", "grabs"}) /\ s.jobQueue = r.jobQueue /\ s.grabs = r.grabs + 1
    BY <1>4, <2>4, <2>7 DEF Only
  <2>9. r.jobQueue = r.jobQueue \o none /\ JustReactions(none, Size(r))
    BY <1>1, ConcatEmptySeq, EmptySeq DEF JustReactions
  <2> HIDE DEF none
  <2>10. Good(s, busy) /\ Grown(r, s) /\ Size(s) = Size(r)
    BY <2>3, <2>7, <2>8, <2>9, PromiseAndQueue
  <2> QED BY <1>6, <2>3, <2>7, <2>8, <2>10 DEF Reacts, q, onF, onR
<1>7. CASE q.state = "fulfilled"
  <2> DEFINE job == Job("reaction", "fulfill", cap, f, q.result)
             jobs == One(job)
             queue == Append(g.jobQueue, job)
             done == [g EXCEPT !.jobQueue = queue]
             e == [q EXCEPT !.handled = TRUE]
  <2>1. s = [done EXCEPT !.promises[p].handled = TRUE]
    BY <1>7, Zenon DEF addReactions, onF, enqueuePromiseJob
  <2>2. NextOf(e, r, busy, p) /\ Likewise(e, q)
    <3> HIDE DEF q
    <3> HIDE DEF e
    <3> QED BY <1>7, ReactedFulfilled DEF q, e
  <2>3. queue = r.jobQueue \o jobs /\ JustReactions(jobs, Size(r))
    <3>1. job = Job("reaction", "fulfill", cap, f, q.result)
      OBVIOUS
    <3>2. queue = Append(g.jobQueue, job) /\ jobs = One(job) /\ Size(r).k \in Nat
      BY Sizes DEF Good
    <3> HIDE DEF q, g, job, jobs, queue
    <3>3. job \in JobsOf(Size(r)) /\ job.k = "reaction"
      BY <1>2, <1>3, <3>1, <3>2 DEF Job, JobsOf
    <3>4. Append(g.jobQueue, job) = r.jobQueue \o One(job) /\ JustReactions(One(job), Size(r))
      BY <1>5, <3>3, ReactionQueue, Zenon
    <3> QED BY <3>2, <3>4
  <2> HIDE DEF g, job, queue, jobs, q
  <2>4. Only(g, done, {"jobQueue"}) /\ done.jobQueue = queue /\ Shape(done)
    <3> HIDE DEF done, e
    <3>1. Only(g, done, {"jobQueue"}) /\ done.jobQueue = queue
      BY <1>4, Set_jobQueue, Zenon DEF done
    <3> QED BY <3>1 DEF Only
  <2> HIDE DEF done
  <2>5. done.promises = r.promises
    BY <1>5, <2>4 DEF Only
  <2>6. s = [done EXCEPT !.promises = Put(r.promises, p, e)]
    BY <2>1, <2>4, <2>5 DEF Put, Shape, q
  <2> HIDE DEF e
  <2>7. Only(done, s, {"promises"}) /\ s.promises = Put(r.promises, p, e)
    BY <2>4, <2>6, Set_promises
  <2>8. Only(r, s, {"promises", "jobQueue", "grabs"}) /\ s.jobQueue = r.jobQueue \o jobs /\ s.grabs = r.grabs + 1
    BY <1>4, <2>3, <2>4, <2>7 DEF Only
  <2>9. Good(s, busy) /\ Grown(r, s) /\ Size(s) = Size(r)
    BY <2>2, <2>3, <2>7, <2>8, PromiseAndQueue
  <2> QED BY <1>7, <2>2, <2>7, <2>8, <2>9 DEF Reacts, q, jobs, job
<1>8. CASE q.state = "rejected"
  <2> DEFINE job == Job("reaction", "reject", cap, h, q.result)
             jobs == One(job)
             a == [q EXCEPT !.tracked = IF q.handled THEN q.tracked ELSE "handle"]
             e == [a EXCEPT !.handled = TRUE]
             t == trackPromiseRejection(g, p, "handle")
             queue == Append(t.jobQueue, job)
             done == [t EXCEPT !.jobQueue = queue]
  <2>1. s = [done EXCEPT !.promises[p].handled = TRUE]
    BY <1>8, Zenon DEF addReactions, onR, enqueuePromiseJob
  <2>2. NextOf(e, r, busy, p) /\ Likewise(e, q)
    <3>1. a = [r.promises[p] EXCEPT !.tracked = IF r.promises[p].handled THEN @ ELSE "handle"]
      OBVIOUS
    <3> HIDE DEF q, a
    <3> HIDE DEF e
    <3> QED BY <1>8, <3>1, ReactedRejected, Zenon DEF q, e
  <2>3. t = [g EXCEPT !.promises = Put(r.promises, p, a)]
    BY <1>5 DEF trackPromiseRejection, Put
  <2> HIDE DEF a
  <2>4. Only(g, t, {"promises"}) /\ t.promises = Put(r.promises, p, a) /\ Shape(t)
    <3> HIDE DEF g, t, q
    <3>1. Only(g, t, {"promises"}) /\ t.promises = Put(r.promises, p, a)
      BY <1>4, <2>3, Set_promises, Zenon
    <3> QED BY <3>1 DEF Only
  <2>5. t.jobQueue = r.jobQueue
    BY <1>5, <2>4 DEF Only
  <2> HIDE DEF t
  <2>6. queue = r.jobQueue \o jobs /\ JustReactions(jobs, Size(r))
    <3>1. job = Job("reaction", "reject", cap, h, q.result)
      OBVIOUS
    <3>2. queue = Append(t.jobQueue, job) /\ jobs = One(job) /\ Size(r).k \in Nat
      BY Sizes DEF Good
    <3> HIDE DEF q, t, g, job, jobs, queue
    <3>3. job \in JobsOf(Size(r)) /\ job.k = "reaction"
      BY <1>2, <1>3, <3>1, <3>2 DEF Job, JobsOf
    <3>4. Append(t.jobQueue, job) = r.jobQueue \o One(job) /\ JustReactions(One(job), Size(r))
      BY <2>5, <3>3, ReactionQueue, Zenon
    <3> QED BY <3>2, <3>4
  <2> HIDE DEF g, job, queue, jobs, q
  <2>7. Only(t, done, {"jobQueue"}) /\ done.jobQueue = queue /\ Shape(done)
    <3> HIDE DEF done, e
    <3>1. Only(t, done, {"jobQueue"}) /\ done.jobQueue = queue
      BY <2>4, Set_jobQueue, Zenon DEF done
    <3> QED BY <3>1 DEF Only
  <2> HIDE DEF done
  <2>8. done.promises[p] = a /\ Put(done.promises, p, e) = Put(r.promises, p, e)
    <3>1. done.promises = Put(r.promises, p, a)
      BY <2>4, <2>7 DEF Only
    <3> HIDE DEF e
    <3>2. Put(Put(r.promises, p, a), p, e) = Put(r.promises, p, e) /\ Put(r.promises, p, a)[p] = a
      BY <1>1, PutTwice
    <3> QED BY <3>1, <3>2
  <2>9. s = [done EXCEPT !.promises = Put(done.promises, p, e)]
    BY <2>1, <2>7, <2>8 DEF Put, Shape
  <2> HIDE DEF e
  <2>10. Only(done, s, {"promises"}) /\ s.promises = Put(r.promises, p, e)
    BY <2>7, <2>8, <2>9, Set_promises
  <2>11. Only(r, s, {"promises", "jobQueue", "grabs"}) /\ s.jobQueue = r.jobQueue \o jobs /\ s.grabs = r.grabs + 1
    BY <1>4, <2>4, <2>6, <2>7, <2>10 DEF Only
  <2>12. Good(s, busy) /\ Grown(r, s) /\ Size(s) = Size(r)
    BY <2>2, <2>6, <2>10, <2>11, PromiseAndQueue
  <2> QED BY <1>8, <2>2, <2>10, <2>11, <2>12 DEF Reacts, q, jobs, job
<1> QED BY <1>3, <1>6, <1>7, <1>8
(* What is of a type stays so when the runtime grows.                      *)
LEMMA KeepsTypes ==
  ASSUME NEW r, NEW s, Keeps(r, s)
  PROVE  /\ Values(Size(r)) \subseteq Values(Size(s)) /\ Functions(Size(r)) \subseteq Functions(Size(s))
         /\ JobsOf(Size(r)) \subseteq JobsOf(Size(s)) /\ Frames(Size(r)) \subseteq Frames(Size(s))
         /\ Seq(Frames(Size(r))) \subseteq Seq(Frames(Size(s)))
<1>1. AtMost(Size(r), Size(s))
  BY DEF Keeps
<1> QED BY <1>1, TypesMono, SeqTypesMono

LEMMA StillTyped ==
  ASSUME NEW r, NEW s, Grown(r, s)
  PROVE  /\ Values(Size(r)) \subseteq Values(Size(s)) /\ Functions(Size(r)) \subseteq Functions(Size(s))
         /\ JobsOf(Size(r)) \subseteq JobsOf(Size(s)) /\ Frames(Size(r)) \subseteq Frames(Size(s))
BY KeepsTypes DEF Grown

LEMMA KeepsAll ==
  ASSUME NEW r, NEW s, Keeps(r, s)
  PROVE  /\ \A p : Has(r, p) => Has(s, p)
         /\ \A k : HasPair(r, k) => HasPair(s, k)
         /\ \A c : HasComb(r, c) => HasComb(s, c)
BY DEF Keeps, AtMost, Size, Has, HasPair, HasComb

LEMMA StillThere ==
  ASSUME NEW r, NEW s, Grown(r, s)
  PROVE  /\ \A p : Has(r, p) => Has(s, p)
         /\ \A k : HasPair(r, k) => HasPair(s, k)
         /\ \A c : HasComb(r, c) => HasComb(s, c)
BY KeepsAll DEF Grown

LEMMA Thened ==
  ASSUME NEW r, NEW busy, Good(r, busy), NEW p, Has(r, p), NEW f, f \in Functions(Size(r)),
         NEW h, h \in Functions(Size(r)), NEW s, s = then(r, p, f, h)
  PROVE  /\ Good(s, busy) /\ Grown(r, s) /\ Has(s, Len(s.promises))
         /\ Len(s.promises) = Len(r.promises) + 1 /\ Len(s.pairs) = Len(r.pairs) + 1 /\ Len(s.combs) = Len(r.combs)
<1> DEFINE c == newPromise(r)
           k == Len(c.pairs)
           a == addReactions(c, p, k, f, h)
           derived == Append(a.derived, [from |-> p, pair |-> k])
<1>1. s = [a EXCEPT !.derived = derived]
  BY DEF then
<1> HIDE DEF derived
<1>2. /\ Good(c, busy) /\ Grown(r, c)
      /\ Len(c.promises) = Len(r.promises) + 1 /\ Len(c.pairs) = Len(r.pairs) + 1 /\ Len(c.combs) = Len(r.combs)
      /\ c.pairs[Len(c.pairs)].promise = Len(c.promises)
      /\ HasPair(c, Len(c.pairs)) /\ Has(c, Len(c.promises))
  BY NewPromiseMade
<1> HIDE DEF c
<1>3. Has(c, p) /\ f \in Functions(Size(c)) /\ h \in Functions(Size(c))
  BY <1>2, StillTyped, StillThere
<1>4. k \in 0..Len(c.pairs) /\ k = Len(c.pairs)
  BY <1>2, Sizes DEF Good
<1> HIDE DEF k
<1>5. Good(a, busy) /\ Grown(c, a) /\ Size(a) = Size(c)
  BY <1>2, <1>3, <1>4, Reacted
<1> HIDE DEF a
<1>6. Only(a, s, Counters)
  <2>1. Shape(a)
    BY <1>5 DEF Good, Typed
  <2>2. Only(a, s, {"derived"})
    BY <1>1, <2>1, Set_derived
  <2> QED BY <2>2 DEF Only, Counters
<1>7. Good(s, busy) /\ Grown(a, s) /\ Size(s) = Size(a)
  BY <1>5, <1>6, Quiet
<1>8. Grown(r, a)
  BY <1>2, <1>5, GrownOn
<1>9. Grown(r, s)
  BY <1>7, <1>8, GrownOn
<1> QED BY <1>2, <1>5, <1>7, <1>9, Zenon DEF Size, Has

LEMMA ResolvedTo ==
  ASSUME NEW r, NEW busy, Good(r, busy), NEW x, x \in Values(Size(r)), NEW s, s = promiseResolve(r, x)
  PROVE  Good(s, busy) /\ Grown(r, s) /\ Has(s, promiseOf(r, x)) /\ Len(s.combs) = Len(r.combs)
<1>1. CASE x.t = "promise"
  <2>1. s = r /\ Typed(r) /\ promiseOf(r, x) = x.n
    BY <1>1 DEF promiseResolve, promiseOf, Good
  <2>2. Has(r, x.n)
    BY <1>1 DEF Values, Has, Size
  <2> QED BY <2>1, <2>2, GrownSelf
<1>2. CASE x.t # "promise"
  <2> DEFINE c == newPromise(r)
  <2>1. s = resolve(c, Len(c.pairs), x) /\ promiseOf(r, x) = Len(r.promises) + 1
    BY <1>2 DEF promiseResolve, promiseOf
  <2>2. /\ Good(c, busy) /\ Grown(r, c)
        /\ Len(c.promises) = Len(r.promises) + 1 /\ Len(c.pairs) = Len(r.pairs) + 1 /\ Len(c.combs) = Len(r.combs)
        /\ c.pairs[Len(c.pairs)].promise = Len(c.promises)
        /\ HasPair(c, Len(c.pairs)) /\ Has(c, Len(c.promises))
    BY NewPromiseMade
  <2> HIDE DEF c
  <2>3. x \in Values(Size(c))
    BY <2>2, StillTyped
  <2>4. Good(s, busy) /\ Grown(c, s) /\ Size(s) = Size(c)
    BY <2>1, <2>2, <2>3, Resolved
  <2>5. Grown(r, s)
    BY <2>2, <2>4, GrownOn
  <2> QED BY <2>1, <2>2, <2>4, <2>5 DEF Size, Has
<1> QED BY <1>1, <1>2

LEMMA Counting ==
  ASSUME NEW r, NEW busy, Good(r, busy)
  PROVE  /\ Good(resumed(r), busy) /\ Grown(r, resumed(r)) /\ Size(resumed(r)) = Size(r)
         /\ Good(exited(r), busy) /\ Grown(r, exited(r)) /\ Size(exited(r)) = Size(r)
<1> DEFINE g == [r EXCEPT !.grabs = @ - 1]
           u == [g EXCEPT !.resumed = @ + 1]
           v == [r EXCEPT !.resumed = @ - 1]
<1>1. u = resumed(r) /\ v = exited(r)
  BY DEF resumed, exited
<1>2. Shape(r)
  BY DEF Good, Typed
<1>3. Only(r, g, {"grabs"}) /\ Shape(g)
  <2>1. Only(r, g, {"grabs"})
    BY <1>2, Set_grabs
  <2> QED BY <2>1 DEF Only
<1> HIDE DEF g
<1>4. Only(r, u, Counters)
  <2>1. Only(g, u, {"resumed"})
    BY <1>3, Set_resumed, Zenon
  <2> QED BY <1>3, <2>1 DEF Only, Counters
<1>5. Only(r, v, Counters)
  <2>1. Only(r, v, {"resumed"})
    BY <1>2, Set_resumed
  <2> QED BY <2>1 DEF Only, Counters
<1> HIDE DEF u, v
<1>6. Good(u, busy) /\ Grown(r, u) /\ Size(u) = Size(r)
  BY <1>4, Quiet
<1>7. Good(v, busy) /\ Grown(r, v) /\ Size(v) = Size(r)
  BY <1>5, Quiet
<1> QED BY <1>1, <1>6, <1>7
(* What finally() passes on after its callback has returned.               *)
LEMMA FinallyDone ==
  ASSUME NEW r, NEW busy, Good(r, busy), NEW job, job.arg \in Values(Size(r)), NEW x, x \in Values(Size(r)),
         NEW res, res = finallyResult(r, job, x)
  PROVE  Good(res.r, busy) /\ Grown(r, res.r) /\ res.x \in Values(Size(res.r))
<1> DEFINE q == promiseResolve(r, x)
           p == promiseOf(r, x)
           f == Fn(IF job.handler.f = "finThen" THEN "thunk" ELSE "thrower", 0, 0, job.arg)
           t == then(q, p, f, NoFn)
           finals == Noted(t.finals, job.handler.a, x)
           s == [t EXCEPT !.finals = finals]
           y == PromiseVal(Len(t.promises))
<1>1. res = [r |-> s, x |-> y]
  BY DEF finallyResult, Noted
<1>2. Good(q, busy) /\ Grown(r, q) /\ Has(q, p) /\ Len(q.combs) = Len(r.combs)
  BY ResolvedTo
<1> HIDE DEF q, p
<1>3. f \in Functions(Size(q)) /\ NoFn \in Functions(Size(q))
  <2>1. job.arg \in Values(Size(q))
    BY <1>2, StillTyped
  <2>2. NoFn \in Functions(Size(q))
    BY OwnValues
  <2> QED BY <2>1, <2>2 DEF Fn, Functions, Natives
<1> HIDE DEF f
<1>4. /\ Good(t, busy) /\ Grown(q, t) /\ Has(t, Len(t.promises))
      /\ Len(t.promises) = Len(q.promises) + 1 /\ Len(t.pairs) = Len(q.pairs) + 1 /\ Len(t.combs) = Len(q.combs)
  BY <1>2, <1>3, Thened
<1> HIDE DEF t, finals
<1>5. Only(t, s, {"finals"}) /\ s.finals = finals
  <2>1. Shape(t)
    BY <1>4 DEF Good, Typed
  <2> QED BY <2>1, Set_finals
<1>11. s.finals \in Seq(Finals)
  <2>1. t.finals \in Seq(Finals)
    BY <1>4 DEF Good, Typed
  <2> QED BY <1>5, <2>1, NotesTyped DEF finals
<1> HIDE DEF s
<1>6. Good(s, busy) /\ Grown(t, s) /\ Size(s) = Size(t)
  BY <1>4, <1>5, <1>11, FinalsChanged, Zenon
<1>7. Grown(r, t)
  BY <1>2, <1>4, GrownOn
<1>8. Grown(r, s)
  BY <1>6, <1>7, GrownOn
<1>9. y \in Values(Size(s))
  <2>1. Len(t.promises) \in 1..Size(t).p /\ Len(t.promises) \in Nat
    BY <1>4, Sizes DEF Has, Good
  <2> QED BY <1>6, <2>1 DEF PromiseVal, Val, Values
<1> HIDE DEF y
<1>10. res.r = s /\ res.x = y
  BY <1>1
<1> QED BY <1>6, <1>8, <1>9, <1>10

LEMMA Combined ==
  ASSUME NEW r, NEW busy, Good(r, busy), NEW op, op \in {"all", "allSettled", "any", "race"},
         NEW s, s = combinator(r, op)
  PROVE  Good(s, busy) /\ Grown(r, s) /\ HasComb(s, Len(s.combs))
<1> DEFINE n == newPromise(r)
           e == [op |-> op, cap |-> Len(n.pairs), values |-> <<>>, called |-> {}, remaining |-> 1,
                 inputs |-> <<>>, over |-> FALSE]
           q == Append(n.combs, e)
<1>1. s = [n EXCEPT !.combs = q]
  BY DEF combinator
<1>2. /\ Good(n, busy) /\ Grown(r, n)
      /\ Len(n.promises) = Len(r.promises) + 1 /\ Len(n.pairs) = Len(r.pairs) + 1 /\ Len(n.combs) = Len(r.combs)
      /\ n.pairs[Len(n.pairs)].promise = Len(n.promises)
      /\ HasPair(n, Len(n.pairs)) /\ Has(n, Len(n.promises))
  BY NewPromiseMade
<1> HIDE DEF n
<1>3. Typed(n) /\ Shape(n) /\ n.combs \in Seq(Combs(Size(n))) /\ Len(n.combs) \in Nat
  BY <1>2, Sizes DEF Good, Typed
<1>4. e \in Combs(Size(n))
  <2>1. <<>> \in Seq(Counts(Size(n))) /\ <<>> \in Seq(Nat)
    BY EmptySeq
  <2>2. Len(n.pairs) \in 1..Size(n).k
    BY <1>2 DEF HasPair, Size
  <2> QED BY <2>1, <2>2 DEF Combs
<1> HIDE DEF e
<1>5. q \in Seq(Combs(Size(n))) /\ Len(q) = Len(n.combs) + 1
  BY <1>3, <1>4, AppendProperties
<1> HIDE DEF q
<1>6. Only(n, s, {"combs"}) /\ s.combs = q
  <2>1. Shape(n)
    BY <1>3
  <2> QED BY <1>1, <2>1, Set_combs
<1>7. s.combs \in Seq(Combs(Size(s))) /\ Len(n.combs) <= Len(s.combs)
  <2>1. AtMost(Size(n), Size(s))
    BY <1>3, <1>5, <1>6, Sizes DEF AtMost, Size, Only
  <2>2. Seq(Combs(Size(n))) \subseteq Seq(Combs(Size(s)))
    BY <2>1, SeqTypesMono
  <2> QED BY <1>3, <1>5, <1>6, <2>2
<1>8. Good(s, busy) /\ Grown(n, s)
  BY <1>2, <1>6, <1>7, CombsChanged, Zenon
<1>9. Grown(r, s)
  BY <1>2, <1>8, GrownOn
<1> QED BY <1>3, <1>5, <1>6, <1>8, <1>9 DEF HasComb

-----------------------------------------------------------------------------
(* The stack: batches, and what is busy because of them.                   *)

LEMMA LessBusy ==
  ASSUME NEW r, NEW busy, Good(r, busy), NEW less, less \subseteq busy
  PROVE  Good(r, less)
<1>1. OneEach(r, less)
  BY FewerDeciders, Zenon DEF Good
<1> QED BY <1>1 DEF Good

LEMMA BusyBy ==
  ASSUME NEW st, NEW p
  PROVE  p \in Busy(st) <=> p \in Nat /\ \E j, i : HasJob(st, j, i, p)
BY Zenon DEF Busy, HasJob, Adopts

LEMMA ApartJobs ==
  ASSUME NEW st
  PROVE  BatchesApart(st) <=>
           \A j, l, i, m, p : p \in Nat /\ HasJob(st, j, i, p) /\ HasJob(st, l, m, p) => j = l /\ i = m
<1>1. \A j, i, p : HasJob(st, j, i, p) => j \in 1..Len(st) /\ i \in 1..Len(st[j].batch)
  BY DEF HasJob, Adopts
<1>2. ASSUME BatchesApart(st), NEW j, NEW l, NEW i, NEW m, NEW p,
             p \in Nat, HasJob(st, j, i, p), HasJob(st, l, m, p)
      PROVE  j = l /\ i = m
  BY <1>1, <1>2 DEF BatchesApart
<1>3. ASSUME \A j, l, i, m, p : p \in Nat /\ HasJob(st, j, i, p) /\ HasJob(st, l, m, p) => j = l /\ i = m
      PROVE  BatchesApart(st)
  BY <1>3 DEF BatchesApart
<1> QED BY <1>2, <1>3

(* Fewer frames, as control leaves them.                                   *)
Depth(st, b) == b \in 0..Len(st)
To(st, b) == SubSeq(st, 1, b)

LEMMA Cut ==
  ASSUME NEW n, NEW st, Stacked(n, st), NEW b, Depth(st, b)
  PROVE  LET u == To(st, b)
         IN /\ Stacked(n, u) /\ Busy(u) \subseteq Busy(st) /\ Len(u) = b
            /\ \A j \in 1..Len(u) : u[j] = st[j]
<1> DEFINE u == To(st, b)
<1>0. /\ st \in Seq(Frames(n)) /\ Len(st) \in Nat /\ \A j \in 1..Len(st) : st[j] \in Frames(n)
      /\ b \in 0..Len(st)
  BY LenProperties, ElementOfSeq DEF Stacked, Depth
<1>1. u \in Seq(Frames(n)) /\ Len(u) = b /\ \A j \in 1..Len(u) : u[j] = st[j]
  <2>1. \A j \in 1..b : st[j] \in Frames(n)
    BY <1>0
  <2>2. /\ u \in Seq(Frames(n)) /\ Len(u) = (IF 1 <= b THEN b - 1 + 1 ELSE 0)
        /\ \A j \in 1..b - 1 + 1 : u[j] = st[1 + j - 1]
    BY <1>0, <2>1, SubSeqProperties DEF To
  <2> HIDE DEF u
  <2> QED BY <1>0, <2>2
<1> HIDE DEF u
<1>2. \A j, i, p : HasJob(u, j, i, p) => HasJob(st, j, i, p)
  BY <1>0, <1>1 DEF HasJob
<1>3. Busy(u) \subseteq Busy(st)
  BY <1>2, BusyBy
<1>4. BatchesApart(u)
  BY <1>2, ApartJobs DEF Stacked
<1>5. Bottom(u)
  <2> SUFFICES ASSUME u # <<>> PROVE u[1].k \in {"run", "leave"}
    BY DEF Bottom
  <2>1. 1 \in 1..Len(u)
    BY <1>0, <1>1, EmptySeq, LenProperties
  <2>2. st # <<>> /\ u[1] = st[1]
    BY <1>0, <1>1, <2>1
  <2> QED BY <2>2 DEF Stacked, Bottom
<1> QED BY <1>1, <1>3, <1>4, <1>5 DEF Stacked, u

(* A frame with an empty batch on top, which is at the bottom only if it   *)
(* may be.                                                                 *)
LEMMA Pushed ==
  ASSUME NEW n, NEW st, Stacked(n, st), NEW f, f \in Frames(n), f.batch = <<>>,
         st # <<>> \/ f.k \in {"run", "leave"}, NEW u, u = Append(st, f)
  PROVE  Stacked(n, u) /\ Busy(u) = Busy(st)
<1>0. st \in Seq(Frames(n)) /\ Len(st) \in Nat
  BY LenProperties DEF Stacked
<1>1. /\ u \in Seq(Frames(n)) /\ Len(u) = Len(st) + 1 /\ u[Len(st) + 1] = f
      /\ \A j \in 1..Len(st) : u[j] = st[j]
  BY <1>0, Appended
<1>2. \A i, p : ~Adopts(f.batch, i, p)
  BY DEF Adopts
<1>3. \A j, i, p : HasJob(u, j, i, p) <=> HasJob(st, j, i, p)
  BY <1>0, <1>1, <1>2 DEF HasJob
<1>4. Busy(u) = Busy(st)
  <2>1. \A p : p \in Busy(u) <=> p \in Busy(st)
    BY <1>3, BusyBy
  <2> QED BY <2>1, Zenon
<1>5. BatchesApart(u)
  BY <1>3, ApartJobs DEF Stacked
<1>6. Bottom(u)
  <2>1. CASE st = <<>>
    BY <1>1, <2>1 DEF Bottom
  <2>2. CASE st # <<>>
    <3>1. 1 \in 1..Len(st)
      BY <1>0, <2>2, EmptySeq
    <3> QED BY <1>1, <2>2, <3>1 DEF Bottom, Stacked
  <2> QED BY <2>1, <2>2
<1> QED BY <1>1, <1>4, <1>5, <1>6 DEF Stacked
(* The frame on top replaced.                                              *)
OnTop(st, g) == Append(To(st, Len(st) - 1), g)
Peek(st) == st[Len(st)]
SameKind(g, st) == g.k = Peek(st).k
RestOf(g, st) == g = [Peek(st) EXCEPT !.batch = Tail(Peek(st).batch)]
Batch(st) == Peek(st).batch

LEMMA TopReplaced ==
  ASSUME NEW n, NEW st, Stacked(n, st), st # <<>>, NEW g, g \in Frames(n), SameKind(g, st),
         NEW u, u = OnTop(st, g)
  PROVE  /\ u \in Seq(Frames(n)) /\ Len(u) = Len(st) /\ Bottom(u) /\ u # <<>>
         /\ \A j \in 1..Len(st) : u[j] = IF j = Len(st) THEN g ELSE st[j]
<1> DEFINE b == Len(st) - 1
           w == To(st, b)
<1>0. st \in Seq(Frames(n)) /\ Len(st) \in Nat /\ Len(st) # 0
  BY LenProperties, EmptySeq DEF Stacked
<1>1. b \in 0..Len(st) /\ b + 1 = Len(st) /\ Depth(st, b)
  BY <1>0 DEF Depth
<1>3. u = Append(w, g)
  BY DEF OnTop
<1> HIDE DEF b
<1>2. /\ Stacked(n, w) /\ Busy(w) \subseteq Busy(st) /\ Len(w) = b
      /\ \A j \in 1..Len(w) : w[j] = st[j]
  BY <1>1, Cut
<1>4. w \in Seq(Frames(n))
  BY <1>2 DEF Stacked
<1> HIDE DEF w
<1>5. /\ u \in Seq(Frames(n)) /\ Len(u) = Len(w) + 1 /\ u[Len(w) + 1] = g
      /\ \A j \in 1..Len(w) : u[j] = w[j]
  BY <1>3, <1>4, Appended
<1>6. \A j \in 1..Len(st) : u[j] = IF j = Len(st) THEN g ELSE st[j]
  BY <1>0, <1>1, <1>2, <1>5
<1>7. Bottom(u)
  <2>1. u[1].k = st[1].k
    BY <1>0, <1>6 DEF SameKind, Peek
  <2> QED BY <2>1 DEF Bottom, Stacked
<1>8. u # <<>>
  BY <1>0, <1>1, <1>2, <1>5
<1> QED BY <1>0, <1>1, <1>2, <1>5, <1>6, <1>7, <1>8

(* leave() takes the job at the head of its batch: nobody else has one for *)
(* its promise.                                                            *)
LEMMA Taken ==
  ASSUME NEW n, NEW st, Stacked(n, st), st # <<>>, Batch(st) # <<>>,
         NEW g, RestOf(g, st), NEW u, u = OnTop(st, g)
  PROVE  /\ Stacked(n, u) /\ Busy(u) \subseteq Busy(st) /\ u # <<>> /\ g \in Frames(n)
         /\ Head(Batch(st)) \in JobsOf(n)
         /\ Head(Batch(st)).k = "thenable" => /\ Head(Batch(st)).cap \in Busy(st)
                                              /\ Head(Batch(st)).cap \notin Busy(u)
<1> DEFINE top == Peek(st)
           batch == Batch(st)
           tail == Tail(batch)
           l == Len(st)
<1>0. st \in Seq(Frames(n)) /\ l \in Nat /\ l \in 1..l
  <2>1. Len(st) \in Nat /\ Len(st) # 0
    BY LenProperties, EmptySeq DEF Stacked
  <2> QED BY <2>1 DEF Stacked
<1>1. top \in Frames(n) /\ top = st[l]
  BY <1>0, ElementOfSeq DEF Peek
<1>2. batch \in Seq(JobsOf(n)) /\ batch # <<>>
  BY <1>1 DEF Frames, Batch
<1>3. /\ Head(batch) \in JobsOf(n) /\ tail \in Seq(JobsOf(n)) /\ Len(tail) = Len(batch) - 1
      /\ \A i \in 1..Len(tail) : tail[i] = batch[i + 1]
      /\ Len(batch) \in Nat /\ Len(batch) # 0 /\ Head(batch) = batch[1]
  <2> HIDE DEF batch
  <2> QED BY <1>2, HeadTailProperties, LenProperties, EmptySeq
<1>4. g \in Frames(n) /\ g.k = top.k /\ g.batch = tail
  <2>1. g = [top EXCEPT !.batch = tail]
    BY DEF RestOf, Batch
  <2> HIDE DEF tail
  <2> QED BY <1>1, <1>3, <2>1, Zenon DEF Frames
<1>5. /\ u \in Seq(Frames(n)) /\ Len(u) = l /\ Bottom(u) /\ u # <<>>
      /\ \A j \in 1..l : u[j] = IF j = l THEN g ELSE st[j]
  <2>1. SameKind(g, st) /\ g \in Frames(n)
    BY <1>1, <1>4 DEF SameKind
  <2> HIDE DEF tail, batch, top
  <2>2. /\ u \in Seq(Frames(n)) /\ Len(u) = Len(st) /\ Bottom(u) /\ u # <<>>
        /\ \A j \in 1..Len(st) : u[j] = IF j = Len(st) THEN g ELSE st[j]
    BY <2>1, TopReplaced
  <2> QED BY <2>2
<1>12. batch = top.batch
  BY DEF Batch
<1> HIDE DEF tail, batch, top
<1>6. \A i, p : Adopts(tail, i, p) => Adopts(batch, i + 1, p) /\ i \in 1..Len(tail)
  BY <1>3 DEF Adopts
<1>7. \A j, i, p : HasJob(u, j, i, p) => (j # l /\ HasJob(st, j, i, p))
                                     \/ (j = l /\ HasJob(st, j, i + 1, p) /\ i \in 1..Len(tail))
  BY <1>0, <1>1, <1>4, <1>5, <1>6, <1>12 DEF HasJob
<1>8. Busy(u) \subseteq Busy(st)
  <2>1. \A p : (\E j, i : HasJob(u, j, i, p)) => \E j, i : HasJob(st, j, i, p)
    BY <1>7
  <2>2. \A p : p \in Busy(u) => p \in Busy(st)
    BY <2>1, BusyBy
  <2> QED BY <2>2
<1>9. \A j, m, i, k, p : p \in Nat /\ HasJob(st, j, i, p) /\ HasJob(st, m, k, p) => j = m /\ i = k
  BY ApartJobs DEF Stacked
<1>10. BatchesApart(u)
  <2> SUFFICES ASSUME NEW j, NEW m, NEW i, NEW k, NEW p, p \in Nat, HasJob(u, j, i, p), HasJob(u, m, k, p)
               PROVE  j = m /\ i = k
    BY ApartJobs
  <2>1. CASE j # l /\ m # l
    <3>1. HasJob(st, j, i, p) /\ HasJob(st, m, k, p)
      BY <1>7, <2>1
    <3> QED BY <1>9, <3>1
  <2>2. CASE j = l /\ m # l
    <3>1. HasJob(st, j, i + 1, p) /\ HasJob(st, m, k, p)
      BY <1>7, <2>2
    <3> QED BY <1>9, <2>2, <3>1
  <2>3. CASE j # l /\ m = l
    <3>1. HasJob(st, j, i, p)
      BY <1>7, <2>3
    <3>2. HasJob(st, m, k + 1, p)
      BY <1>7, <2>3
    <3> QED BY <1>9, <2>3, <3>1, <3>2
  <2>4. CASE j = l /\ m = l
    <3>1. HasJob(st, j, i + 1, p) /\ HasJob(st, m, k + 1, p) /\ i \in 1..Len(tail) /\ k \in 1..Len(tail)
      BY <1>7, <2>4
    <3>2. i + 1 = k + 1
      BY <1>9, <3>1
    <3> QED BY <1>3, <2>4, <3>1, <3>2
  <2> QED BY <2>1, <2>2, <2>3, <2>4
<1>11. ASSUME Head(batch).k = "thenable"
       PROVE  Head(batch).cap \in Busy(st) /\ Head(batch).cap \notin Busy(u)
  <2> DEFINE p == Head(batch).cap
  <2>1. p \in Nat
    BY <1>3 DEF JobsOf
  <2>2. HasJob(st, l, 1, p)
    BY <1>0, <1>1, <1>3, <1>11, <1>12 DEF Adopts, HasJob
  <2> HIDE DEF p
  <2>3. p \in Busy(st)
    BY <2>1, <2>2, BusyBy
  <2>4. ASSUME NEW j, NEW i, HasJob(u, j, i, p) PROVE FALSE
    <3>1. CASE j # l
      <4>1. HasJob(st, j, i, p)
        BY <1>7, <2>4, <3>1
      <4> QED BY <1>9, <2>1, <2>2, <3>1, <4>1
    <3>2. CASE j = l
      <4>1. HasJob(st, j, i + 1, p) /\ i \in 1..Len(tail)
        BY <1>7, <2>4, <3>2
      <4>2. i + 1 = 1
        BY <1>9, <2>1, <2>2, <4>1
      <4> QED BY <1>3, <4>1, <4>2
    <3> QED BY <3>1, <3>2
  <2>5. p \notin Busy(u)
    BY <2>4, BusyBy
  <2> QED BY <2>3, <2>5 DEF p
<1> QED BY <1>3, <1>4, <1>5, <1>8, <1>10, <1>11 DEF Stacked, batch

LEMMA Popped ==
  ASSUME NEW n, NEW st, Stacked(n, st), st # <<>>
  PROVE  Stacked(n, To(st, Len(st) - 1)) /\ Busy(To(st, Len(st) - 1)) \subseteq Busy(st)
<1>1. Len(st) \in Nat /\ Len(st) # 0
  BY LenProperties, EmptySeq DEF Stacked
<1>2. Depth(st, Len(st) - 1)
  BY <1>1 DEF Depth
<1> QED BY <1>2, Cut

(* A promise that only a job taken from a batch could decide is pending,   *)
(* and nobody else decides it.                                             *)
LEMMA Unbusied ==
  ASSUME NEW r, NEW busy, Good(r, busy), NEW less, less \subseteq busy, NEW p, p \in busy, p \notin less
  PROVE  Good(r, less) /\ Ready(r, less, p)
<1>1. Good(r, less)
  BY LessBusy
<1>2. Has(r, p) /\ OneEach(r, busy)
  BY DEF Good, Has
<1>3. Free(r, less, p)
  <2>1. \A k \in 1..Len(r.pairs) : Unused(r, k) => r.pairs[k].promise # p
    BY <1>2 DEF OneEach
  <2>2. \A i \in 1..Len(r.jobQueue) : ~Adopts(r.jobQueue, i, p)
    BY <1>2 DEF OneEach
  <2> QED BY <2>1, <2>2 DEF Free
<1>4. r.promises[p].state = "pending"
  <2>1. ~Free(r, busy, p)
    BY DEF Free
  <2> QED BY <1>2, <2>1 DEF OneEach, Has
<1> QED BY <1>1, <1>2, <1>3, <1>4 DEF Ready

(* leave() takes over the queue.                                           *)
BatchOf(g, st, jobs) == g = [Peek(st) EXCEPT !.batch = jobs]
NoQueue(s, r) == s = [r EXCEPT !.jobQueue = <<>>]

LEMMA QueueTaken ==
  ASSUME NEW r, NEW st, Good(r, Busy(st)), Stacked(Size(r), st), st # <<>>, Batch(st) = <<>>,
         NEW g, BatchOf(g, st, r.jobQueue), NEW u, u = OnTop(st, g)
  PROVE  /\ Stacked(Size(r), u)
         /\ \A p : p \in Busy(u) <=> p \in Busy(st) \/ (p \in Nat /\ \E i : Adopts(r.jobQueue, i, p))
<1> DEFINE n == Size(r)
           l == Len(st)
           q == r.jobQueue
           top == Peek(st)
<1>0. st \in Seq(Frames(n)) /\ l \in Nat /\ l \in 1..l
  <2>1. Len(st) \in Nat /\ Len(st) # 0
    BY LenProperties, EmptySeq DEF Stacked
  <2> QED BY <2>1 DEF Stacked
<1>1. top \in Frames(n) /\ top = st[l]
  BY <1>0, ElementOfSeq DEF Peek
<1>2. Typed(r) /\ q \in Seq(JobsOf(n)) /\ OneEach(r, Busy(st)) /\ Busy(st) \subseteq 1..Len(r.promises)
  BY DEF Good, Typed
<1>3. g \in Frames(n) /\ g.k = top.k /\ g.batch = q
  <2>1. g = [top EXCEPT !.batch = q]
    BY DEF BatchOf
  <2> HIDE DEF top, q, n
  <2> QED BY <1>1, <1>2, <2>1 DEF Frames
<1>4. SameKind(g, st)
  BY <1>3 DEF SameKind
<1>5. \A i, p : ~Adopts(st[l].batch, i, p)
  <2>1. st[l].batch = <<>>
    BY DEF Batch, Peek
  <2> QED BY <2>1 DEF Adopts
<1> HIDE DEF top
<1>6. /\ u \in Seq(Frames(n)) /\ Len(u) = Len(st) /\ Bottom(u) /\ u # <<>>
      /\ \A j \in 1..Len(st) : u[j] = IF j = Len(st) THEN g ELSE st[j]
  BY <1>3, <1>4, TopReplaced
<1> HIDE DEF n
<1>7. \A i, p : Adopts(q, i, p) => i \in 1..Len(q)
  BY DEF Adopts
<1>8. \A j, i, p : HasJob(u, j, i, p)
                      <=> (j # l /\ HasJob(st, j, i, p)) \/ (j = l /\ Adopts(q, i, p))
  <2> HIDE DEF q
  <2> QED BY <1>0, <1>3, <1>6 DEF HasJob
<1>9. \A j, i, p : HasJob(st, j, i, p) => j # l
  BY <1>5 DEF HasJob
<1>10. \A p : p \in Busy(u) <=> p \in Busy(st) \/ (p \in Nat /\ \E i : Adopts(q, i, p))
  <2> HIDE DEF q, l
  <2>1. ASSUME NEW p, p \in Busy(u)
        PROVE  p \in Busy(st) \/ (p \in Nat /\ \E i : Adopts(q, i, p))
    <3>1. p \in Nat /\ \E j, i : HasJob(u, j, i, p)
      BY <2>1, BusyBy
    <3> QED BY <1>8, <3>1, BusyBy
  <2>2. ASSUME NEW p, p \in Busy(st) PROVE p \in Busy(u)
    <3>1. p \in Nat /\ \E j, i : HasJob(st, j, i, p)
      BY <2>2, BusyBy
    <3>2. \E j, i : HasJob(u, j, i, p)
      BY <1>8, <1>9, <3>1
    <3> QED BY <3>1, <3>2, BusyBy
  <2>3. ASSUME NEW p, NEW i, p \in Nat, Adopts(q, i, p) PROVE p \in Busy(u)
    <3>1. HasJob(u, l, i, p)
      BY <1>8, <2>3
    <3> QED BY <2>3, <3>1, BusyBy
  <2> QED BY <2>1, <2>2, <2>3
<1>11. \A j, m, i, k, p : p \in Nat /\ HasJob(st, j, i, p) /\ HasJob(st, m, k, p) => j = m /\ i = k
  BY ApartJobs DEF Stacked
<1>12. \A i, k, p : Adopts(q, i, p) /\ Adopts(q, k, p) => i = k
  <2> SUFFICES ASSUME NEW i, NEW k, NEW p, Adopts(q, i, p), Adopts(q, k, p) PROVE i = k
    OBVIOUS
  <2>1. i \in 1..Len(q) /\ k \in 1..Len(q)
    BY <1>7
  <2>2. p \in 1..Len(r.promises)
    <3>1. q[i] \in JobsOf(n)
      BY <1>2, <2>1, ElementOfSeq
    <3> QED BY <3>1, <1>2, Sizes, Zenon DEF Adopts, JobsOf, n
  <2> QED BY <1>2, <2>1, <2>2 DEF OneEach
<1>13. \A i, p : Adopts(q, i, p) => p \notin Busy(st)
  <2> SUFFICES ASSUME NEW i, NEW p, Adopts(q, i, p), p \in Busy(st) PROVE FALSE
    OBVIOUS
  <2>1. i \in 1..Len(q)
    BY <1>7
  <2> QED BY <1>2, <2>1 DEF OneEach
<1>14. BatchesApart(u)
  <2> HIDE DEF q, l
  <2> SUFFICES ASSUME NEW j, NEW m, NEW i, NEW k, NEW p, p \in Nat, HasJob(u, j, i, p), HasJob(u, m, k, p)
               PROVE  j = m /\ i = k
    BY ApartJobs
  <2>1. CASE j # l /\ m # l
    BY <1>8, <1>11, <2>1
  <2>2. CASE j = l /\ m # l
    <3>1. Adopts(q, i, p) /\ HasJob(st, m, k, p)
      BY <1>8, <2>2
    <3> QED BY <1>13, <3>1, BusyBy
  <2>3. CASE j # l /\ m = l
    <3>1. HasJob(st, j, i, p) /\ Adopts(q, k, p)
      BY <1>8, <2>3
    <3> QED BY <1>13, <3>1, BusyBy
  <2>4. CASE j = l /\ m = l
    <3>1. Adopts(q, i, p) /\ Adopts(q, k, p)
      BY <1>8, <2>4
    <3> QED BY <1>12, <2>4, <3>1
  <2> QED BY <2>1, <2>2, <2>3, <2>4
<1> QED BY <1>6, <1>10, <1>14 DEF Stacked, n

LEMMA QueueEmptied ==
  ASSUME NEW r, NEW busy, Good(r, busy), NEW more, more \subseteq Nat,
         \A p : p \in more <=> p \in busy \/ (p \in Nat /\ \E i : Adopts(r.jobQueue, i, p)),
         NEW s, NoQueue(s, r)
  PROVE  Good(s, more) /\ Keeps(r, s) /\ Size(s) = Size(r)
<1>0. Typed(r) /\ OneEach(r, busy) /\ busy \subseteq 1..Len(r.promises)
  BY DEF Good
<1>1. Only(r, s, {"jobQueue"}) /\ s.jobQueue = <<>>
  <2>1. Shape(r) /\ s = [r EXCEPT !.jobQueue = <<>>]
    BY <1>0 DEF Typed, NoQueue
  <2> QED BY <2>1, Set_jobQueue, Zenon
<1>2. /\ Shape(s) /\ s.promises = r.promises /\ s.pairs = r.pairs /\ s.combs = r.combs /\ Size(s) = Size(r)
      /\ s.finals \in Seq(Finals)
  BY <1>0, <1>1, Zenon DEF Only, Size, Typed
<1>3. Typed(s)
  <2>1. s.jobQueue \in Seq(JobsOf(Size(s)))
    BY <1>1, EmptySeq
  <2> QED BY <1>0, <1>2, <2>1 DEF Typed
<1>4. Keeps(r, s)
  BY <1>0, <1>2, Sizes DEF Keeps
<1>5. \A i, p : ~Adopts(s.jobQueue, i, p)
  BY <1>1 DEF Adopts
<1>6. \A k : Unused(s, k) <=> Unused(r, k)
  BY <1>2 DEF Unused
<1>7. \A i, p : Adopts(r.jobQueue, i, p) => i \in 1..Len(r.jobQueue) /\ p \in 1..Len(r.promises)
  <2> SUFFICES ASSUME NEW i, NEW p, Adopts(r.jobQueue, i, p)
               PROVE  i \in 1..Len(r.jobQueue) /\ p \in 1..Len(r.promises)
    OBVIOUS
  <2>1. i \in 1..Len(r.jobQueue)
    BY DEF Adopts
  <2>2. r.jobQueue[i] \in JobsOf(Size(r))
    BY <1>0, <2>1, ElementOfSeq DEF Typed
  <2> QED BY <1>0, <2>1, <2>2, Sizes DEF Adopts, JobsOf
<1>8. more \subseteq 1..Len(s.promises)
  BY <1>0, <1>2, <1>7
<1>9. \A p \in 1..Len(r.promises) : Free(r, busy, p) => Free(s, more, p)
  <2> SUFFICES ASSUME NEW p \in 1..Len(r.promises), Free(r, busy, p) PROVE Free(s, more, p)
    OBVIOUS
  <2>1. p \notin busy /\ \A i : ~Adopts(r.jobQueue, i, p)
    BY <1>7 DEF Free
  <2>2. p \notin more
    BY <2>1
  <2>3. \A k \in 1..Len(s.pairs) : Unused(s, k) => s.pairs[k].promise # p
    BY <1>2, <1>6 DEF Free
  <2> QED BY <1>5, <2>2, <2>3 DEF Free
<1>10. OneEach(s, more)
  <2>1. \A k, m \in 1..Len(s.pairs) :
          Unused(s, k) /\ Unused(s, m) /\ s.pairs[k].promise = s.pairs[m].promise => k = m
    BY <1>0, <1>2, <1>6 DEF OneEach
  <2>2. \A k \in 1..Len(s.pairs) : Unused(s, k) => s.pairs[k].promise \notin more
    <3> SUFFICES ASSUME NEW k \in 1..Len(s.pairs), Unused(s, k) PROVE s.pairs[k].promise \notin more
      OBVIOUS
    <3>1. Unused(r, k) /\ k \in 1..Len(r.pairs) /\ s.pairs[k] = r.pairs[k]
      BY <1>2, <1>6
    <3>2. r.pairs[k].promise \notin busy
      BY <1>0, <3>1 DEF OneEach
    <3>3. \A i : ~Adopts(r.jobQueue, i, r.pairs[k].promise)
      BY <1>0, <1>7, <3>1 DEF OneEach
    <3> QED BY <3>1, <3>2, <3>3
  <2>3. \A p \in 1..Len(s.promises) : s.promises[p].state # "pending" => Free(s, more, p)
    BY <1>0, <1>2, <1>9 DEF OneEach
  <2> QED BY <1>5, <2>1, <2>2, <2>3 DEF OneEach
<1>11. \A p \in 1..Len(s.promises) : TrackedWell(s.promises[p])
  BY <1>2 DEF Good
<1> QED BY <1>2, <1>3, <1>4, <1>8, <1>10, <1>11 DEF Good

(* An interrupt drops what is queued.                                      *)
LEMMA QueueDropped ==
  ASSUME NEW r, NEW busy, Good(r, busy), NEW s, NoQueue(s, r)
  PROVE  Good(s, busy) /\ Keeps(r, s) /\ Size(s) = Size(r)
<1> DEFINE more == {p \in Nat : p \in busy \/ (p \in Nat /\ \E i : Adopts(r.jobQueue, i, p))}
<1>1. busy \subseteq Nat
  BY Sizes DEF Good
<1>2. more \subseteq Nat /\ busy \subseteq more
      /\ \A p : p \in more <=> p \in busy \/ (p \in Nat /\ \E i : Adopts(r.jobQueue, i, p))
  BY <1>1, Zenon
<1> HIDE DEF more
<1>3. Good(s, more) /\ Keeps(r, s) /\ Size(s) = Size(r)
  BY <1>2, QueueEmptied, Zenon
<1> QED BY <1>2, <1>3, LessBusy

(* The nearest frame of some kind, for a stack that has one.               *)
LEMMA Largest ==
  ASSUME NEW n, n \in Nat, NEW S, S \subseteq 1..n, S # {}
  PROVE  Max(S) \in S /\ \A y \in S : y <= Max(S)
<1> DEFINE U == 1..n
           T == {i..n : i \in S}
           R == StrictSubsetOrdering(U)
<1>1. IsWellFoundedOn(R, FiniteSubsetsOf(U))
  BY FS_StrictSubsetOrderingWellFounded
<1>2. T \subseteq FiniteSubsetsOf(U) /\ T # {}
  <2>1. IsFiniteSet(U)
    BY FS_Interval
  <2>2. FiniteSubsetsOf(U) = SUBSET U
    BY <2>1, FS_FiniteSubsetsOfFinite
  <2>3. PICK e \in S : TRUE
    BY Zenon
  <2>4. e..n \in T
    BY <2>3
  <2>5. \A x \in T : x \subseteq U
    <3>1. \A i \in S : i..n \subseteq 1..n
      OBVIOUS
    <3> QED BY <3>1
  <2> QED BY <2>2, <2>4, <2>5
<1>3. \E x \in T : \A y \in T : ~(<<y, x>> \in R)
  <2> HIDE DEF T, R, U
  <2> QED BY <1>1, <1>2, WFMin
<1>4. PICK i \in S : \A y \in S : ~(<<y..n, i..n>> \in R)
  BY <1>3, Zenon
<1>5. \A y \in S : y <= i
  <2> SUFFICES ASSUME NEW y \in S, ~(y <= i) PROVE FALSE
    OBVIOUS
  <2>1. y..n \subseteq i..n /\ i \in i..n /\ i \notin y..n /\ y..n \in SUBSET U /\ i..n \in SUBSET U
    OBVIOUS
  <2>2. <<y..n, i..n>> \in R
    BY <2>1 DEF StrictSubsetOrdering
  <2> QED BY <1>4, <2>2
<1>6. \E x \in S : \A y \in S : x >= y
  BY <1>5
<1> QED BY <1>6, Zenon DEF Max

-----------------------------------------------------------------------------
(* One lemma per action: it keeps the invariant and changes nothing that   *)
(* has been decided.                                                       *)

Stepped == Inv' /\ Grown(rt, rt')
Emptied == Inv' /\ Keeps(rt, rt')   \* the steps of leave() and leaveAbrupt()

LEMMA Stays ==
  ASSUME NEW r, NEW s, Good(r, {}), Keeps(r, s)
  PROVE  /\ \A h : Held(h, r) => Held(h, s)
         /\ \A kn : Knows(kn, r) => Knows(kn, s)
         /\ \A st : Stacked(Size(r), st) => Stacked(Size(s), st)
<1>1. Functions(Size(r)) \subseteq Functions(Size(s)) /\ Seq(Frames(Size(r))) \subseteq Seq(Frames(Size(s)))
  BY KeepsTypes
<1>2. \A p : Has(r, p) => Has(s, p)
  BY KeepsAll
<1>3. \A kn : Knows(kn, r) => Knows(kn, s)
  BY <1>2 DEF Knows, Has
<1> QED BY <1>1, <1>3 DEF Held, Stacked

LEMMA Kept ==
  ASSUME NEW r, NEW s, Good(r, {}), Grown(r, s)
  PROVE  /\ \A h : Held(h, r) => Held(h, s)
         /\ \A kn : Knows(kn, r) => Knows(kn, s)
         /\ \A st : Stacked(Size(r), st) => Stacked(Size(s), st)
BY Stays DEF Grown

LEMMA StandsOn ==
  ASSUME NEW r, NEW busy, Good(r, busy), NEW s, Good(s, busy), Keeps(r, s),
         NEW u, Stacked(Size(r), u), Busy(u) \subseteq busy,
         NEW h, Held(h, r), NEW kn, Knows(kn, r)
  PROVE  OK(s, h, kn, u)
<1>1. Good(r, {})
  BY LessBusy
<1>2. Good(s, Busy(u))
  BY LessBusy
<1>3. Held(h, s) /\ Knows(kn, s) /\ Stacked(Size(s), u)
  BY <1>1, Stays
<1> QED BY <1>2, <1>3 DEF OK

LEMMA Stands ==
  ASSUME NEW r, NEW busy, Good(r, busy), NEW s, Good(s, busy), Grown(r, s),
         NEW u, Stacked(Size(r), u), Busy(u) \subseteq busy,
         NEW h, Held(h, r), NEW kn, Knows(kn, r)
  PROVE  OK(s, h, kn, u)
BY StandsOn DEF Grown

(* The same for steps that leave the stack, or what user code has, alone.  *)
LEMMA Same ==
  ASSUME NEW r, NEW h, NEW kn, NEW st, OK(r, h, kn, st), NEW s, Good(s, Busy(st)), Grown(r, s)
  PROVE  OK(s, h, kn, st)
<1>1. Good(r, Busy(st)) /\ Stacked(Size(r), st) /\ Held(h, r) /\ Knows(kn, r)
  BY DEF OK
<1> QED BY <1>1, Stands

LEMMA Learnt ==
  ASSUME NEW r, NEW h, NEW kn, NEW st, OK(r, h, kn, st), NEW p, Has(r, p)
  PROVE  OK(r, h, kn \cup {p}, st)
BY DEF OK, Knows, Has

LEMMA Handed ==
  ASSUME NEW r, NEW h, NEW kn, NEW st, OK(r, h, kn, st),
         NEW f, f \in Functions(Size(r)), NEW g, g \in Functions(Size(r))
  PROVE  OK(r, h \cup {f, g}, kn, st)
BY DEF OK, Held

LEMMA PairFunctions ==
  ASSUME NEW r, NEW k, HasPair(r, k), Typed(r)
  PROVE  ResolveFn(k) \in Functions(Size(r)) /\ RejectFn(k) \in Functions(Size(r))
<1>1. k \in 1..Size(r).k /\ k \in Nat
  BY Sizes DEF HasPair
<1>2. Undefined \in Values(Size(r))
  BY OwnValues
<1> HIDE DEF Undefined
<1> QED BY <1>1, <1>2 DEF ResolveFn, RejectFn, Fn, Functions, Natives

LEMMA HandlersTyped ==
  ASSUME NEW n, NEW f, f \in {"none", "js", "go"}
  PROVE  UserFn(f) \in Functions(n)
<1>1. Undefined \in Values(n)
  BY OwnValues
<1> HIDE DEF Undefined
<1> QED BY <1>1 DEF UserFn, Fn, Functions, Natives

LEMMA ArgsTyped ==
  ASSUME Inv
  PROVE  Args \subseteq Values(Size(rt)) /\ Plain \subseteq Values(Size(rt))
<1>1. Typed(rt) /\ Knows(known, rt)
  BY DEF Inv, OK, Good
<1>2. Size(rt).p = Len(rt.promises) /\ Len(rt.promises) \in Nat
  BY <1>1, Sizes
<1>3. Plain \subseteq Values(Size(rt))
  BY PromisesAssumption DEF Plain, Val, Values
<1>4. \A p \in known : PromiseVal(p) \in Values(Size(rt))
  BY <1>1, <1>2 DEF PromiseVal, Val, Values, Knows
<1>5. \A t \in Thenables : Val(t, 0) \in Values(Size(rt))
  BY PromisesAssumption DEF Val, Values
<1> QED BY <1>3, <1>4, <1>5 DEF Args

LEMMA NewPromiseStep ==
  ASSUME Inv, NewPromise
  PROVE  Stepped
<1> DEFINE k == Len(rt'.pairs)
<1>1. /\ rt' = newPromise(rt) /\ stack' = stack /\ held' = held \cup {ResolveFn(k), RejectFn(k)}
      /\ known' = known \cup {Len(rt'.promises)}
  BY DEF NewPromise, learn
<1>2. OK(rt, held, known, stack) /\ Good(rt, Busy(stack))
  BY DEF Inv, OK
<1>3. /\ Good(rt', Busy(stack)) /\ Grown(rt, rt') /\ HasPair(rt', k) /\ Has(rt', Len(rt'.promises))
  BY <1>1, <1>2, NewPromiseMade
<1> HIDE DEF k
<1>4. OK(rt', held, known, stack)
  BY <1>2, <1>3, Same
<1>5. OK(rt', held, known \cup {Len(rt'.promises)}, stack)
  BY <1>3, <1>4, Learnt
<1>6. ResolveFn(k) \in Functions(Size(rt')) /\ RejectFn(k) \in Functions(Size(rt'))
  BY <1>3, PairFunctions DEF Good
<1>7. OK(rt', held \cup {ResolveFn(k), RejectFn(k)}, known \cup {Len(rt'.promises)}, stack)
  BY <1>5, <1>6, Handed
<1> QED BY <1>1, <1>3, <1>7 DEF Stepped, Inv

LEMMA ThenStep ==
  ASSUME Inv, NEW p \in known, NEW f \in Handlers, NEW g \in Handlers, Then(p, f, g)
  PROVE  Stepped
<1>1. rt' = then(rt, p, UserFn(f), UserFn(g)) /\ stack' = stack /\ held' = held
      /\ known' = known \cup {Len(rt'.promises)}
  BY DEF Then, learn
<1>2. OK(rt, held, known, stack) /\ Good(rt, Busy(stack)) /\ Has(rt, p)
  BY DEF Inv, OK, Knows, Has
<1>3. UserFn(f) \in Functions(Size(rt)) /\ UserFn(g) \in Functions(Size(rt))
  BY PromisesAssumption, HandlersTyped
<1>4. Good(rt', Busy(stack)) /\ Grown(rt, rt') /\ Has(rt', Len(rt'.promises))
  BY <1>1, <1>2, <1>3, Thened
<1>5. OK(rt', held, known, stack)
  BY <1>2, <1>4, Same
<1>6. OK(rt', held, known \cup {Len(rt'.promises)}, stack)
  BY <1>4, <1>5, Learnt
<1> QED BY <1>1, <1>4, <1>6 DEF Stepped, Inv

LEMMA FinallyStep ==
  ASSUME Inv, NEW p \in known, Finally(p)
  PROVE  Stepped
<1> DEFINE n == Len(rt.finals) + 1
           f == Fn("finThen", n, 0, Undefined)
           g == Fn("finCatch", n, 0, Undefined)
           t == then(rt, p, f, g)
           e == [from |-> p, pair |-> Len(t.pairs), via |-> Undefined, threw |-> FALSE]
           finals == Append(t.finals, e)
<1>1. rt' = [t EXCEPT !.finals = finals] /\ stack' = stack /\ held' = held
      /\ known' = known \cup {Len(rt'.promises)}
  BY DEF Finally, learn
<1>2. OK(rt, held, known, stack) /\ Good(rt, Busy(stack)) /\ Has(rt, p)
  BY DEF Inv, OK, Knows, Has
<1>3. f \in Functions(Size(rt)) /\ g \in Functions(Size(rt))
  <2>1. n \in Nat
    BY <1>2, LenProperties DEF Good, Typed
  <2>2. Undefined \in Values(Size(rt))
    BY OwnValues
  <2> HIDE DEF n, Undefined
  <2> QED BY <2>1, <2>2 DEF Fn, Functions, Natives
<1> HIDE DEF f, g
<1>4. Good(t, Busy(stack)) /\ Grown(rt, t) /\ Has(t, Len(t.promises))
  BY <1>2, <1>3, Thened
<1>5. e \in Finals
  <2>1. p \in Nat /\ Len(t.pairs) \in Nat
    BY <1>2, <1>4, Sizes DEF Has, Good
  <2> HIDE DEF t
  <2> QED BY <2>1 DEF Finals, Undefined, Val
<1> HIDE DEF t, e
<1>6. finals \in Seq(Finals)
  BY <1>4, <1>5, AppendProperties DEF Good, Typed
<1> HIDE DEF finals
<1>7. Only(t, rt', {"finals"}) /\ rt'.finals = finals
  BY <1>1, <1>4, Set_finals, Zenon DEF Good, Typed
<1>8. Good(rt', Busy(stack)) /\ Grown(t, rt')
  BY <1>4, <1>6, <1>7, FinalsChanged
<1>9. Grown(rt, rt')
  BY <1>4, <1>8, GrownOn
<1>10. Has(rt', Len(rt'.promises))
  BY <1>4, <1>7 DEF Only, Has
<1>11. OK(rt', held, known, stack)
  BY <1>2, <1>8, <1>9, Same
<1>12. OK(rt', held, known \cup {Len(rt'.promises)}, stack)
  BY <1>10, <1>11, Learnt
<1> QED BY <1>1, <1>9, <1>12 DEF Stepped, Inv

LEMMA StaticResolveStep ==
  ASSUME Inv, NEW x \in Args, StaticResolve(x)
  PROVE  Stepped
<1>1. rt' = promiseResolve(rt, x) /\ stack' = stack /\ held' = held /\ known' = known \cup {promiseOf(rt, x)}
  BY DEF StaticResolve
<1>2. OK(rt, held, known, stack) /\ Good(rt, Busy(stack)) /\ x \in Values(Size(rt))
  BY ArgsTyped DEF Inv, OK
<1>3. Good(rt', Busy(stack)) /\ Grown(rt, rt') /\ Has(rt', promiseOf(rt, x))
  BY <1>1, <1>2, ResolvedTo
<1>4. OK(rt', held, known, stack)
  BY <1>2, <1>3, Same
<1>5. OK(rt', held, known \cup {promiseOf(rt, x)}, stack)
  BY <1>3, <1>4, Learnt
<1> QED BY <1>1, <1>3, <1>5 DEF Stepped, Inv

LEMMA StaticRejectStep ==
  ASSUME Inv, NEW x \in Args, StaticReject(x)
  PROVE  Stepped
<1> DEFINE n == newPromise(rt)
<1>1. rt' = rejectBy(n, Len(n.pairs), x) /\ stack' = stack /\ held' = held
      /\ known' = known \cup {Len(rt'.promises)}
  BY DEF StaticReject, learn
<1>2. OK(rt, held, known, stack) /\ Good(rt, Busy(stack)) /\ x \in Values(Size(rt))
  BY ArgsTyped DEF Inv, OK
<1>3. Good(n, Busy(stack)) /\ Grown(rt, n) /\ HasPair(n, Len(n.pairs)) /\ Has(n, Len(n.promises))
  BY <1>2, NewPromiseMade
<1> HIDE DEF n
<1>4. x \in Values(Size(n))
  BY <1>2, <1>3, StillTyped
<1>5. Good(rt', Busy(stack)) /\ Grown(n, rt') /\ Size(rt') = Size(n)
  BY <1>1, <1>3, <1>4, RejectedBy
<1>6. Grown(rt, rt')
  BY <1>3, <1>5, GrownOn
<1>7. Has(rt', Len(rt'.promises))
  <2>1. Len(rt'.promises) = Len(n.promises)
    BY <1>3, <1>5, Sizes DEF Good
  <2> QED BY <1>3, <2>1 DEF Has
<1>8. OK(rt', held, known, stack)
  BY <1>2, <1>5, <1>6, Same
<1>9. OK(rt', held, known \cup {Len(rt'.promises)}, stack)
  BY <1>7, <1>8, Learnt
<1> QED BY <1>1, <1>6, <1>9 DEF Stepped, Inv

LEMMA CallHeldStep ==
  ASSUME Inv, NEW f \in held, NEW x \in Args, CallHeld(f, x)
  PROVE  Stepped
<1>1. rt' = call(rt, f, x) /\ stack' = stack /\ held' = held /\ known' = known
  BY DEF CallHeld
<1>2. /\ OK(rt, held, known, stack) /\ Good(rt, Busy(stack)) /\ x \in Values(Size(rt))
      /\ f \in Functions(Size(rt))
  BY ArgsTyped DEF Inv, OK, Held
<1>3. Good(rt', Busy(stack)) /\ Grown(rt, rt')
  BY <1>1, <1>2, Called
<1>4. OK(rt', held, known, stack)
  BY <1>2, <1>3, Same
<1> QED BY <1>1, <1>3, <1>4 DEF Stepped, Inv

LEMMA JobNone ==
  ASSUME NEW n, AtMost(n, n)
  PROVE  NoJob \in JobsOf(n) /\ <<>> \in Seq(JobsOf(n))
<1>1. Undefined \in Values(n) /\ NoFn \in Functions(n) /\ 0 \in 0..n.k
  BY OwnValues DEF AtMost
<1>2. <<>> \in Seq(JobsOf(n))
  BY EmptySeq
<1>3. NoJob \in JobsOf(n)
  <2> HIDE DEF Undefined, NoFn
  <2> QED BY <1>1 DEF NoJob, Job, JobsOf, NoPair
<1> QED BY <1>2, <1>3

(* The frames that are pushed on the stack.                                *)
LEMMA IterateFrame ==
  ASSUME NEW n, AtMost(n, n), NEW c, c \in 1..n.c, NEW f, f = Frame("iterate", TRUE, FALSE, <<>>, NoJob, c)
  PROVE  f \in Frames(n) /\ f.batch = <<>>
<1>1. NoJob \in JobsOf(n) /\ <<>> \in Seq(JobsOf(n)) /\ c \in Nat
  BY JobNone DEF AtMost
<1> HIDE DEF NoJob
<1> QED BY <1>1 DEF Frame, Frames

LEMMA OuterFrame ==
  ASSUME NEW n, AtMost(n, n), NEW prog \in BOOLEAN, NEW js \in BOOLEAN, NEW k \in {"run", "leave"},
         NEW f, f = Frame(k, js, prog, <<>>, NoJob, 0)
  PROVE  f \in Frames(n) /\ f.batch = <<>> /\ f.k = k
<1>1. NoJob \in JobsOf(n) /\ <<>> \in Seq(JobsOf(n))
  BY JobNone
<1> HIDE DEF NoJob
<1> QED BY <1>1 DEF Frame, Frames

LEMMA HandlerFrame ==
  ASSUME NEW n, AtMost(n, n), NEW js \in BOOLEAN, NEW job \in JobsOf(n), NEW m \in Nat,
         job.k = "thenable" => m \in 1..n.k,
         NEW f, f = Frame("handler", js, FALSE, <<>>, job, m)
  PROVE  f \in Frames(n) /\ f.batch = <<>>
<1>1. <<>> \in Seq(JobsOf(n))
  BY EmptySeq
<1> QED BY <1>1 DEF Frame, Frames

LEMMA WithFrame ==
  ASSUME NEW r, NEW h, NEW kn, NEW st, OK(r, h, kn, st), NEW f, f \in Frames(Size(r)), f.batch = <<>>,
         st # <<>> \/ f.k \in {"run", "leave"}, NEW u, u = Append(st, f)
  PROVE  OK(r, h, kn, u)
<1>1. Stacked(Size(r), st) /\ Good(r, Busy(st)) /\ Held(h, r) /\ Knows(kn, r)
  BY DEF OK
<1>2. Stacked(Size(r), u) /\ Busy(u) = Busy(st)
  BY <1>1, Pushed, Zenon
<1> QED BY <1>1, <1>2 DEF OK

LEMMA CombineStep ==
  ASSUME Inv, NEW op \in Combinators, Combine(op)
  PROVE  Stepped
<1> DEFINE c == Len(rt'.combs)
           f == Frame("iterate", TRUE, FALSE, <<>>, NoJob, c)
<1>1. rt' = combinator(rt, op) /\ stack' = Append(stack, f) /\ held' = held /\ known' = known /\ stack # <<>>
  BY DEF Combine, push, Running
<1>2. /\ OK(rt, held, known, stack) /\ Good(rt, Busy(stack)) /\ op \in {"all", "allSettled", "any", "race"}
  BY PromisesAssumption DEF Inv, OK
<1>3. Good(rt', Busy(stack)) /\ Grown(rt, rt') /\ HasComb(rt', c)
  BY <1>1, <1>2, Combined
<1>4. OK(rt', held, known, stack)
  BY <1>2, <1>3, Same
<1>5. c \in 1..Size(rt').c /\ c \in Nat
  BY <1>3, Sizes DEF HasComb, Good
<1> HIDE DEF c
<1>6. f \in Frames(Size(rt')) /\ f.batch = <<>>
  <2>1. AtMost(Size(rt'), Size(rt'))
    BY <1>3, Sizes DEF Good
  <2> HIDE DEF f
  <2>2. f = Frame("iterate", TRUE, FALSE, <<>>, NoJob, c)
    BY DEF f
  <2> QED BY <1>5, <2>1, <2>2, IterateFrame, Zenon
<1> HIDE DEF f
<1>7. OK(rt', held, known, stack')
  BY <1>1, <1>4, <1>6, WithFrame, Zenon
<1> QED BY <1>1, <1>3, <1>7 DEF Stepped, Inv

LEMMA OnTyped ==
  ASSUME NEW r, NEW h, NEW kn, NEW st, OK(r, h, kn, st), st # <<>>
  PROVE  Peek(st) \in Frames(Size(r))
<1>1. st \in Seq(Frames(Size(r))) /\ Len(st) \in Nat /\ Len(st) # 0
  BY LenProperties, EmptySeq DEF OK, Stacked
<1> QED BY <1>1, ElementOfSeq DEF Peek

LEMMA ElementFunctions ==
  ASSUME NEW r, Typed(r), NEW c, HasComb(r, c), NEW i, i \in Nat
  PROVE  onFulfilled(r, c, i) \in Functions(Size(r)) /\ onRejected(r, c, i) \in Functions(Size(r))
<1>1. c \in 1..Size(r).c /\ c \in Nat
  BY Sizes DEF HasComb
<1>2. r.combs[c].cap \in 1..Size(r).k /\ Size(r).k = Len(r.pairs)
  <2>1. r.combs[c] \in Combs(Size(r))
    BY ElementOfSeq DEF HasComb, Typed
  <2> QED BY <2>1, Sizes, Zenon DEF Combs
<1>3. ResolveFn(r.combs[c].cap) \in Functions(Size(r)) /\ RejectFn(r.combs[c].cap) \in Functions(Size(r))
  BY <1>2, PairFunctions DEF HasPair
<1>4. Undefined \in Values(Size(r))
  BY OwnValues
<1>5. /\ Fn("fulfilled", c, i, Undefined) \in Functions(Size(r))
      /\ Fn("rejected", c, i, Undefined) \in Functions(Size(r))
  <2> HIDE DEF Undefined
  <2> QED BY <1>1, <1>4 DEF Fn, Functions, Natives
<1> QED BY <1>3, <1>5 DEF onFulfilled, onRejected

LEMMA Looping ==
  ASSUME Inv, On("iterate")
  PROVE  /\ HasComb(rt, Top.n) /\ Good(rt, Busy(stack)) /\ OK(rt, held, known, stack) /\ stack # <<>>
         /\ HasPair(rt, rt.combs[Top.n].cap)
<1>1. OK(rt, held, known, stack) /\ Good(rt, Busy(stack)) /\ Typed(rt) /\ stack # <<>>
  BY DEF Inv, OK, On, Good
<1>2. Top \in Frames(Size(rt)) /\ Top.k = "iterate"
  BY <1>1, OnTyped DEF Top, Peek, On
<1>3. HasComb(rt, Top.n)
  BY <1>1, <1>2, Sizes DEF Frames, HasComb
<1>4. HasPair(rt, rt.combs[Top.n].cap)
  <2>1. rt.combs[Top.n] \in Combs(Size(rt))
    BY <1>1, <1>3, ElementOfSeq DEF HasComb, Typed
  <2> QED BY <1>1, <2>1, Sizes, Zenon DEF Combs, HasPair
<1> QED BY <1>1, <1>3, <1>4

LEMMA InputsCounted ==
  ASSUME NEW r, Typed(r), NEW c, HasComb(r, c)
  PROVE  Len(r.combs[c].inputs) \in Nat
<1>1. r.combs[c] \in Combs(Size(r))
  BY ElementOfSeq DEF HasComb, Typed
<1> QED BY <1>1, LenProperties DEF Combs

LEMMA IterNextStep ==
  ASSUME Inv, NEW x \in Args, IterNext(x)
  PROVE  Stepped
<1> DEFINE c == Top.n
           q == promiseResolve(rt, x)
           p == promiseOf(rt, x)
           r == counted(q, c, p)
           i == Len(r.combs[c].inputs)
           f == onFulfilled(r, c, i)
           g == onRejected(r, c, i)
<1>1. rt' = then(r, p, f, g) /\ stack' = stack /\ held' = held /\ known' = known /\ On("iterate")
  BY DEF IterNext, More
<1>2. HasComb(rt, c) /\ Good(rt, Busy(stack)) /\ OK(rt, held, known, stack) /\ x \in Values(Size(rt))
  BY <1>1, Looping, ArgsTyped
<1> HIDE DEF c
<1>3. Good(q, Busy(stack)) /\ Grown(rt, q) /\ Has(q, p)
  BY <1>2, ResolvedTo
<1>4. HasComb(q, c) /\ p \in Nat
  BY <1>2, <1>3, StillThere DEF Has
<1> HIDE DEF q, p
<1>5. Good(r, Busy(stack)) /\ Grown(q, r) /\ Size(r) = Size(q)
  BY <1>3, <1>4, Counted DEF Recounted
<1>6. HasComb(r, c) /\ Has(r, p)
  BY <1>3, <1>4, <1>5, StillThere
<1> HIDE DEF r
<1>7. f \in Functions(Size(r)) /\ g \in Functions(Size(r))
  <2>1. Typed(r) /\ i \in Nat
    BY <1>5, <1>6, InputsCounted DEF Good
  <2> HIDE DEF i
  <2> QED BY <1>6, <2>1, ElementFunctions
<1> HIDE DEF f, g
<1>8. Good(rt', Busy(stack)) /\ Grown(r, rt')
  BY <1>1, <1>5, <1>6, <1>7, Thened
<1>9. Grown(rt, r)
  BY <1>3, <1>5, GrownOn
<1>10. Grown(rt, rt')
  BY <1>8, <1>9, GrownOn
<1>11. OK(rt', held, known, stack)
  BY <1>2, <1>8, <1>10, Same
<1> QED BY <1>1, <1>10, <1>11 DEF Stepped, Inv

LEMMA IterWildStep ==
  ASSUME Inv, IterWild
  PROVE  Stepped
<1> DEFINE c == Top.n
           r == counted(rt, c, 0)
           i == Len(r.combs[c].inputs)
           f == onFulfilled(r, c, i)
           g == onRejected(r, c, i)
<1>1. rt' = r /\ stack' = stack /\ held' = held \cup {f, g} /\ known' = known /\ On("iterate")
  BY DEF IterWild, More
<1>2. HasComb(rt, c) /\ Good(rt, Busy(stack)) /\ OK(rt, held, known, stack)
  BY <1>1, Looping
<1> HIDE DEF c
<1>3. Good(r, Busy(stack)) /\ Grown(rt, r)
  BY <1>2, Counted DEF Recounted
<1>4. HasComb(r, c)
  BY <1>2, <1>3, StillThere
<1> HIDE DEF r
<1>5. f \in Functions(Size(r)) /\ g \in Functions(Size(r))
  <2>1. Typed(r) /\ i \in Nat
    BY <1>3, <1>4, InputsCounted DEF Good
  <2> HIDE DEF i
  <2> QED BY <1>4, <2>1, ElementFunctions
<1> HIDE DEF f, g
<1>6. OK(r, held, known, stack)
  BY <1>2, <1>3, Same
<1>7. OK(r, held \cup {f, g}, known, stack)
  BY <1>5, <1>6, Handed
<1> QED BY <1>1, <1>3, <1>7 DEF Stepped, Inv

(* The end of a combinator's loop, whatever becomes of its promise.        *)
LEMMA IterDoneStep ==
  ASSUME Inv, IterDone, Good(rt', Busy(stack)), Grown(rt, rt')
  PROVE  Stepped
<1> DEFINE p == rt.pairs[rt.combs[Top.n].cap].promise
<1>1. stack' = To(stack, Len(stack) - 1) /\ held' = held /\ known' = known \cup {p} /\ On("iterate")
  BY DEF IterDone, below, To
<1>2. OK(rt, held, known, stack) /\ Good(rt, Busy(stack)) /\ HasPair(rt, rt.combs[Top.n].cap) /\ stack # <<>>
  BY <1>1, Looping
<1>3. Has(rt, p)
  <2>1. rt.pairs[rt.combs[Top.n].cap] \in Pairs(Size(rt))
    BY <1>2, ElementOfSeq, Zenon DEF Good, Typed, HasPair
  <2> QED BY <1>2, <2>1, Sizes DEF Pairs, Has, Good
<1>4. Has(rt', p)
  BY <1>3, StillThere
<1> HIDE DEF p
<1>5. Stacked(Size(rt), stack) /\ Held(held, rt) /\ Knows(known, rt)
  BY <1>2 DEF OK
<1>6. Stacked(Size(rt), stack') /\ Busy(stack') \subseteq Busy(stack)
  BY <1>1, <1>2, <1>5, Popped
<1>7. OK(rt', held, known, stack')
  BY <1>2, <1>5, <1>6, Stands
<1>8. OK(rt', held, known \cup {p}, stack')
  BY <1>4, <1>7, Learnt
<1> QED BY <1>1, <1>8 DEF Stepped, Inv

LEMMA IterEndStep ==
  ASSUME Inv, IterEnd
  PROVE  Stepped
<1>1. rt' = ended(rt, Top.n) /\ IterDone /\ On("iterate")
  BY DEF IterEnd, IterDone
<1>2. HasComb(rt, Top.n) /\ Good(rt, Busy(stack))
  BY <1>1, Looping
<1>3. Good(rt', Busy(stack)) /\ Grown(rt, rt')
  BY <1>1, <1>2, Ended
<1> QED BY <1>1, <1>3, IterDoneStep

LEMMA IterThrowsStep ==
  ASSUME Inv, NEW x \in Plain, IterThrows(x)
  PROVE  Stepped
<1>1. rt' = rejectBy(rt, rt.combs[Top.n].cap, x) /\ IterDone /\ On("iterate")
  BY DEF IterThrows, IterDone
<1>2. HasPair(rt, rt.combs[Top.n].cap) /\ Good(rt, Busy(stack)) /\ x \in Values(Size(rt))
  BY <1>1, Looping, ArgsTyped
<1>3. Good(rt', Busy(stack)) /\ Grown(rt, rt')
  BY <1>1, <1>2, RejectedBy
<1> QED BY <1>1, <1>3, IterDoneStep

(* The job that leave() takes, and the stack without it.                   *)
TheJob == Head(Top.batch)
After == OnTop(stack, rest)

LEMMA JobTaken ==
  ASSUME Inv, NEW kind, Taking(kind)
  PROVE  /\ OK(rt, held, known, stack) /\ Good(rt, Busy(stack)) /\ stack # <<>>
         /\ Stacked(Size(rt), After) /\ Busy(After) \subseteq Busy(stack) /\ After # <<>>
         /\ rest \in Frames(Size(rt)) /\ Stacked(Size(rt), stack)
         /\ TheJob \in JobsOf(Size(rt)) /\ TheJob.k = kind
         /\ kind = "thenable" => TheJob.cap \in Busy(stack) /\ TheJob.cap \notin Busy(After)
<1>1. OK(rt, held, known, stack) /\ Good(rt, Busy(stack)) /\ Stacked(Size(rt), stack)
  BY DEF Inv, OK
<1>2. stack # <<>> /\ Batch(stack) # <<>> /\ TheJob.k = kind /\ TheJob = Head(Batch(stack))
  BY DEF Taking, On, Batch, Peek, Top, TheJob
<1>3. RestOf(rest, stack)
  BY DEF rest, RestOf, Peek, Top
<1> HIDE DEF rest
<1>4. /\ Stacked(Size(rt), After) /\ Busy(After) \subseteq Busy(stack) /\ After # <<>>
      /\ rest \in Frames(Size(rt))
      /\ Head(Batch(stack)) \in JobsOf(Size(rt))
      /\ Head(Batch(stack)).k = "thenable" => /\ Head(Batch(stack)).cap \in Busy(stack)
                                              /\ Head(Batch(stack)).cap \notin Busy(After)
  BY <1>1, <1>2, <1>3, Taken DEF After
<1> QED BY <1>1, <1>2, <1>4

LEMMA JobParts ==
  ASSUME NEW r, Typed(r), NEW job, job \in JobsOf(Size(r))
  PROVE  /\ job.handler \in Functions(Size(r)) /\ job.arg \in Values(Size(r))
         /\ job.handler.x \in Values(Size(r))
         /\ job.k # "thenable" => job.cap = NoPair \/ HasPair(r, job.cap)
<1>1. job.handler \in Functions(Size(r)) /\ job.arg \in Values(Size(r))
      /\ (job.k # "thenable" => job.cap \in 0..Len(r.pairs))
  BY Sizes DEF JobsOf
<1>2. job.handler.x \in Values(Size(r))
  BY <1>1 DEF Functions
<1>3. job.cap \in 0..Len(r.pairs) => job.cap = NoPair \/ HasPair(r, job.cap)
  BY Sizes DEF NoPair, HasPair
<1> QED BY <1>1, <1>2, <1>3

(* A job whose whole effect is one step.                                   *)
LEMMA JobRun ==
  ASSUME Inv, NEW kind, Taking(kind), stack' = After, held' = held, known' = known,
         Good(rt', Busy(After)), Grown(rt, rt')
  PROVE  Stepped
<1>1. /\ OK(rt, held, known, stack) /\ Good(rt, Busy(stack))
      /\ Stacked(Size(rt), After) /\ Busy(After) \subseteq Busy(stack)
  BY JobTaken
<1>2. Held(held, rt) /\ Knows(known, rt) /\ Good(rt, Busy(After))
  BY <1>1, LessBusy DEF OK
<1> HIDE DEF After
<1>3. OK(rt', held, known, After)
  BY <1>1, <1>2, Stands
<1> QED BY <1>3 DEF Stepped, Inv

LEMMA RunReactionStep ==
  ASSUME Inv, RunReaction
  PROVE  Stepped
<1> DEFINE job == TheJob
           h == job.handler
           a == resumed(rt)
           b == call(a, h, job.arg)
           c == exited(b)
<1>1. Taking("reaction") /\ stack' = After /\ held' = held /\ known' = known
  BY DEF RunReaction, After, OnTop, To, below
<1>2. /\ Good(rt, Busy(stack)) /\ Busy(After) \subseteq Busy(stack)
      /\ job \in JobsOf(Size(rt)) /\ job.k = "reaction"
  BY <1>1, JobTaken
<1>3. \/ rt' = settle(rt, job.cap, job.typ = "fulfill", job.arg)
      \/ rt' = settle(c, job.cap, h.f # "thrower", h.x)
  BY DEF RunReaction, TheJob
<1> HIDE DEF job
<1>4. Good(rt, Busy(After)) /\ Typed(rt)
  BY <1>2, LessBusy DEF Good
<1>5. /\ h \in Functions(Size(rt)) /\ job.arg \in Values(Size(rt)) /\ h.x \in Values(Size(rt))
      /\ job.cap = NoPair \/ HasPair(rt, job.cap)
  BY <1>2, <1>4, JobParts
<1> HIDE DEF h
<1>6. CASE rt' = settle(rt, job.cap, job.typ = "fulfill", job.arg)
  <2> DEFINE ok == job.typ = "fulfill"
  <2>1. ok \in BOOLEAN /\ rt' = settle(rt, job.cap, ok, job.arg)
    BY <1>6
  <2> HIDE DEF ok
  <2>2. Good(rt', Busy(After)) /\ Grown(rt, rt')
    BY <1>4, <1>5, <2>1, SettledBy
  <2> QED BY <1>1, <2>2, JobRun
<1>7. CASE rt' = settle(c, job.cap, h.f # "thrower", h.x)
  <2>1. Good(a, Busy(After)) /\ Grown(rt, a) /\ Size(a) = Size(rt)
    BY <1>4, Counting
  <2>2. h \in Functions(Size(a)) /\ job.arg \in Values(Size(a))
    BY <1>5, <2>1
  <2> HIDE DEF a
  <2>3. Good(b, Busy(After)) /\ Grown(a, b) /\ Size(b) = Size(a)
    BY <2>1, <2>2, Called
  <2> HIDE DEF b
  <2>4. Good(c, Busy(After)) /\ Grown(b, c) /\ Size(c) = Size(b)
    BY <2>3, Counting
  <2> HIDE DEF c
  <2>5. Grown(rt, c) /\ Size(c) = Size(rt)
    <3>1. Grown(rt, b)
      BY <2>1, <2>3, GrownOn
    <3>2. Grown(rt, c)
      BY <2>4, <3>1, GrownOn
    <3> QED BY <2>1, <2>3, <2>4, <3>2
  <2>6. h.x \in Values(Size(c)) /\ (job.cap = NoPair \/ HasPair(c, job.cap)) /\ (h.f # "thrower") \in BOOLEAN
    BY <1>5, <2>5, StillThere
  <2>7. Good(rt', Busy(After)) /\ Grown(c, rt')
    BY <1>7, <2>4, <2>6, SettledBy, Zenon
  <2>8. Grown(rt, rt')
    BY <2>5, <2>7, GrownOn
  <2> QED BY <1>1, <2>7, <2>8, JobRun
<1> QED BY <1>3, <1>6, <1>7

(* A job that calls user code leaves its frame above what is left of the   *)
(* batch.                                                                  *)
LEMMA TwoFrames ==
  ASSUME NEW n, NEW st, Stacked(n, st), st # <<>>, NEW g, NEW f, f \in Frames(n), g \in Frames(n)
  PROVE  To(st, Len(st) - 1) \o <<g, f>> = Append(OnTop(st, g), f)
<1> DEFINE w == To(st, Len(st) - 1)
<1>1. w \in Seq(Frames(n))
  BY Popped DEF Stacked
<1> HIDE DEF w
<1>2. Append(w, g) \in Seq(Frames(n)) /\ Append(w, g) = w \o <<g>> /\ <<g>> \in Seq(Frames(n)) /\ <<f>> \in Seq(Frames(n))
  BY <1>1, AppendProperties, AppendIsConcat
<1>3. Append(Append(w, g), f) = Append(w, g) \o <<f>>
  BY <1>2, AppendIsConcat
<1>4. (w \o <<g>>) \o <<f>> = w \o (<<g>> \o <<f>>)
  BY <1>1, <1>2, ConcatAssociative
<1>5. <<g>> \o <<f>> = <<g, f>>
  <2>1. /\ <<g>> \o <<f>> \in Seq(Frames(n)) /\ Len(<<g>> \o <<f>>) = Len(<<g, f>>)
        /\ \A i \in 1..2 : (<<g>> \o <<f>>)[i] = IF i <= Len(<<g>>) THEN <<g>>[i] ELSE <<f>>[i - Len(<<g>>)]
    BY <1>2, ConcatProperties
  <2>2. (<<g>> \o <<f>>)[1] = g /\ (<<g>> \o <<f>>)[2] = f
    BY <2>1
  <2>3. <<g, f>> \in Seq(Frames(n)) /\ Len(<<g, f>>) = 2
    OBVIOUS
  <2>4. \A i \in 1..Len(<<g, f>>) : (<<g>> \o <<f>>)[i] = <<g, f>>[i]
    BY <2>2, <2>3
  <2> QED BY <2>1, <2>3, <2>4, SeqEqual, Zenon
<1>6. w \o <<g, f>> = Append(Append(w, g), f)
  BY <1>2, <1>3, <1>4, <1>5
<1> QED BY <1>6 DEF OnTop, w

LEMMA HandlerBegun ==
  ASSUME Inv, NEW kind, Taking(kind), NEW f, f \in Frames(Size(rt')), f.batch = <<>>,
         stack' = Append(After, f), Held(held', rt'), known' = known,
         Good(rt', Busy(After)), Grown(rt, rt')
  PROVE  Stepped
<1>1. /\ OK(rt, held, known, stack) /\ Good(rt, Busy(stack)) /\ After # <<>>
      /\ Stacked(Size(rt), After) /\ Busy(After) \subseteq Busy(stack)
  BY JobTaken
<1>2. Knows(known, rt) /\ Good(rt, {})
  BY <1>1, LessBusy DEF OK
<1> HIDE DEF After
<1>3. Stacked(Size(rt'), After) /\ Knows(known, rt')
  BY <1>1, <1>2, Kept
<1>4. Stacked(Size(rt'), stack') /\ Busy(stack') = Busy(After)
  BY <1>1, <1>3, Pushed, Zenon
<1>5. OK(rt', held', known, stack')
  BY <1>3, <1>4 DEF OK
<1> QED BY <1>5 DEF Stepped, Inv

LEMMA StackOfTwo ==
  ASSUME Inv, NEW kind, Taking(kind), Grown(rt, rt'), NEW f, f \in Frames(Size(rt')),
         stack' = below \o <<rest, f>>
  PROVE  stack' = Append(After, f)
<1>1. /\ Stacked(Size(rt), stack) /\ stack # <<>> /\ rest \in Frames(Size(rt)) /\ Good(rt, {})
  BY JobTaken, LessBusy
<1> HIDE DEF rest, below
<1>2. Stacked(Size(rt'), stack) /\ rest \in Frames(Size(rt'))
  BY <1>1, Kept, StillTyped
<1>3. To(stack, Len(stack) - 1) \o <<rest, f>> = Append(OnTop(stack, rest), f)
  BY <1>1, <1>2, TwoFrames
<1>4. below = To(stack, Len(stack) - 1)
  BY DEF below, To
<1> QED BY <1>3, <1>4, Zenon DEF After

LEMMA BeginHandlerStep ==
  ASSUME Inv, BeginHandler
  PROVE  Stepped
<1> DEFINE job == TheJob
           js == job.handler.f # "go"
           f == Frame("handler", js, FALSE, <<>>, job, 0)
<1>1. /\ Taking("reaction") /\ stack' = below \o <<rest, f>> /\ held' = held /\ known' = known
      /\ rt' = resumed(rt)
  BY DEF BeginHandler, TheJob
<1>2. /\ Good(rt, Busy(stack)) /\ Busy(After) \subseteq Busy(stack) /\ OK(rt, held, known, stack)
      /\ job \in JobsOf(Size(rt)) /\ job.k = "reaction"
  BY <1>1, JobTaken
<1> HIDE DEF job
<1>3. Good(rt, Busy(After))
  BY <1>2, LessBusy
<1>4. Good(rt', Busy(After)) /\ Grown(rt, rt') /\ Size(rt') = Size(rt)
  BY <1>1, <1>3, Counting
<1>5. f \in Frames(Size(rt')) /\ f.batch = <<>>
  <2>1. AtMost(Size(rt'), Size(rt')) /\ job \in JobsOf(Size(rt')) /\ js \in BOOLEAN
    BY <1>2, <1>4, Sizes DEF Good
  <2> HIDE DEF f, js
  <2>2. f = Frame("handler", js, FALSE, <<>>, job, 0)
    BY DEF f
  <2> QED BY <1>2, <2>1, <2>2, HandlerFrame, Zenon
<1> HIDE DEF f
<1>6. stack' = Append(After, f)
  BY <1>1, <1>4, <1>5, StackOfTwo, Zenon
<1>7. Held(held', rt')
  <2>1. Held(held, rt) /\ Good(rt, {})
    BY <1>2, LessBusy DEF OK
  <2>2. Held(held, rt')
    BY <1>4, <2>1, Kept
  <2> QED BY <1>1, <2>2
<1> QED BY <1>1, <1>4, <1>5, <1>6, <1>7, HandlerBegun, Zenon

LEMMA RunThenableStep ==
  ASSUME Inv, RunThenable
  PROVE  Stepped
<1> DEFINE job == TheJob
           r == newPair(rt, job.cap)
           k == Len(r.pairs)
           f == Frame("handler", TRUE, FALSE, <<>>, job, k)
<1>1. /\ Taking("thenable") /\ known' = known
      /\ \/ /\ job.arg.t = "promise" /\ stack' = After
            /\ rt' = then(r, job.arg.n, ResolveFn(k), RejectFn(k)) /\ held' = held
         \/ /\ rt' = r /\ held' = held \cup {ResolveFn(k), RejectFn(k)}
            /\ stack' = below \o <<rest, f>>
  BY Zenon DEF RunThenable, TheJob, After, OnTop, To, below
<1>2. /\ Good(rt, Busy(stack)) /\ Busy(After) \subseteq Busy(stack) /\ OK(rt, held, known, stack)
      /\ job \in JobsOf(Size(rt)) /\ job.k = "thenable"
      /\ job.cap \in Busy(stack) /\ job.cap \notin Busy(After)
  BY <1>1, JobTaken
<1> HIDE DEF job
<1>3. Good(rt, Busy(After)) /\ Ready(rt, Busy(After), job.cap)
  BY <1>2, Unbusied
<1>4. Good(r, Busy(After)) /\ Grown(rt, r) /\ Len(r.pairs) = Len(rt.pairs) + 1
  BY <1>3, NewPair
<1>5. HasPair(r, k) /\ Typed(r)
  BY <1>3, <1>4, Sizes DEF HasPair, Good
<1> HIDE DEF r
<1>6. ResolveFn(k) \in Functions(Size(r)) /\ RejectFn(k) \in Functions(Size(r))
  BY <1>5, PairFunctions
<1>7. CASE /\ job.arg.t = "promise" /\ stack' = After
           /\ rt' = then(r, job.arg.n, ResolveFn(k), RejectFn(k)) /\ held' = held
  <2>1. Has(r, job.arg.n)
    <3>1. job.arg \in Values(Size(rt))
      BY <1>2, JobParts DEF Good
    <3>2. Has(rt, job.arg.n)
      BY <1>2, <1>7, <3>1, Sizes DEF Values, Has, Good
    <3> QED BY <1>4, <3>2, StillThere
  <2>2. rt' = then(r, job.arg.n, ResolveFn(k), RejectFn(k))
    BY <1>7
  <2> HIDE DEF k
  <2>3. Good(rt', Busy(After)) /\ Grown(r, rt')
    BY <1>4, <1>6, <2>1, <2>2, Thened
  <2>4. Grown(rt, rt')
    BY <1>4, <2>3, GrownOn
  <2> QED BY <1>1, <1>7, <2>3, <2>4, JobRun
<1>8. CASE /\ rt' = r /\ held' = held \cup {ResolveFn(k), RejectFn(k)}
           /\ stack' = below \o <<rest, f>>
  <2>0. rt' = r /\ held' = held \cup {ResolveFn(k), RejectFn(k)} /\ stack' = below \o <<rest, f>>
    BY <1>8
  <2>1. Good(rt', Busy(After)) /\ Grown(rt, rt')
    BY <1>4, <2>0
  <2>2. f \in Frames(Size(rt')) /\ f.batch = <<>>
    <3>1. AtMost(Size(rt'), Size(rt')) /\ job \in JobsOf(Size(rt')) /\ k \in Nat /\ k \in 1..Size(rt').k
      BY <1>2, <1>5, <2>0, <2>1, Sizes, StillTyped DEF Good, HasPair
    <3> HIDE DEF f, k
    <3>2. f = Frame("handler", TRUE, FALSE, <<>>, job, k)
      BY DEF f
    <3> QED BY <3>1, <3>2, HandlerFrame, Zenon
  <2> HIDE DEF f
  <2>3. stack' = Append(After, f)
    BY <1>1, <2>0, <2>1, <2>2, StackOfTwo, Zenon
  <2>4. Held(held', rt')
    <3>1. Held(held, rt) /\ Good(rt, {})
      BY <1>2, LessBusy DEF OK
    <3>2. Held(held, rt')
      BY <2>1, <3>1, Kept
    <3> QED BY <1>6, <2>0, <3>2 DEF Held
  <2> QED BY <1>1, <2>1, <2>2, <2>3, <2>4, HandlerBegun
<1> QED BY <1>1, <1>7, <1>8, Zenon

(* Control leaves the frame on top.                                        *)
LEMMA FrameLeft ==
  ASSUME Inv, stack # <<>>, stack' = below, held' = held, known' = known,
         Good(rt', Busy(stack)), Grown(rt, rt')
  PROVE  Stepped
<1>1. /\ Good(rt, Busy(stack)) /\ Stacked(Size(rt), stack) /\ Held(held, rt) /\ Knows(known, rt)
      /\ stack' = To(stack, Len(stack) - 1)
  BY DEF Inv, OK, below, To
<1>2. Stacked(Size(rt), stack') /\ Busy(stack') \subseteq Busy(stack)
  BY <1>1, Popped
<1>3. OK(rt', held, known, stack')
  BY <1>1, <1>2, Stands
<1> QED BY <1>3 DEF Stepped, Inv

LEMMA Handling ==
  ASSUME Inv, On("handler")
  PROVE  /\ Good(rt, Busy(stack)) /\ stack # <<>> /\ Top.job \in JobsOf(Size(rt))
         /\ Top.job.k = "thenable" => HasPair(rt, Top.n)
<1>1. OK(rt, held, known, stack) /\ Good(rt, Busy(stack)) /\ Typed(rt) /\ stack # <<>>
  BY DEF Inv, OK, On, Good
<1>2. Top \in Frames(Size(rt)) /\ Top.k = "handler"
  BY <1>1, OnTyped DEF Top, Peek, On
<1>3. Top.job.k = "thenable" => HasPair(rt, Top.n)
  BY <1>1, <1>2, Sizes DEF Frames, HasPair
<1>4. Top.job \in JobsOf(Size(rt))
  BY <1>2 DEF Frames
<1> QED BY <1>1, <1>3, <1>4

(* A handler that ends settles the promise of its job.                     *)
LEMMA HandlerSettles ==
  ASSUME NEW r, NEW busy, Good(r, busy), NEW job, job.cap = NoPair \/ HasPair(r, job.cap),
         NEW s, Good(s, busy), Grown(r, s), NEW ok \in BOOLEAN, NEW y, y \in Values(Size(s)),
         NEW u, u = settle(exited(s), job.cap, ok, y)
  PROVE  Good(u, busy) /\ Grown(r, u)
<1> DEFINE e == exited(s)
<1>1. Good(e, busy) /\ Grown(s, e) /\ Size(e) = Size(s)
  BY Counting
<1>2. u = settle(e, job.cap, ok, y) /\ y \in Values(Size(e))
  BY <1>1
<1> HIDE DEF e
<1>3. Grown(r, e)
  BY <1>1, GrownOn
<1>4. job.cap = NoPair \/ HasPair(e, job.cap)
  BY <1>3, StillThere
<1>5. Good(u, busy) /\ Grown(e, u)
  BY <1>1, <1>2, <1>4, SettledBy
<1> QED BY <1>3, <1>5, GrownOn

LEMMA HandlerReturnsStep ==
  ASSUME Inv, NEW x \in Args, HandlerReturns(x)
  PROVE  Stepped
<1> DEFINE job == Top.job
           fin == finallyResult(rt, job, x)
<1>1. On("handler") /\ stack' = below /\ held' = held /\ known' = known
  BY DEF HandlerReturns
<1>2. \/ job.k = "thenable" /\ rt' = rt
      \/ job.k # "thenable" /\ rt' = settle(exited(fin.r), job.cap, TRUE, fin.x)
      \/ job.k # "thenable" /\ rt' = settle(exited(rt), job.cap, TRUE, x)
  BY Zenon DEF HandlerReturns
<1>3. Good(rt, Busy(stack)) /\ stack # <<>> /\ job \in JobsOf(Size(rt)) /\ Typed(rt)
  BY <1>1, Handling DEF Good
<1>4. x \in Values(Size(rt))
  BY ArgsTyped
<1> HIDE DEF job
<1>5. job.arg \in Values(Size(rt)) /\ (job.k # "thenable" => job.cap = NoPair \/ HasPair(rt, job.cap))
  BY <1>3, JobParts
<1>6. Good(fin.r, Busy(stack)) /\ Grown(rt, fin.r) /\ fin.x \in Values(Size(fin.r))
  BY <1>3, <1>4, <1>5, FinallyDone
<1> HIDE DEF fin
<1>7. Good(rt', Busy(stack)) /\ Grown(rt, rt')
  <2>1. CASE job.k = "thenable" /\ rt' = rt
    BY <1>3, <2>1, GrownSelf
  <2>2. CASE job.k # "thenable" /\ rt' = settle(exited(fin.r), job.cap, TRUE, fin.x)
    BY <1>3, <1>5, <1>6, <2>2, HandlerSettles, Zenon
  <2>3. CASE job.k # "thenable" /\ rt' = settle(exited(rt), job.cap, TRUE, x)
    <3>1. Grown(rt, rt)
      BY <1>3, GrownSelf
    <3> QED BY <1>3, <1>4, <1>5, <2>3, <3>1, HandlerSettles, Zenon
  <2> QED BY <1>2, <2>1, <2>2, <2>3, Zenon
<1> QED BY <1>1, <1>3, <1>7, FrameLeft

LEMMA HandlerThrowsStep ==
  ASSUME Inv, NEW x \in Plain, HandlerThrows(x)
  PROVE  Stepped
<1> DEFINE job == Top.job
           finals == Threw(rt.finals, job.handler.a, x)
           s == [rt EXCEPT !.finals = finals]
           m == Top.n
<1>1. On("handler") /\ stack' = below /\ held' = held /\ known' = known
  BY DEF HandlerThrows
<1>3. /\ Good(rt, Busy(stack)) /\ stack # <<>> /\ job \in JobsOf(Size(rt)) /\ Typed(rt)
      /\ job.k = "thenable" => HasPair(rt, m)
  BY <1>1, Handling DEF Good
<1>2. \/ job.k = "thenable" /\ rt' = rejectBy(rt, m, x)
      \/ job.k # "thenable" /\ rt' = settle(exited(s), job.cap, FALSE, x)
      \/ job.k # "thenable" /\ rt' = settle(exited(rt), job.cap, FALSE, x)
  <2>1. s = [rt EXCEPT !.finals[job.handler.a].via = x, !.finals[job.handler.a].threw = TRUE]
    <3>1. Shape(rt)
      BY <1>3 DEF Typed
    <3> HIDE DEF job
    <3> QED BY <3>1, Zenon DEF Threw, Shape
  <2> HIDE DEF s
  <2> QED BY <2>1, Zenon DEF HandlerThrows
<1>4. x \in Values(Size(rt))
  BY ArgsTyped
<1> HIDE DEF job, m
<1>5. job.k # "thenable" => job.cap = NoPair \/ HasPair(rt, job.cap)
  BY <1>3, JobParts
<1>6. finals \in Seq(Finals)
  BY <1>3, <1>4, NotesTyped, Zenon DEF Typed
<1> HIDE DEF finals
<1>7. Only(rt, s, {"finals"}) /\ s.finals = finals
  <2>1. Shape(rt)
    BY <1>3 DEF Typed
  <2> QED BY <2>1, Set_finals
<1> HIDE DEF s
<1>8. Good(s, Busy(stack)) /\ Grown(rt, s) /\ Size(s) = Size(rt)
  BY <1>3, <1>6, <1>7, FinalsChanged
<1>9. Good(rt', Busy(stack)) /\ Grown(rt, rt')
  <2>1. CASE job.k = "thenable" /\ rt' = rejectBy(rt, m, x)
    BY <1>3, <1>4, <2>1, RejectedBy
  <2>2. CASE job.k # "thenable" /\ rt' = settle(exited(s), job.cap, FALSE, x)
    <3>1. x \in Values(Size(s))
      BY <1>4, <1>8
    <3> QED BY <1>3, <1>5, <1>8, <2>2, <3>1, HandlerSettles, Zenon
  <2>3. CASE job.k # "thenable" /\ rt' = settle(exited(rt), job.cap, FALSE, x)
    <3>1. Grown(rt, rt)
      BY <1>3, GrownSelf
    <3> QED BY <1>3, <1>4, <1>5, <2>3, <3>1, HandlerSettles, Zenon
  <2> QED BY <1>2, <2>1, <2>2, <2>3, Zenon
<1> QED BY <1>1, <1>3, <1>9, FrameLeft

LEMMA NextBatchStep ==
  ASSUME Inv, NextBatch
  PROVE  Emptied
<1> DEFINE g == [Top EXCEPT !.batch = rt.jobQueue]
           u == OnTop(stack, g)
<1>1. /\ stack # <<>> /\ Batch(stack) = <<>> /\ stack' = u /\ held' = held /\ known' = known
      /\ BatchOf(g, stack, rt.jobQueue) /\ NoQueue(rt', rt)
  BY DEF NextBatch, On, Batch, Peek, Top, OnTop, To, below, BatchOf, NoQueue
<1>2. Good(rt, Busy(stack)) /\ Stacked(Size(rt), stack) /\ OK(rt, held, known, stack)
  BY DEF Inv, OK
<1> HIDE DEF g
<1>3. /\ Stacked(Size(rt), u)
      /\ \A p : p \in Busy(u) <=> p \in Busy(stack) \/ (p \in Nat /\ \E i : Adopts(rt.jobQueue, i, p))
  BY <1>1, <1>2, QueueTaken
<1> HIDE DEF u
<1>4. Busy(u) \subseteq Nat
  BY DEF Busy
<1>5. Good(rt', Busy(u)) /\ Keeps(rt, rt') /\ Size(rt') = Size(rt)
  BY <1>1, <1>2, <1>3, <1>4, QueueEmptied, Zenon
<1>6. Held(held, rt') /\ Knows(known, rt') /\ Stacked(Size(rt'), u)
  <2>1. Good(rt, {}) /\ Held(held, rt) /\ Knows(known, rt)
    BY <1>2, LessBusy DEF OK
  <2> QED BY <1>3, <1>5, <2>1, Stays
<1>7. OK(rt', held, known, u)
  BY <1>5, <1>6 DEF OK
<1> QED BY <1>1, <1>5, <1>7 DEF Emptied, Inv

LEMMA LeftStep ==
  ASSUME Inv, Left
  PROVE  Stepped
<1>1. stack # <<>> /\ stack' = below /\ rt' = rt /\ held' = held /\ known' = known
  BY DEF Left, On
<1>2. Good(rt, Busy(stack)) /\ Grown(rt, rt)
  BY GrownSelf DEF Inv, OK, Good
<1> QED BY <1>1, <1>2, FrameLeft

LEMMA EnterStep ==
  ASSUME Inv, NEW prog \in Entries, Enter(prog)
  PROVE  Stepped
<1> DEFINE f == Frame("run", TRUE, prog, <<>>, NoJob, 0)
<1>1. stack' = Append(stack, f) /\ rt' = rt /\ held' = held /\ known' = known
  BY DEF Enter, push
<1>2. OK(rt, held, known, stack) /\ Good(rt, Busy(stack)) /\ Grown(rt, rt) /\ AtMost(Size(rt), Size(rt))
  BY GrownSelf, Sizes DEF Inv, OK, Good
<1>3. f \in Frames(Size(rt)) /\ f.batch = <<>> /\ f.k = "run"
  <2>1. prog \in BOOLEAN
    BY PromisesAssumption
  <2> HIDE DEF f
  <2>2. f = Frame("run", TRUE, prog, <<>>, NoJob, 0)
    BY DEF f
  <2> QED BY <1>2, <2>1, <2>2, OuterFrame, Zenon
<1> HIDE DEF f
<1>4. OK(rt, held, known, stack')
  BY <1>1, <1>2, <1>3, WithFrame, Zenon
<1> QED BY <1>1, <1>2, <1>4 DEF Stepped, Inv

LEMMA HostCallStep ==
  ASSUME Inv, NEW g \in held, NEW x \in Args, HostCall(g, x)
  PROVE  Stepped
<1> DEFINE f == Frame("leave", FALSE, FALSE, <<>>, NoJob, 0)
<1>1. rt' = call(rt, g, x) /\ stack' = Append(stack, f) /\ held' = held /\ known' = known
  BY DEF HostCall, push
<1>2. /\ OK(rt, held, known, stack) /\ Good(rt, Busy(stack)) /\ x \in Values(Size(rt))
      /\ g \in Functions(Size(rt))
  BY ArgsTyped DEF Inv, OK, Held
<1>3. Good(rt', Busy(stack)) /\ Grown(rt, rt')
  BY <1>1, <1>2, Called
<1>4. OK(rt', held, known, stack)
  BY <1>2, <1>3, Same
<1>5. f \in Frames(Size(rt')) /\ f.batch = <<>> /\ f.k = "leave"
  <2>1. AtMost(Size(rt'), Size(rt'))
    BY <1>3, Sizes DEF Good
  <2> HIDE DEF f
  <2>2. f = Frame("leave", FALSE, FALSE, <<>>, NoJob, 0)
    BY DEF f
  <2> QED BY <2>1, <2>2, OuterFrame, Zenon
<1> HIDE DEF f
<1>6. OK(rt', held, known, stack')
  BY <1>1, <1>4, <1>5, WithFrame, Zenon
<1> QED BY <1>1, <1>3, <1>6 DEF Stepped, Inv

LEMMA ReturnStep ==
  ASSUME Inv, Return
  PROVE  Stepped
<1> DEFINE prog == Top.prog
           f == Frame("leave", FALSE, prog, <<>>, NoJob, 0)
           u == To(stack, Len(stack) - 1)
<1>1. stack # <<>> /\ stack' = Append(u, f) /\ rt' = rt /\ held' = held /\ known' = known
  BY DEF Return, On, below, To
<1>2. /\ OK(rt, held, known, stack) /\ Good(rt, Busy(stack)) /\ Grown(rt, rt) /\ AtMost(Size(rt), Size(rt))
      /\ Stacked(Size(rt), stack) /\ Held(held, rt) /\ Knows(known, rt)
  BY GrownSelf, Sizes DEF Inv, OK, Good
<1>3. Stacked(Size(rt), u) /\ Busy(u) \subseteq Busy(stack)
  BY <1>1, <1>2, Popped
<1> HIDE DEF u
<1>4. OK(rt, held, known, u)
  BY <1>2, <1>3, Stands
<1>5. f \in Frames(Size(rt)) /\ f.batch = <<>> /\ f.k = "leave"
  <2>1. prog \in BOOLEAN
    <3>1. Top \in Frames(Size(rt))
      BY <1>1, <1>2, OnTyped DEF Top, Peek
    <3> QED BY <3>1 DEF Frames
  <2> HIDE DEF f, prog
  <2>2. f = Frame("leave", FALSE, prog, <<>>, NoJob, 0)
    BY DEF f
  <2> QED BY <1>2, <2>1, <2>2, OuterFrame, Zenon
<1> HIDE DEF f
<1>6. OK(rt, held, known, stack')
  BY <1>1, <1>4, <1>5, WithFrame, Zenon
<1> QED BY <1>1, <1>2, <1>6 DEF Stepped, Inv

(* Where an interrupt stops.                                               *)
LEMMA Unwound ==
  ASSUME Inv, stack # <<>>
  PROVE  Caught \in 1..Len(stack) /\ Depth(stack, Caught - 1)
<1> DEFINE S == {i \in 1..Len(stack) : stack[i].k \in {"run", "leave"}}
           b == Max(S)
<1>1. Len(stack) \in Nat /\ Len(stack) # 0
  BY LenProperties, EmptySeq DEF Inv, OK, Stacked
<1>2. stack[1].k \in {"run", "leave"}
  BY DEF Inv, OK, Stacked, Bottom
<1>3. S \subseteq 1..Len(stack) /\ S # {}
  <2>1. 1 \in S
    BY <1>1, <1>2
  <2> QED BY <2>1
<1>4. b \in S
  <2> HIDE DEF S
  <2> QED BY <1>1, <1>3, Largest, Zenon
<1> HIDE DEF b
<1>5. b \in 1..Len(stack)
  BY <1>3, <1>4
<1>6. Depth(stack, b - 1)
  BY <1>1, <1>5 DEF Depth
<1> QED BY <1>5, <1>6 DEF b, Caught

LEMMA InterruptStep ==
  ASSUME Inv, Interrupt
  PROVE  Emptied
<1> DEFINE b == Caught
           u == To(stack, b - 1)
           s == [rt EXCEPT !.jobQueue = <<>>]
           lost == rt.lost \cup jobsFrom(Caught)
<1>1. /\ stack # <<>> /\ stack' = u /\ held' = held /\ known' = known
      /\ rt' = [rt EXCEPT !.jobQueue = <<>>, !.lost = @ \cup jobsFrom(Caught)]
  BY DEF Interrupt, To
<1>2. /\ Good(rt, Busy(stack)) /\ Stacked(Size(rt), stack) /\ Held(held, rt) /\ Knows(known, rt)
  BY DEF Inv, OK
<1>3. Depth(stack, b - 1)
  BY <1>1, Unwound
<1> HIDE DEF b
<1>4. Stacked(Size(rt), u) /\ Busy(u) \subseteq Busy(stack)
  BY <1>2, <1>3, Cut
<1> HIDE DEF u
<1>5. Shape(rt) /\ NoQueue(s, rt)
  BY <1>2 DEF Good, Typed, NoQueue
<1>6. rt' = [s EXCEPT !.lost = lost]
  BY <1>1, <1>5 DEF Shape
<1> HIDE DEF lost
<1> HIDE DEF s
<1>7. Good(s, Busy(stack)) /\ Keeps(rt, s) /\ Size(s) = Size(rt)
  BY <1>2, <1>5, QueueDropped
<1>8. Only(s, rt', Counters)
  <2>1. Shape(s)
    BY <1>7 DEF Good, Typed
  <2>2. Only(s, rt', {"lost"})
    BY <1>6, <2>1, Set_lost, Zenon
  <2> QED BY <2>2 DEF Only, Counters
<1>9. Good(rt', Busy(stack)) /\ Grown(s, rt')
  BY <1>7, <1>8, Quiet
<1>10. Keeps(rt, rt')
  <2>1. Keeps(s, rt')
    BY <1>9 DEF Grown
  <2> QED BY <1>7, <2>1, KeepsOn
<1>11. OK(rt', held, known, u)
  BY <1>2, <1>4, <1>9, <1>10, StandsOn
<1> QED BY <1>1, <1>10, <1>11 DEF Emptied, Inv

-----------------------------------------------------------------------------
(* The theorems.                                                           *)

LEMMA Starts ==
  ASSUME Init
  PROVE  Inv
<1>1. /\ rt.promises = <<>> /\ rt.pairs = <<>> /\ rt.jobQueue = <<>> /\ rt.combs = <<>> /\ rt.finals = <<>>
      /\ held = {} /\ known = {} /\ stack = <<>> /\ Shape(rt)
  BY DEF Init, Shape
<1>2. Typed(rt)
  BY <1>1, EmptySeq DEF Typed
<1>3. Busy(stack) = {}
  BY <1>1 DEF Busy
<1>4. OneEach(rt, {})
  BY <1>1 DEF OneEach
<1>5. Good(rt, Busy(stack))
  <2>1. \A p \in 1..Len(rt.promises) : TrackedWell(rt.promises[p])
    BY <1>1
  <2>2. Busy(stack) \subseteq 1..Len(rt.promises)
    BY <1>3
  <2>3. OneEach(rt, Busy(stack))
    BY <1>3, <1>4
  <2> QED BY <1>2, <2>1, <2>2, <2>3 DEF Good
<1>6. Stacked(Size(rt), stack)
  BY <1>1, EmptySeq DEF Stacked, BatchesApart, Bottom
<1>7. Held(held, rt) /\ Knows(known, rt)
  BY <1>1 DEF Held, Knows
<1> QED BY <1>5, <1>6, <1>7 DEF Inv, OK

(* Every step but those of NextBatch and Interrupt only adds to the queue. *)
LEMMA Steps ==
  ASSUME Inv, [Next]_vars
  PROVE  Stepped \/ (Emptied /\ (NextBatch \/ Interrupt))
<1>1. CASE UNCHANGED vars
  <2>1. Good(rt, Busy(stack))
    BY DEF Inv, OK
  <2>2. Grown(rt, rt)
    BY <2>1, GrownSelf DEF Good
  <2> QED BY <1>1, <2>2 DEF Stepped, Inv, vars
<1>2. CASE Script
  BY <1>2, NewPromiseStep, ThenStep, FinallyStep, StaticResolveStep, StaticRejectStep, CallHeldStep, CombineStep
     DEF Script
<1>3. CASE Iterate
  BY <1>3, IterNextStep, IterThrowsStep, IterWildStep, IterEndStep DEF Iterate
<1>4. CASE Jobs
  BY <1>4, RunReactionStep, BeginHandlerStep, RunThenableStep, HandlerReturnsStep, HandlerThrowsStep,
     NextBatchStep, LeftStep DEF Jobs
<1>5. CASE Embedder
  BY <1>5, EnterStep, HostCallStep, ReturnStep, InterruptStep DEF Embedder
<1> QED BY <1>1, <1>2, <1>3, <1>4, <1>5 DEF Next

LEMMA StepsKeep ==
  ASSUME Inv, [Next]_vars
  PROVE  Inv' /\ Keeps(rt, rt')
BY Steps DEF Stepped, Emptied, Grown

THEOREM PromisesInvariant == Spec => []Inv
<1>1. Init => Inv
  BY Starts
<1>2. Inv /\ [Next]_vars => Inv'
  BY StepsKeep
<1> QED BY <1>1, <1>2, PTL DEF Spec

(* A promise settles once: no sequence of calls of the resolving functions,*)
(* by user code, thenables, jobs or combinators, settles it again, or      *)
(* changes what it was settled with (resolve, rejectBy, fulfill, reject).  *)
THEOREM SettlesOnce == Spec => SettledForever
<1>1. Inv /\ [Next]_vars => (\A p \in Promises : Settled(p) => Outcome(p)' = Outcome(p))
  <2> SUFFICES ASSUME Inv, [Next]_vars, NEW p \in Promises, Settled(p)
               PROVE  Outcome(p)' = Outcome(p)
    OBVIOUS
  <2>1. Keeps(rt, rt')
    BY StepsKeep
  <2>2. rt'.promises[p].state = rt.promises[p].state /\ rt'.promises[p].result = rt.promises[p].result
    BY <2>1 DEF Keeps, Promises, Settled, State
  <2> QED BY <2>2 DEF Outcome, State
<1> QED BY <1>1, PromisesInvariant, PTL DEF Spec, SettledForever

(* The tracker has been told of exactly the rejections nobody has reacted  *)
(* to, and of those that were reacted to later (trackPromiseRejection in   *)
(* reject and addReactions).                                               *)
THEOREM TrackerTold == Spec => []RejectionsTracked
<1>1. Inv => RejectionsTracked
  BY DEF Inv, OK, Good, RejectionsTracked, TrackedWell, Promises
<1> QED BY <1>1, PromisesInvariant, PTL

(* At most one pair of resolving functions can still decide a promise, and *)
(* none a settled one, however many pairs createResolvingFunctions makes   *)
(* for it.                                                                 *)
THEOREM OneDeciderHolds == Spec => []OneDecider
<1>1. Inv => OneDecider
  <2> SUFFICES ASSUME Inv, NEW p \in Promises
               PROVE  Cardinality({k \in 1..Len(rt.pairs) : Owner(k) = p /\ ~rt.pairs[k].alreadyResolved})
                        <= IF Settled(p) THEN 0 ELSE 1
    BY DEF OneDecider
  <2> DEFINE D == {k \in 1..Len(rt.pairs) : Owner(k) = p /\ ~rt.pairs[k].alreadyResolved}
  <2>1. OneEach(rt, Busy(stack))
    BY DEF Inv, OK, Good
  <2>2. \A k \in D : Unused(rt, k) /\ rt.pairs[k].promise = p /\ k \in 1..Len(rt.pairs)
    BY DEF Unused, Owner
  <2>3. CASE Settled(p)
    <3>1. Free(rt, Busy(stack), p)
      BY <2>1, <2>3 DEF OneEach, Settled, State, Promises
    <3>2. D = {}
      BY <2>2, <3>1 DEF Free
    <3>3. Cardinality(D) = 0
      BY <3>2, FS_EmptySet
    <3> QED BY <2>3, <3>3
  <2>4. CASE ~Settled(p)
    <3>1. \A k, m \in D : k = m
      BY <2>1, <2>2 DEF OneEach
    <3> HIDE DEF D
    <3>2. CASE D = {}
      <4>1. Cardinality(D) = 0
        BY <3>2, FS_EmptySet
      <4> QED BY <2>4, <4>1 DEF D
    <3>3. CASE D # {}
      <4>1. PICK k \in D : TRUE
        BY <3>3
      <4>2. D = {k}
        BY <3>1, <4>1
      <4>3. Cardinality(D) = 1
        BY <4>2, FS_Singleton
      <4> QED BY <2>4, <4>3 DEF D
    <3> QED BY <3>2, <3>3
  <2> QED BY <2>3, <2>4
<1> QED BY <1>1, PromisesInvariant, PTL
-----------------------------------------------------------------------------
(* The order of jobs, where Go handlers do not call back and nothing is    *)
(* interrupted: leave() then runs at the bottom of the stack only, and its *)
(* batch, followed by the queue, is what is still to be done.              *)

Outer == {"run", "leave"}
Flat(st) == \A i \in 1..Len(st) : st[i].k \in Outer => i = 1
BottomBatch(st) == IF st # <<>> /\ st[1].k = "leave" THEN st[1].batch ELSE <<>>
BatchesOf(st) == IF \E i \in 1..Len(st) : st[i].k = "leave"
                 THEN st[Max({i \in 1..Len(st) : st[i].k = "leave"})].batch ELSE <<>>

(* Stacks after a push, a pop, the replacement of the top, and both.       *)
LEMMA PushedOn ==
  ASSUME NEW F, NEW st \in Seq(F), NEW f, NEW u, u = Append(st, f)
  PROVE  /\ Len(u) = Len(st) + 1 /\ Len(st) \in Nat /\ u[Len(st) + 1] = f
         /\ \A i \in 1..Len(st) : u[i] = st[i]
         /\ u \in Seq(F \cup {f})
<1>1. st \in Seq(F \cup {f})
  BY SeqMono
<1> QED BY <1>1, Appended, LenProperties

LEMMA TakenOff ==
  ASSUME NEW F, NEW st \in Seq(F), st # <<>>, NEW u, u = To(st, Len(st) - 1)
  PROVE  /\ Len(u) = Len(st) - 1 /\ Len(st) \in Nat /\ Len(st) # 0 /\ u \in Seq(F)
         /\ \A i \in 1..Len(u) : u[i] = st[i]
<1>1. Len(st) \in Nat /\ Len(st) # 0 /\ \A i \in 1..Len(st) : st[i] \in F
  BY LenProperties, EmptySeq, ElementOfSeq
<1>2. \A i \in 1..Len(st) - 1 : st[i] \in F
  BY <1>1
<1>3. /\ u \in Seq(F) /\ Len(u) = (IF 1 <= Len(st) - 1 THEN Len(st) - 1 - 1 + 1 ELSE 0)
      /\ \A i \in 1..Len(st) - 1 - 1 + 1 : u[i] = st[1 + i - 1]
  BY <1>1, <1>2, SubSeqProperties DEF To
<1> QED BY <1>1, <1>3

LEMMA PutOnTop ==
  ASSUME NEW F, NEW st \in Seq(F), st # <<>>, NEW g, NEW u, u = OnTop(st, g)
  PROVE  /\ Len(u) = Len(st) /\ Len(st) \in Nat /\ Len(st) # 0 /\ u # <<>>
         /\ \A i \in 1..Len(st) : u[i] = IF i = Len(st) THEN g ELSE st[i]
<1> DEFINE w == To(st, Len(st) - 1)
<1>1. /\ Len(w) = Len(st) - 1 /\ Len(st) \in Nat /\ Len(st) # 0 /\ w \in Seq(F)
      /\ \A i \in 1..Len(w) : w[i] = st[i]
  BY TakenOff
<1>2. u = Append(w, g)
  BY DEF OnTop
<1> HIDE DEF w
<1>3. /\ Len(u) = Len(w) + 1 /\ u[Len(w) + 1] = g /\ u \in Seq(F \cup {g})
      /\ \A i \in 1..Len(w) : u[i] = w[i]
  BY <1>1, <1>2, PushedOn
<1>4. u # <<>>
  BY <1>1, <1>3, EmptySeq
<1> QED BY <1>1, <1>3, <1>4

TwoOnTop(st, g, f) == To(st, Len(st) - 1) \o <<g, f>>

LEMMA PutTwo ==
  ASSUME NEW F, NEW st \in Seq(F), st # <<>>, NEW g, NEW f,
         NEW u, u = TwoOnTop(st, g, f)
  PROVE  /\ Len(u) = Len(st) + 1 /\ Len(st) \in Nat /\ Len(st) # 0 /\ u[Len(st) + 1] = f /\ u # <<>>
         /\ \A i \in 1..Len(st) : u[i] = IF i = Len(st) THEN g ELSE st[i]
<1> DEFINE w == To(st, Len(st) - 1)
           H == F \cup {g, f}
           v == <<g, f>>
<1>1. /\ Len(w) = Len(st) - 1 /\ Len(st) \in Nat /\ Len(st) # 0 /\ w \in Seq(F)
      /\ \A i \in 1..Len(w) : w[i] = st[i]
  BY TakenOff
<1>2. u = w \o v /\ w \in Seq(H) /\ v \in Seq(H) /\ Len(v) = 2 /\ v[1] = g /\ v[2] = f
  BY <1>1, SeqMono DEF TwoOnTop
<1> HIDE DEF w, H, v
<1>3. /\ Len(u) = Len(w) + Len(v)
      /\ \A i \in 1..Len(w) + Len(v) : u[i] = IF i <= Len(w) THEN w[i] ELSE v[i - Len(w)]
  <2>1. /\ Len(w \o v) = Len(w) + Len(v)
        /\ \A i \in 1..Len(w) + Len(v) : (w \o v)[i] = IF i <= Len(w) THEN w[i] ELSE v[i - Len(w)]
    BY <1>2, ConcatProperties, Zenon
  <2> QED BY <1>2, <2>1
<1>4. u[Len(st)] = g /\ u[Len(st) + 1] = f /\ Len(u) = Len(st) + 1
  BY <1>1, <1>2, <1>3
<1>5. \A i \in 1..Len(st) : i # Len(st) => u[i] = st[i]
  BY <1>1, <1>2, <1>3
<1>6. u # <<>>
  <2>1. w \o v \in Seq(H)
    BY <1>2, ConcatProperties
  <2> QED BY <1>1, <1>2, <1>4, <2>1, EmptySeq
<1> QED BY <1>1, <1>2, <1>3, <1>4, <1>5, <1>6

(* leave()'s frame is the one at the bottom.                               *)
LEMMA Nearest ==
  ASSUME NEW F, NEW st \in Seq(F), Flat(st)
  PROVE  BatchesOf(st) = BottomBatch(st)
<1> DEFINE S == {i \in 1..Len(st) : st[i].k = "leave"}
<1>0. Len(st) \in Nat /\ (st # <<>> <=> Len(st) # 0)
  BY LenProperties, EmptySeq
<1>1. S \subseteq {1}
  BY DEF Flat, Outer
<1>2. CASE 1 \in S
  <2>1. S = {1} /\ S \subseteq 1..Len(st) /\ \E i \in 1..Len(st) : st[i].k = "leave"
    BY <1>1, <1>2
  <2>2. st # <<>> /\ st[1].k = "leave"
    BY <1>0, <1>2
  <2>3. Max(S) = 1
    <3>1. S \subseteq 1..Len(st) /\ S # {}
      BY <2>1
    <3>2. Max(S) \in S
      <4> HIDE DEF S
      <4> QED BY <1>0, <3>1, Largest, Zenon
    <3> QED BY <2>1, <3>2
  <2> HIDE DEF S
  <2> QED BY <2>1, <2>2, <2>3 DEF BatchesOf, BottomBatch, S
<1>3. CASE 1 \notin S
  <2>1. ~\E i \in 1..Len(st) : st[i].k = "leave"
    BY <1>1, <1>3
  <2>2. ~(st # <<>> /\ st[1].k = "leave")
    BY <1>0, <1>3
  <2> QED BY <2>1, <2>2 DEF BatchesOf, BottomBatch
<1> QED BY <1>2, <1>3
LEMMA AtBottom ==
  ASSUME Inv, Flat(stack), stack # <<>>
  PROVE  /\ stack \in Seq(Frames(Size(rt))) /\ Len(stack) \in Nat /\ Len(stack) # 0
         /\ Top = stack[Len(stack)] /\ (Top.k \in Outer <=> Len(stack) = 1)
<1>1. stack \in Seq(Frames(Size(rt))) /\ stack[1].k \in Outer
  BY DEF Inv, OK, Stacked, Bottom, Outer
<1>2. Len(stack) \in Nat /\ Len(stack) # 0
  BY <1>1, LenProperties, EmptySeq
<1>3. Len(stack) \in 1..Len(stack)
  BY <1>2
<1> QED BY <1>1, <1>2, <1>3, Zenon DEF Flat, Top

(* User code entered and left above leave().                               *)
LEMMA InnerPushed ==
  ASSUME NEW F, NEW st \in Seq(F), Flat(st), st # <<>>, NEW f, f.k \notin Outer, NEW u, u = Append(st, f)
  PROVE  Flat(u) /\ BottomBatch(u) = BottomBatch(st)
<1>1. /\ Len(u) = Len(st) + 1 /\ Len(st) \in Nat /\ u[Len(st) + 1] = f /\ u \in Seq(F \cup {f})
      /\ \A i \in 1..Len(st) : u[i] = st[i]
  BY PushedOn
<1>2. Len(st) # 0 /\ u # <<>> /\ u[1] = st[1]
  BY <1>1, EmptySeq
<1>3. Flat(u)
  BY <1>1 DEF Flat
<1> QED BY <1>2, <1>3 DEF BottomBatch

LEMMA InnerLeft ==
  ASSUME NEW F, NEW st \in Seq(F), Flat(st), st # <<>>, Len(st) # 1, NEW u, u = To(st, Len(st) - 1)
  PROVE  Flat(u) /\ BottomBatch(u) = BottomBatch(st)
<1>1. /\ Len(u) = Len(st) - 1 /\ Len(st) \in Nat /\ Len(st) # 0 /\ u \in Seq(F)
      /\ \A i \in 1..Len(u) : u[i] = st[i]
  BY TakenOff
<1>2. u # <<>> /\ u[1] = st[1]
  BY <1>1, EmptySeq
<1>3. Flat(u)
  BY <1>1 DEF Flat
<1> QED BY <1>2, <1>3 DEF BottomBatch

(* What a step makes of the batch.                                         *)
Moved == /\ Flat(stack')
         /\ \/ BottomBatch(stack') = BottomBatch(stack)
            \/ BottomBatch(stack) # <<>> /\ BottomBatch(stack') = Tail(BottomBatch(stack))

LEMMA UserCode ==
  ASSUME Inv, Flat(stack), Running,
         stack' = stack \/ \E n : stack' = Append(stack, Frame("iterate", TRUE, FALSE, <<>>, NoJob, n))
  PROVE  Moved
<1>1. stack # <<>>
  BY DEF Running
<1>2. stack \in Seq(Frames(Size(rt)))
  BY <1>1, AtBottom
<1>3. CASE stack' = stack
  BY <1>3 DEF Moved
<1>4. ASSUME NEW n, stack' = Append(stack, Frame("iterate", TRUE, FALSE, <<>>, NoJob, n)) PROVE Moved
  <2> DEFINE f == Frame("iterate", TRUE, FALSE, <<>>, NoJob, n)
  <2>1. f.k \notin Outer /\ stack' = Append(stack, f)
    BY <1>4 DEF Frame, Outer
  <2> HIDE DEF f
  <2>2. Flat(stack') /\ BottomBatch(stack') = BottomBatch(stack)
    BY <1>1, <1>2, <2>1, InnerPushed, Zenon
  <2> QED BY <2>2 DEF Moved
<1> QED BY <1>3, <1>4, Zenon

LEMMA UserCodeLeft ==
  ASSUME Inv, Flat(stack), On("handler") \/ On("iterate"), stack' = below
  PROVE  Moved
<1>1. stack # <<>> /\ Top.k \notin Outer
  BY DEF On, Outer
<1>2. stack \in Seq(Frames(Size(rt))) /\ Len(stack) # 1
  BY <1>1, AtBottom
<1>3. stack' = To(stack, Len(stack) - 1)
  BY DEF below, To
<1>4. Flat(stack') /\ BottomBatch(stack') = BottomBatch(stack)
  BY <1>1, <1>2, <1>3, InnerLeft
<1> QED BY <1>4 DEF Moved

(* A stack of one frame, with another in its place, or with one on top.    *)
Alone(st) == Len(st) = 1

LEMMA OneReplaced ==
  ASSUME NEW F, NEW st \in Seq(F), Alone(st), NEW g, NEW u, u = OnTop(st, g)
  PROVE  Len(u) = 1 /\ u[1] = g /\ u # <<>> /\ Flat(u)
<1>1. st # <<>>
  BY EmptySeq DEF Alone
<1>2. Len(u) = Len(st) /\ u # <<>> /\ \A i \in 1..Len(st) : u[i] = IF i = Len(st) THEN g ELSE st[i]
  BY <1>1, PutOnTop
<1>3. Len(u) = 1 /\ u[1] = g
  BY <1>2 DEF Alone
<1> QED BY <1>2, <1>3 DEF Flat

LEMMA OneTopped ==
  ASSUME NEW F, NEW st \in Seq(F), Alone(st), NEW g, NEW f, f.k \notin Outer, NEW u, u = TwoOnTop(st, g, f)
  PROVE  u[1] = g /\ u # <<>> /\ Flat(u)
<1>1. st # <<>>
  BY EmptySeq DEF Alone
<1>2. /\ Len(u) = Len(st) + 1 /\ u[Len(st) + 1] = f /\ u # <<>>
      /\ \A i \in 1..Len(st) : u[i] = IF i = Len(st) THEN g ELSE st[i]
  BY <1>1, PutTwo
<1>3. Len(u) = 2 /\ u[1] = g /\ u[2] = f
  BY <1>2 DEF Alone
<1>4. Flat(u)
  <2>1. \A i \in 1..Len(u) : i = 1 \/ i = 2
    BY <1>3
  <2> QED BY <1>3, <2>1 DEF Flat
<1> QED BY <1>2, <1>3, <1>4

(* A job leaves at the head of the batch.                                  *)
Shorter == stack' = After
HandedOver == \E js, job, n : stack' = below \o <<rest, Frame("handler", js, FALSE, <<>>, job, n)>>

LEMMA JobGone ==
  ASSUME Inv, Flat(stack), NEW kind, Taking(kind), Shorter \/ HandedOver
  PROVE  Moved
<1>1. stack # <<>> /\ Top.k \in Outer /\ Top.k = "leave" /\ Top.batch # <<>>
  BY DEF Taking, On, Outer
<1>2. /\ stack \in Seq(Frames(Size(rt))) /\ Len(stack) = 1 /\ Top = stack[1]
  BY <1>1, AtBottom
<1>3. BottomBatch(stack) = Top.batch
  BY <1>1, <1>2 DEF BottomBatch
<1>4. rest.k = "leave" /\ rest.batch = Tail(Top.batch)
  <2>1. Top \in Frames(Size(rt)) /\ rest = [Top EXCEPT !.batch = Tail(Top.batch)]
    BY <1>1, AtBottom, ElementOfSeq DEF rest
  <2> HIDE DEF rest
  <2> QED BY <1>1, <2>1 DEF Frames
<1> HIDE DEF rest
<1>5. CASE Shorter
  <2>1. stack' = OnTop(stack, rest)
    BY <1>5 DEF After, Shorter
  <2>2. Len(stack') = 1 /\ stack'[1] = rest /\ stack' # <<>> /\ Flat(stack')
    BY <1>2, <2>1, OneReplaced DEF Alone
  <2>3. BottomBatch(stack') = rest.batch
    BY <1>4, <2>2 DEF BottomBatch
  <2> QED BY <1>1, <1>3, <1>4, <2>2, <2>3 DEF Moved
<1>6. ASSUME NEW js, NEW job, NEW n, stack' = below \o <<rest, Frame("handler", js, FALSE, <<>>, job, n)>>
      PROVE  Moved
  <2> DEFINE f == Frame("handler", js, FALSE, <<>>, job, n)
  <2>1. f.k \notin Outer /\ stack' = TwoOnTop(stack, rest, f)
    BY <1>6 DEF Frame, Outer, TwoOnTop, below, To
  <2> HIDE DEF f
  <2>2. stack'[1] = rest /\ stack' # <<>> /\ Flat(stack')
    BY <1>2, <2>1, OneTopped DEF Alone
  <2>3. BottomBatch(stack') = rest.batch
    BY <1>4, <2>2 DEF BottomBatch
  <2> QED BY <1>1, <1>3, <1>4, <2>2, <2>3 DEF Moved
<1> QED BY <1>5, <1>6, Zenon DEF HandedOver

(* The embedder enters, and leave() begins, with nothing in the batch.     *)
Entered(f) == stack = <<>> /\ stack' = Append(stack, f)
Ran(f) == On("run") /\ stack' = Append(below, f)

LEMMA OneFrame ==
  ASSUME Inv, Flat(stack), NEW f, f.batch = <<>>, Entered(f) \/ Ran(f)
  PROVE  Moved
<1>1. BottomBatch(stack) = <<>>
  <2>1. CASE Entered(f)
    BY <2>1 DEF BottomBatch, Entered
  <2>2. CASE Ran(f)
    <3>1. stack # <<>> /\ Top.k \in Outer /\ Top.k = "run"
      BY <2>2 DEF On, Outer, Ran
    <3>2. Top = stack[1]
      BY <3>1, AtBottom
    <3> QED BY <3>1, <3>2 DEF BottomBatch
  <2> QED BY <2>1, <2>2
<1>2. Len(stack') = 1 /\ stack'[1] = f /\ stack' # <<>>
  <2>0. Len(<<>>) = 0
    OBVIOUS
  <2>1. CASE Entered(f)
    <3>1. stack \in Seq({f}) /\ Len(stack) = 0 /\ stack' = Append(stack, f)
      BY <2>1, EmptySeq DEF Entered
    <3>2. Len(stack') = Len(stack) + 1 /\ stack'[Len(stack) + 1] = f /\ stack' \in Seq({f} \cup {f})
      BY <3>1, PushedOn
    <3> QED BY <2>0, <3>1, <3>2
  <2>2. CASE Ran(f)
    <3>1. stack # <<>> /\ Top.k \in Outer
      BY <2>2 DEF On, Outer, Ran
    <3>2. stack \in Seq(Frames(Size(rt))) /\ Len(stack) = 1
      BY <3>1, AtBottom
    <3>3. stack' = OnTop(stack, f)
      BY <2>2 DEF OnTop, below, To, Ran
    <3> QED BY <3>2, <3>3, OneReplaced DEF Alone
  <2> QED BY <2>1, <2>2
<1>3. Flat(stack')
  BY <1>2 DEF Flat
<1> QED BY <1>1, <1>2, <1>3 DEF Moved, BottomBatch
LEMMA LeftAll ==
  ASSUME Inv, Flat(stack), Left
  PROVE  Moved
<1>1. stack # <<>> /\ Top.k \in Outer /\ Top.k = "leave" /\ Top.batch = <<>> /\ stack' = To(stack, Len(stack) - 1)
  BY DEF Left, On, Outer, below, To
<1>2. stack \in Seq(Frames(Size(rt))) /\ Len(stack) = 1 /\ Top = stack[1]
  BY <1>1, AtBottom
<1>3. Len(stack') = Len(stack) - 1 /\ stack' \in Seq(Frames(Size(rt)))
  BY <1>1, <1>2, TakenOff
<1>4. stack' = <<>>
  BY <1>2, <1>3, EmptySeq
<1>5. BottomBatch(stack) = <<>> /\ BottomBatch(stack') = <<>>
  BY <1>1, <1>2, <1>4 DEF BottomBatch
<1>6. Flat(stack')
  BY <1>2, <1>3 DEF Flat
<1> QED BY <1>5, <1>6 DEF Moved

(* Every action but NextBatch leaves the batch alone or takes its head.    *)
LEMMA Moves ==
  ASSUME Inv, Flat(stack), ~AllowReentry, ~AllowInterrupt, Next, ~NextBatch
  PROVE  Moved
<1>1. CASE Script
  <2>1. Running /\ (stack' = stack \/ \E n : stack' = Append(stack, Frame("iterate", TRUE, FALSE, <<>>, NoJob, n)))
    BY <1>1, Zenon DEF Script, NewPromise, Then, Finally, StaticResolve, StaticReject, CallHeld, Combine, push
  <2> QED BY <2>1, UserCode, Zenon
<1>2. CASE Iterate
  <2>1. CASE stack' = stack
    BY <2>1 DEF Moved
  <2>2. CASE IterDone
    <3>1. On("iterate") /\ stack' = below
      BY <2>2 DEF IterDone
    <3> QED BY <3>1, UserCodeLeft
  <2> QED BY <1>2, <2>1, <2>2 DEF Iterate, IterNext, IterThrows, IterWild, IterEnd
<1>3. CASE RunReaction
  <2>1. Taking("reaction") /\ Shorter
    BY <1>3 DEF RunReaction, Shorter, After, OnTop, To, below
  <2> QED BY <2>1, JobGone
<1>4. CASE BeginHandler
  <2>1. Taking("reaction") /\ HandedOver
    BY <1>4, Zenon DEF BeginHandler, HandedOver
  <2> QED BY <2>1, JobGone
<1>5. CASE RunThenable
  <2>1. Taking("thenable") /\ (Shorter \/ HandedOver)
    BY <1>5, Zenon DEF RunThenable, Shorter, HandedOver, After, OnTop, To, below
  <2> QED BY <2>1, JobGone
<1>6. CASE \E x : HandlerReturns(x) \/ HandlerThrows(x)
  <2>1. On("handler") /\ stack' = below
    BY <1>6, Zenon DEF HandlerReturns, HandlerThrows
  <2> QED BY <2>1, UserCodeLeft
<1>7. CASE Left
  BY <1>7, LeftAll
<1>8. CASE \E prog, f, x : Enter(prog) \/ HostCall(f, x)
  <2>1. stack = <<>> /\ \E k, js, prog : stack' = Append(stack, Frame(k, js, prog, <<>>, NoJob, 0))
    BY <1>8, Zenon DEF Enter, HostCall, InGo, push
  <2>2. PICK k, js, prog : stack' = Append(stack, Frame(k, js, prog, <<>>, NoJob, 0))
    BY <2>1
  <2>3. Frame(k, js, prog, <<>>, NoJob, 0).batch = <<>>
    BY DEF Frame
  <2>4. Entered(Frame(k, js, prog, <<>>, NoJob, 0))
    BY <2>1, <2>2 DEF Entered
  <2> QED BY <2>3, <2>4, OneFrame
<1>9. CASE Return
  <2> DEFINE f == Frame("leave", FALSE, Top.prog, <<>>, NoJob, 0)
  <2>1. f.batch = <<>> /\ Ran(f)
    BY <1>9 DEF Return, Ran, Frame
  <2> HIDE DEF f
  <2> QED BY <2>1, OneFrame
<1>10. ~Interrupt
  BY DEF Interrupt
<1> QED BY <1>1, <1>2, <1>3, <1>4, <1>5, <1>6, <1>7, <1>8, <1>9, <1>10 DEF Next, Jobs, Embedder

(* leave() takes the whole queue when its batch is empty.                  *)
LEMMA BatchTaken ==
  ASSUME Inv, Flat(stack), NextBatch
  PROVE  /\ Flat(stack') /\ BottomBatch(stack) = <<>> /\ BottomBatch(stack') = rt.jobQueue
         /\ rt'.jobQueue = <<>>
<1> DEFINE g == [Top EXCEPT !.batch = rt.jobQueue]
<1>1. stack # <<>> /\ Top.k \in Outer /\ Top.k = "leave" /\ Top.batch = <<>> /\ stack' = OnTop(stack, g)
  BY DEF NextBatch, On, Outer, OnTop, To, below
<1>2. stack \in Seq(Frames(Size(rt))) /\ Len(stack) = 1 /\ Top = stack[1]
  BY <1>1, AtBottom
<1>3. g.k = "leave" /\ g.batch = rt.jobQueue
  <2>1. Top \in Frames(Size(rt)) /\ g = [Top EXCEPT !.batch = rt.jobQueue]
    BY <1>1, AtBottom, ElementOfSeq
  <2> HIDE DEF g
  <2> QED BY <1>1, <2>1 DEF Frames
<1> HIDE DEF g
<1>4. stack'[1] = g /\ stack' # <<>> /\ Flat(stack')
  BY <1>1, <1>2, OneReplaced DEF Alone
<1>5. rt'.jobQueue = <<>>
  <2>1. Shape(rt) /\ rt' = [rt EXCEPT !.jobQueue = <<>>]
    BY DEF NextBatch, Inv, OK, Good, Typed
  <2> QED BY <2>1, Set_jobQueue
<1> QED BY <1>1, <1>2, <1>3, <1>4, <1>5 DEF BottomBatch
(* A prefix, element by element, and what queueing more makes of it.       *)
LEMMA PrefixOf ==
  ASSUME NEW S, NEW s \in Seq(S), NEW t \in Seq(S), Len(s) <= Len(t), \A i \in 1..Len(s) : t[i] = s[i]
  PROVE  IsPrefix(s, t)
<1> DEFINE a == SubSeq(s, 1, Len(s))
           b == SubSeq(t, 1, Len(s))
<1>1. Len(s) \in Nat /\ Len(t) \in Nat
  BY LenProperties
<1>2. (\A i \in 1..Len(s) : s[i] \in S) /\ \A i \in 1..Len(s) : t[i] \in S
  BY <1>1, ElementOfSeq
<1>3. /\ a \in Seq(S) /\ Len(a) = (IF 1 <= Len(s) THEN Len(s) - 1 + 1 ELSE 0)
      /\ \A i \in 1..Len(s) - 1 + 1 : a[i] = s[1 + i - 1]
  BY <1>1, <1>2, SubSeqProperties
<1>4. /\ b \in Seq(S) /\ Len(b) = (IF 1 <= Len(s) THEN Len(s) - 1 + 1 ELSE 0)
      /\ \A i \in 1..Len(s) - 1 + 1 : b[i] = t[1 + i - 1]
  BY <1>1, <1>2, SubSeqProperties
<1> HIDE DEF a, b
<1>5. Len(a) = Len(b) /\ \A i \in 1..Len(a) : a[i] = b[i]
  BY <1>1, <1>3, <1>4
<1>6. a = b
  BY <1>3, <1>4, <1>5, SeqEqual
<1> QED BY <1>6 DEF IsPrefix, a, b

LEMMA QueuedBehind ==
  ASSUME NEW S, NEW b \in Seq(S), NEW q \in Seq(S), NEW u \in Seq(S), Longer(q, u)
  PROVE  /\ IsPrefix(b \o q, b \o u)
         /\ b # <<>> => b \o q # <<>> /\ IsPrefix(Tail(b \o q), Tail(b) \o u)
<1> DEFINE s == b \o q
           t == b \o u
<1>1. /\ s \in Seq(S) /\ Len(s) = Len(b) + Len(q)
      /\ \A i \in 1..Len(b) + Len(q) : s[i] = IF i <= Len(b) THEN b[i] ELSE q[i - Len(b)]
  BY ConcatProperties
<1>2. /\ t \in Seq(S) /\ Len(t) = Len(b) + Len(u)
      /\ \A i \in 1..Len(b) + Len(u) : t[i] = IF i <= Len(b) THEN b[i] ELSE u[i - Len(b)]
  BY ConcatProperties
<1>3. /\ Len(b) \in Nat /\ Len(q) \in Nat /\ Len(u) \in Nat /\ Len(q) <= Len(u)
      /\ \A i \in 1..Len(q) : u[i] = q[i]
  BY LenProperties DEF Longer
<1> HIDE DEF s, t
<1>4. IsPrefix(s, t)
  <2>1. Len(s) <= Len(t)
    BY <1>1, <1>2, <1>3
  <2>2. ASSUME NEW i \in 1..Len(s) PROVE t[i] = s[i]
    <3>1. i \in 1..Len(b) + Len(q) /\ i \in 1..Len(b) + Len(u)
      BY <1>1, <1>3
    <3>2. CASE i <= Len(b)
      BY <1>1, <1>2, <3>1, <3>2, Zenon
    <3>3. CASE ~(i <= Len(b))
      <4>1. i - Len(b) \in 1..Len(q)
        BY <1>3, <3>1, <3>3
      <4>2. s[i] = q[i - Len(b)] /\ t[i] = u[i - Len(b)]
        BY <1>1, <1>2, <3>1, <3>3
      <4> QED BY <1>3, <4>1, <4>2
    <3> QED BY <3>2, <3>3
  <2> QED BY <1>1, <1>2, <2>1, <2>2, PrefixOf, Zenon
<1>5. ASSUME b # <<>> PROVE s # <<>> /\ IsPrefix(Tail(s), Tail(b) \o u)
  <2> DEFINE c == Tail(b)
             d == Tail(s)
             e == c \o u
  <2>1. Len(b) # 0 /\ c \in Seq(S) /\ Len(c) = Len(b) - 1 /\ \A i \in 1..Len(c) : c[i] = b[i + 1]
    BY <1>3, <1>5, EmptySeq, HeadTailProperties
  <2>2. s # <<>>
    BY <1>1, <1>3, <2>1, EmptySeq
  <2>3. d \in Seq(S) /\ Len(d) = Len(s) - 1 /\ \A i \in 1..Len(d) : d[i] = s[i + 1]
    BY <1>1, <2>2, HeadTailProperties
  <2>4. /\ e \in Seq(S) /\ Len(e) = Len(c) + Len(u)
        /\ \A i \in 1..Len(c) + Len(u) : e[i] = IF i <= Len(c) THEN c[i] ELSE u[i - Len(c)]
    BY <2>1, ConcatProperties
  <2> HIDE DEF c, d, e
  <2>5. Len(d) <= Len(e)
    BY <1>1, <1>3, <2>1, <2>3, <2>4
  <2>6. ASSUME NEW i \in 1..Len(d) PROVE e[i] = d[i]
    <3>1. d[i] = s[i + 1] /\ i + 1 \in 1..Len(b) + Len(q) /\ i \in 1..Len(c) + Len(u) /\ i \in Nat
      BY <1>1, <1>3, <2>1, <2>3, <2>4, <2>5
    <3>2. CASE i <= Len(c)
      <4>1. e[i] = c[i] /\ c[i] = b[i + 1]
        BY <1>3, <2>1, <2>4, <3>1, <3>2
      <4>2. s[i + 1] = b[i + 1]
        BY <1>1, <1>3, <2>1, <3>1, <3>2
      <4> QED BY <3>1, <4>1, <4>2
    <3>3. CASE ~(i <= Len(c))
      <4> DEFINE m == i - Len(c)
      <4>1. m = i + 1 - Len(b) /\ m \in 1..Len(q)
        BY <1>1, <1>3, <2>1, <3>1, <3>3
      <4>2. e[i] = u[m]
        BY <2>4, <3>1, <3>3
      <4>3. s[i + 1] = q[i + 1 - Len(b)]
        BY <1>1, <1>3, <2>1, <3>1, <3>3
      <4> HIDE DEF m
      <4> QED BY <1>3, <3>1, <4>1, <4>2, <4>3, Zenon
    <3> QED BY <3>2, <3>3
  <2>7. IsPrefix(d, e)
    BY <2>3, <2>4, <2>5, <2>6, PrefixOf, Zenon
  <2> QED BY <2>2, <2>7 DEF c, d, e
<1> QED BY <1>4, <1>5 DEF s, t

(* Jobs run in the order in which they were enqueued, across batches and   *)
(* whatever they enqueue themselves: leave() takes them at the head and    *)
(* enqueuePromiseJob adds at the tail.  The features that would break it   *)
(* are off: a Go handler that calls back starts a leave() of its own, and  *)
(* an interrupt drops the queue.                                           *)
THEOREM OrderKept ==
  ASSUME ~AllowReentry, ~AllowInterrupt
  PROVE  Spec => JobsInOrder
<1> DEFINE FlatStack == Flat(stack)
           InOrder == \/ IsPrefix(Pending, Pending')
                      \/ Pending # <<>> /\ IsPrefix(Tail(Pending), Pending')
<1>1. Init => FlatStack
  BY DEF Init, Flat
<1>2. ASSUME Inv, FlatStack, Next
      PROVE  FlatStack' /\ InOrder
  <2> DEFINE S == JobsOf(Size(rt'))
             b == BottomBatch(stack)
             c == BottomBatch(stack')
             q == rt.jobQueue
             u == rt'.jobQueue
  <2>1. Inv' /\ Keeps(rt, rt')
    BY <1>2, StepsKeep
  <2>2. Flat(stack)
    BY <1>2
  <2>3. q \in Seq(S) /\ u \in Seq(S)
    <3>1. Typed(rt) /\ Typed(rt') /\ AtMost(Size(rt), Size(rt'))
      BY <1>2, <2>1 DEF Inv, OK, Good, Keeps
    <3> QED BY <3>1, TypedMono, Zenon DEF Typed
  <2>4. stack \in Seq(Frames(Size(rt'))) /\ stack' \in Seq(Frames(Size(rt')))
    <3>1. stack \in Seq(Frames(Size(rt))) /\ stack' \in Seq(Frames(Size(rt')))
      BY <1>2, <2>1 DEF Inv, OK, Stacked
    <3> QED BY <2>1, <3>1, KeepsTypes
  <2>5. b \in Seq(S) /\ c \in Seq(S)
    <3>1. ASSUME NEW st \in Seq(Frames(Size(rt'))) PROVE BottomBatch(st) \in Seq(S)
      <4>1. CASE st # <<>>
        <5>1. 1 \in 1..Len(st)
          BY <4>1, LenProperties, EmptySeq
        <5>2. st[1].batch \in Seq(S)
          BY <5>1, ElementOfSeq DEF Frames
        <5> QED BY <5>2, EmptySeq DEF BottomBatch
      <4>2. CASE st = <<>>
        BY <4>2, EmptySeq DEF BottomBatch
      <4> QED BY <4>1, <4>2
    <3> QED BY <2>4, <3>1
  <2> HIDE DEF S
  <2>6. /\ Flat(stack')
        /\ \/ b = <<>> /\ c = q /\ u = <<>>
           \/ Longer(q, u) /\ (c = b \/ (b # <<>> /\ c = Tail(b)))
    <3>1. CASE NextBatch
      BY <1>2, <2>2, <3>1, BatchTaken
    <3>2. CASE ~NextBatch
      <4>1. Moved
        BY <1>2, <2>2, <3>2, Moves
      <4>2. Longer(q, u)
        BY <1>2, <3>2, Steps DEF Stepped, Grown, Interrupt
      <4> QED BY <4>1, <4>2 DEF Moved
    <3> QED BY <3>1, <3>2
  <2>7. Pending = b \o q
    <3>1. batches = BatchesOf(stack)
      BY DEF batches, BatchesOf
    <3> QED BY <2>2, <2>4, <3>1, Nearest, Zenon DEF Pending
  <2>8. Pending' = c \o u
    <3>1. batches' = BatchesOf(stack')
      BY DEF batches, BatchesOf
    <3> QED BY <2>4, <2>6, <3>1, Nearest, Zenon DEF Pending
  <2> HIDE DEF b, c, q, u
  <2>9. CASE b = <<>> /\ c = q /\ u = <<>>
    <3>1. b \o q = q /\ c \o u = q
      BY <2>3, <2>9, ConcatEmptySeq
    <3>2. IsPrefix(q, q)
      <4>1. Len(q) <= Len(q)
        BY <2>3, LenProperties
      <4> QED BY <2>3, <4>1, PrefixOf
    <3> QED BY <2>6, <2>7, <2>8, <3>1, <3>2 DEF Flat
  <2>10. CASE Longer(q, u) /\ (c = b \/ (b # <<>> /\ c = Tail(b)))
    <3>1. /\ IsPrefix(b \o q, b \o u)
          /\ b # <<>> => b \o q # <<>> /\ IsPrefix(Tail(b \o q), Tail(b) \o u)
      BY <2>3, <2>5, <2>10, QueuedBehind
    <3>2. InOrder
      BY <2>7, <2>8, <2>10, <3>1, Zenon
    <3> QED BY <2>6, <3>2 DEF Flat
  <2> QED BY <2>6, <2>9, <2>10
<1>3. FlatStack /\ UNCHANGED vars => FlatStack'
  BY DEF vars
<1>4. FlatStack /\ Inv /\ [Next]_vars => FlatStack'
  BY <1>2, <1>3
<1>5. FlatStack /\ Inv /\ [Next]_vars => [InOrder]_vars
  BY <1>2
<1> QED BY <1>1, <1>4, <1>5, PromisesInvariant, PTL DEF Spec, JobsInOrder

-----------------------------------------------------------------------------
(* The counters of combinators.  Their closures change in four ways only:  *)
(* one is made, counts one more input, counts an element function's first  *)
(* call, or leaves its loop, which happens once: two frames never iterate  *)
(* for one combinator.                                                     *)

CountExact(m) ==
  /\ DOMAIN m = {"op", "cap", "values", "called", "remaining", "inputs", "over"} /\ m.inputs \in Seq(Nat)
  /\ m.op # "race" =>
       /\ IsFiniteSet(m.called)
       /\ m.remaining = Len(m.inputs) - Cardinality(m.called) + (IF m.over THEN 0 ELSE 1)
CountsExact(r) == \A c \in DOMAIN r.combs : CountExact(r.combs[c])

SameCombs(r, s) == DOMAIN s = DOMAIN r /\ s.combs = r.combs
Tallies(r, s) ==
  /\ DOMAIN s = DOMAIN r /\ DOMAIN s.combs = DOMAIN r.combs
  /\ CountsExact(r) => CountsExact(s) /\ \A c \in DOMAIN r.combs : s.combs[c].over = r.combs[c].over

LEMMA TalliesOn ==
  ASSUME NEW r, NEW s, NEW u, Tallies(r, s), Tallies(s, u)
  PROVE  Tallies(r, u)
BY DEF Tallies

LEMMA TalliesSame ==
  ASSUME NEW r, NEW s, SameCombs(r, s)
  PROVE  Tallies(r, s)
BY DEF Tallies, SameCombs, CountsExact

(* What leaves all closures alone.                                         *)
LEMMA PairApart ==
  ASSUME NEW r, "combs" \in DOMAIN r, NEW p
  PROVE  SameCombs(r, newPair(r, p)) /\ SameCombs(r, newPromise(r))
<1> DEFINE u == [r EXCEPT !.promises =
             Append(@, [state |-> "pending", result |-> Undefined,
                        fulfillReactions |-> <<>>, rejectReactions |-> <<>>,
                        handled |-> FALSE, tracked |-> "none"])]
<1>1. \A s, q : "combs" \in DOMAIN s => SameCombs(s, newPair(s, q))
  BY DEF newPair, SameCombs
<1>2. SameCombs(r, u)
  BY DEF SameCombs
<1>3. newPromise(r) = newPair(u, Len(r.promises) + 1)
  BY DEF newPromise
<1> HIDE DEF u
<1>4. SameCombs(u, newPromise(r))
  BY <1>1, <1>2, <1>3 DEF SameCombs
<1> QED BY <1>1, <1>2, <1>4 DEF SameCombs

LEMMA SettlingApart ==
  ASSUME NEW r, "combs" \in DOMAIN r, NEW p, NEW x
  PROVE  SameCombs(r, fulfill(r, p, x)) /\ SameCombs(r, reject(r, p, x))
<1>1. ASSUME NEW s, "combs" \in DOMAIN s, NEW js, NEW typ
      PROVE  SameCombs(s, triggerPromiseReactions(s, js, typ, x))
  BY <1>1 DEF triggerPromiseReactions, SameCombs
<1>2. ASSUME NEW st PROVE SameCombs(r, [r EXCEPT !.promises[p] = settlement(@, st, x)])
  BY DEF SameCombs
<1>3. ASSUME NEW s, "combs" \in DOMAIN s, NEW op PROVE SameCombs(s, trackPromiseRejection(s, p, op))
  BY <1>3 DEF trackPromiseRejection, SameCombs
<1>4. SameCombs(r, fulfill(r, p, x))
  BY <1>1, <1>2 DEF fulfill, SameCombs
<1>5. SameCombs(r, reject(r, p, x))
  BY <1>1, <1>2, <1>3 DEF reject, SameCombs
<1> QED BY <1>4, <1>5

LEMMA ResolvingApart ==
  ASSUME NEW r, "combs" \in DOMAIN r, NEW k, NEW x
  PROVE  SameCombs(r, resolve(r, k, x)) /\ SameCombs(r, rejectBy(r, k, x))
<1> DEFINE u == [r EXCEPT !.pairs[k].alreadyResolved = TRUE]
           p == r.pairs[k].promise
<1>1. SameCombs(r, u) /\ "combs" \in DOMAIN u
  BY DEF SameCombs
<1> HIDE DEF u, p
<1>2. SameCombs(u, resolution(u, p, x))
  <2> DEFINE a == [u EXCEPT !.adopted = @ \cup {<<p, x>>}]
  <2>1. SameCombs(u, a) /\ "combs" \in DOMAIN a
    BY <1>1 DEF SameCombs
  <2> HIDE DEF a
  <2>2. \A job : SameCombs(a, enqueuePromiseJob(a, job))
    BY <2>1 DEF enqueuePromiseJob, SameCombs
  <2>3. \A job : SameCombs(u, enqueuePromiseJob(a, job))
    BY <2>1, <2>2 DEF SameCombs
  <2>4. \/ \E y : resolution(u, p, x) = reject(u, p, y)
        \/ \E job : resolution(u, p, x) = enqueuePromiseJob(a, job)
        \/ resolution(u, p, x) = fulfill(u, p, x)
    BY DEF resolution, a
  <2> QED BY <1>1, <2>3, <2>4, SettlingApart
<1>3. SameCombs(u, reject(u, p, x))
  BY <1>1, SettlingApart
<1>4. resolve(r, k, x) \in {r, resolution(u, p, x)} /\ rejectBy(r, k, x) \in {r, reject(u, p, x)}
  BY DEF resolve, rejectBy, u, p
<1> QED BY <1>1, <1>2, <1>3, <1>4 DEF SameCombs

LEMMA ReactingApart ==
  ASSUME NEW r, "combs" \in DOMAIN r, NEW p, NEW k, NEW f, NEW g
  PROVE  SameCombs(r, addReactions(r, p, k, f, g))
<1> DEFINE u == [r EXCEPT !.grabs = @ + 1]
           q == r.promises[p]
           a == [u EXCEPT !.promises[p].fulfillReactions = Append(@, [cap |-> k, handler |-> f]),
                          !.promises[p].rejectReactions = Append(@, [cap |-> k, handler |-> g])]
           b == enqueuePromiseJob(u, Job("reaction", "fulfill", k, f, q.result))
           t == trackPromiseRejection(u, p, "handle")
           c == enqueuePromiseJob(t, Job("reaction", "reject", k, g, q.result))
           d == CASE q.state = "pending" -> a [] q.state = "fulfilled" -> b [] OTHER -> c
<1>1. SameCombs(r, u) /\ "combs" \in DOMAIN u
  BY DEF SameCombs
<1>2. addReactions(r, p, k, f, g) = [d EXCEPT !.promises[p].handled = TRUE]
  BY DEF addReactions
<1>3. d \in {a, b, c}
  OBVIOUS
<1> HIDE DEF d, q, u
<1>4. SameCombs(u, a) /\ SameCombs(u, b) /\ SameCombs(u, t)
  BY <1>1 DEF SameCombs, enqueuePromiseJob, trackPromiseRejection
<1>5. "combs" \in DOMAIN t
  BY <1>1, <1>4 DEF SameCombs
<1> HIDE DEF t
<1>6. SameCombs(t, c)
  BY <1>5 DEF SameCombs, enqueuePromiseJob
<1> HIDE DEF a, b, c
<1>7. SameCombs(r, d) /\ "combs" \in DOMAIN d
  BY <1>1, <1>3, <1>4, <1>6 DEF SameCombs
<1>8. SameCombs(d, [d EXCEPT !.promises[p].handled = TRUE])
  BY <1>7 DEF SameCombs
<1> QED BY <1>2, <1>7, <1>8 DEF SameCombs

LEMMA ThenApart ==
  ASSUME NEW r, "combs" \in DOMAIN r, NEW p, NEW f, NEW g
  PROVE  SameCombs(r, then(r, p, f, g))
<1> DEFINE c == newPromise(r)
           a == addReactions(c, p, Len(c.pairs), f, g)
<1>1. SameCombs(r, c) /\ "combs" \in DOMAIN c
  BY PairApart DEF SameCombs
<1>2. then(r, p, f, g) = [a EXCEPT !.derived = Append(@, [from |-> p, pair |-> Len(c.pairs)])]
  BY DEF then
<1> HIDE DEF c
<1>3. SameCombs(c, a) /\ "combs" \in DOMAIN a
  BY <1>1, ReactingApart DEF SameCombs
<1> HIDE DEF a
<1> QED BY <1>1, <1>2, <1>3 DEF SameCombs

LEMMA PromiseResolveApart ==
  ASSUME NEW r, "combs" \in DOMAIN r, NEW x
  PROVE  SameCombs(r, promiseResolve(r, x))
<1>1. SameCombs(r, newPromise(r))
  BY PairApart
<1>2. SameCombs(newPromise(r), resolve(newPromise(r), Len(newPromise(r).pairs), x))
  BY <1>1, ResolvingApart DEF SameCombs
<1> QED BY <1>1, <1>2 DEF promiseResolve, SameCombs

LEMMA SettleApart ==
  ASSUME NEW r, "combs" \in DOMAIN r, NEW k, NEW ok, NEW x
  PROVE  SameCombs(r, settle(r, k, ok, x))
BY ResolvingApart DEF settle, SameCombs

LEMMA ContextsApart ==
  ASSUME NEW r, "combs" \in DOMAIN r
  PROVE  SameCombs(r, resumed(r)) /\ SameCombs(r, exited(r))
BY DEF resumed, exited, SameCombs

LEMMA FinishApart ==
  ASSUME NEW r, "combs" \in DOMAIN r, NEW c
  PROVE  SameCombs(r, finish(r, c))
<1>1. \/ \E k, x : finish(r, c) \in {resolve(r, k, x), rejectBy(r, k, x)}
      \/ finish(r, c) = r
  BY DEF finish
<1> QED BY <1>1, ResolvingApart DEF SameCombs

(* An element function counts once.                                        *)
LEMMA ElementTallies ==
  ASSUME NEW r, "combs" \in DOMAIN r, NEW c, NEW i, NEW status, NEW x
  PROVE  Tallies(r, element(r, c, i, status, x))
<1>1. CASE i \in r.combs[c].called
  BY <1>1, TalliesSame DEF element, SameCombs
<1>2. CASE i \notin r.combs[c].called
  <2> DEFINE v == [status |-> status, value |-> x]
             u == [r EXCEPT !.combs[c].values[i] = v,
                            !.combs[c].called = @ \cup {i},
                            !.combs[c].remaining = @ - 1]
             m == r.combs[c]
             e == [[[m EXCEPT !.values[i] = v] EXCEPT !.called = @ \cup {i}] EXCEPT !.remaining = @ - 1]
  <2>1. DOMAIN u = DOMAIN r /\ DOMAIN u.combs = DOMAIN r.combs
        /\ \A d \in DOMAIN r.combs : u.combs[d] = IF d = c THEN e ELSE r.combs[d]
    BY Zenon
  <2>2. ASSUME CountExact(m)
        PROVE  CountExact(e) /\ e.over = m.over
    <3> HIDE DEF v
    <3>1. /\ DOMAIN e = DOMAIN m /\ e.called = m.called \cup {i} /\ e.remaining = m.remaining - 1
          /\ e.op = m.op /\ e.over = m.over /\ e.inputs = m.inputs
      BY <2>2 DEF CountExact
    <3> HIDE DEF e
    <3>2. ASSUME m.op # "race" PROVE IsFiniteSet(m.called \cup {i}) /\
             Cardinality(m.called \cup {i}) = Cardinality(m.called) + 1 /\ Cardinality(m.called) \in Nat
      BY <1>2, <2>2, <3>2, FS_AddElement, FS_CardinalityType, Zenon DEF CountExact
    <3>3. Len(m.inputs) \in Nat
      BY <2>2, LenProperties DEF CountExact
    <3>4. ASSUME m.op # "race"
          PROVE  e.remaining = Len(e.inputs) - Cardinality(e.called) + (IF e.over THEN 0 ELSE 1)
      <4>1. m.remaining = Len(m.inputs) - Cardinality(m.called) + (IF m.over THEN 0 ELSE 1)
        BY <2>2, <3>4 DEF CountExact
      <4> HIDE DEF m
      <4> QED BY <3>1, <3>2, <3>3, <3>4, <4>1
    <3> HIDE DEF m
    <3> QED BY <2>2, <3>1, <3>2, <3>4 DEF CountExact
  <2>3. Tallies(r, u)
    <3> HIDE DEF u, e, m
    <3> QED BY <2>1, <2>2 DEF Tallies, CountsExact, m
  <2>4. element(r, c, i, status, x) = finish(u, c)
    BY <1>2 DEF element
  <2>5. "combs" \in DOMAIN u
    BY <2>1
  <2> HIDE DEF u, e, m
  <2>6. Tallies(u, finish(u, c))
    BY <2>5, FinishApart, TalliesSame
  <2> QED BY <2>3, <2>4, <2>6, TalliesOn
<1> QED BY <1>1, <1>2

LEMMA CallTallies ==
  ASSUME NEW r, "combs" \in DOMAIN r, NEW f, NEW x
  PROVE  Tallies(r, call(r, f, x))
<1>1. \/ call(r, f, x) \in {resolve(r, f.a, x), rejectBy(r, f.a, x), r}
      \/ call(r, f, x) = element(r, f.a, f.b, f.f, x)
  BY DEF call
<1>2. SameCombs(r, resolve(r, f.a, x)) /\ SameCombs(r, rejectBy(r, f.a, x)) /\ SameCombs(r, r)
  BY ResolvingApart DEF SameCombs
<1> QED BY <1>1, <1>2, TalliesSame, ElementTallies

(* An input is counted.                                                    *)
LEMMA CountedTallies ==
  ASSUME NEW r, "combs" \in DOMAIN r, NEW c, NEW p \in Nat
  PROVE  Tallies(r, counted(r, c, p))
<1> DEFINE v == [status |-> "none", value |-> Undefined]
           m == r.combs[c]
           u == counted(r, c, p)
           e == [[[m EXCEPT !.values = Append(@, v)] EXCEPT !.inputs = Append(@, p)]
                   EXCEPT !.remaining = IF m.op = "race" THEN @ ELSE @ + 1]
<1>1. /\ DOMAIN u = DOMAIN r /\ DOMAIN u.combs = DOMAIN r.combs
      /\ \A d \in DOMAIN r.combs : u.combs[d] = IF d = c THEN e ELSE r.combs[d]
  BY DEF counted
<1>2. ASSUME CountExact(m)
      PROVE  CountExact(e) /\ e.over = m.over
  <2> HIDE DEF v
  <2>1. /\ DOMAIN e = DOMAIN m /\ e.called = m.called /\ e.op = m.op /\ e.over = m.over
        /\ e.inputs = Append(m.inputs, p)
        /\ e.remaining = IF m.op = "race" THEN m.remaining ELSE m.remaining + 1
    BY <1>2 DEF CountExact
  <2> HIDE DEF e
  <2>2. Append(m.inputs, p) \in Seq(Nat) /\ Len(Append(m.inputs, p)) = Len(m.inputs) + 1 /\ Len(m.inputs) \in Nat
    <3>1. m.inputs \in Seq(Nat)
      BY <1>2 DEF CountExact
    <3> HIDE DEF m
    <3> QED BY <3>1, AppendProperties, LenProperties
  <2>3. ASSUME m.op # "race"
        PROVE  e.remaining = Len(e.inputs) - Cardinality(e.called) + (IF e.over THEN 0 ELSE 1)
    <3>1. /\ m.remaining = Len(m.inputs) - Cardinality(m.called) + (IF m.over THEN 0 ELSE 1)
          /\ Cardinality(m.called) \in Nat
      BY <1>2, <2>3, FS_CardinalityType DEF CountExact
    <3> HIDE DEF m
    <3> QED BY <2>1, <2>2, <2>3, <3>1
  <2> HIDE DEF m
  <2> QED BY <1>2, <2>1, <2>2, <2>3 DEF CountExact
<1> HIDE DEF u, e, m
<1> QED BY <1>1, <1>2 DEF Tallies, CountsExact, m, u

(* The frames of the loops: each for a combinator of its own, whose loop   *)
(* has not ended.                                                          *)
LoopAt(st, j) == j \in 1..Len(st) /\ st[j].k = "iterate"
Loops(r, st) ==
  /\ \A j : LoopAt(st, j) => st[j].n \in DOMAIN r.combs /\ ~r.combs[st[j].n].over
  /\ \A j, l : LoopAt(st, j) /\ LoopAt(st, l) /\ st[j].n = st[l].n => j = l
NoNewLoop(st, u) == \A j : LoopAt(u, j) => LoopAt(st, j) /\ u[j] = st[j]
Tallied(r, st) == CountsExact(r) /\ Loops(r, st)

LEMMA TalliedOn ==
  ASSUME NEW r, NEW st, Tallied(r, st), NEW s, Tallies(r, s), NEW u, NoNewLoop(st, u)
  PROVE  Tallied(s, u)
<1>1. \A j : LoopAt(u, j) => u[j].n \in DOMAIN s.combs /\ ~s.combs[u[j].n].over
  BY DEF Tallied, Tallies, Loops, NoNewLoop
<1>2. \A j, l : LoopAt(u, j) /\ LoopAt(u, l) /\ u[j].n = u[l].n => j = l
  BY DEF Tallied, Loops, NoNewLoop
<1> QED BY <1>1, <1>2 DEF Tallied, Tallies, Loops

LEMMA LoopsPushed ==
  ASSUME NEW F, NEW st \in Seq(F), NEW f, f.k # "iterate", NEW u, u = Append(st, f)
  PROVE  NoNewLoop(st, u)
<1>1. /\ Len(u) = Len(st) + 1 /\ Len(st) \in Nat /\ u[Len(st) + 1] = f
      /\ \A i \in 1..Len(st) : u[i] = st[i]
  BY PushedOn
<1> QED BY <1>1 DEF NoNewLoop, LoopAt

LEMMA LoopsLeft ==
  ASSUME NEW n, NEW st, Stacked(n, st), NEW b, Depth(st, b), NEW u, u = To(st, b)
  PROVE  NoNewLoop(st, u)
<1>1. Len(u) = b /\ \A j \in 1..Len(u) : u[j] = st[j]
  BY Cut
<1>2. Len(st) \in Nat
  BY LenProperties DEF Stacked
<1> QED BY <1>1, <1>2 DEF NoNewLoop, LoopAt, Depth

LEMMA LoopsTopped ==
  ASSUME NEW F, NEW st \in Seq(F), st # <<>>, NEW g, g.k # "iterate", NEW u, u = OnTop(st, g)
  PROVE  NoNewLoop(st, u)
<1>1. /\ Len(u) = Len(st) /\ \A i \in 1..Len(st) : u[i] = IF i = Len(st) THEN g ELSE st[i]
  BY PutOnTop
<1> QED BY <1>1 DEF NoNewLoop, LoopAt

LEMMA LoopsTwo ==
  ASSUME NEW F, NEW st \in Seq(F), st # <<>>, NEW g, g.k # "iterate", NEW f, f.k # "iterate",
         NEW u, u = TwoOnTop(st, g, f)
  PROVE  NoNewLoop(st, u)
<1>1. /\ Len(u) = Len(st) + 1 /\ Len(st) \in Nat /\ u[Len(st) + 1] = f
      /\ \A i \in 1..Len(st) : u[i] = IF i = Len(st) THEN g ELSE st[i]
  BY PutTwo
<1> QED BY <1>1 DEF NoNewLoop, LoopAt

(* The actions that neither begin a loop nor end one.                      *)
Steady == Tallies(rt, rt') /\ NoNewLoop(stack, stack')

LEMMA AtHand ==
  ASSUME Inv
  PROVE  /\ "combs" \in DOMAIN rt /\ stack \in Seq(Frames(Size(rt))) /\ Stacked(Size(rt), stack)
         /\ Typed(rt) /\ SameCombs(rt, rt) /\ NoNewLoop(stack, stack) /\ Tallies(rt, rt)
<1>1. Typed(rt) /\ Stacked(Size(rt), stack)
  BY DEF Inv, OK, Good
<1>2. "combs" \in DOMAIN rt
  BY <1>1 DEF Typed, Shape
<1>3. SameCombs(rt, rt) /\ NoNewLoop(stack, stack)
  BY DEF SameCombs, NoNewLoop
<1> QED BY <1>1, <1>2, <1>3, TalliesSame DEF Stacked

LEMMA LoopsPopped ==
  ASSUME Inv, stack # <<>>
  PROVE  NoNewLoop(stack, below)
<1>1. Stacked(Size(rt), stack) /\ Len(stack) \in Nat /\ Len(stack) # 0
  BY LenProperties, EmptySeq DEF Inv, OK, Stacked
<1>2. Depth(stack, Len(stack) - 1)
  BY <1>1 DEF Depth
<1>3. below = To(stack, Len(stack) - 1)
  BY DEF below, To
<1> QED BY <1>1, <1>2, <1>3, LoopsLeft

LEMMA ScriptSteady ==
  ASSUME Inv, Script, ~\E op \in Combinators : Combine(op)
  PROVE  Steady
<1>0. /\ "combs" \in DOMAIN rt /\ NoNewLoop(stack, stack)
  BY AtHand
<1>1. \A p, f, g : SameCombs(rt, then(rt, p, f, g))
  BY <1>0, ThenApart
<1>2. CASE NewPromise
  BY <1>0, <1>2, PairApart, TalliesSame DEF NewPromise, Steady
<1>3. CASE \E p \in known, f, g \in Handlers : Then(p, f, g)
  BY <1>0, <1>1, <1>3, TalliesSame DEF Then, Steady
<1>4. ASSUME NEW p \in known, Finally(p) PROVE Steady
  <2> DEFINE n == Len(rt.finals) + 1
             t == then(rt, p, Fn("finThen", n, 0, Undefined), Fn("finCatch", n, 0, Undefined))
  <2>1. /\ rt' = [t EXCEPT !.finals = Append(@, [from |-> p, pair |-> Len(t.pairs),
                                                 via |-> Undefined, threw |-> FALSE])]
        /\ stack' = stack
    BY <1>4 DEF Finally
  <2>2. SameCombs(rt, t)
    BY <1>1
  <2> HIDE DEF t
  <2>3. SameCombs(rt, rt')
    BY <1>0, <2>1, <2>2 DEF SameCombs
  <2> QED BY <1>0, <2>1, <2>3, TalliesSame DEF Steady
<1>5. ASSUME NEW x \in Args, StaticResolve(x) PROVE Steady
  BY <1>0, <1>5, PromiseResolveApart, TalliesSame DEF StaticResolve, Steady
<1>6. ASSUME NEW x \in Args, StaticReject(x) PROVE Steady
  <2>1. SameCombs(rt, newPromise(rt)) /\ "combs" \in DOMAIN newPromise(rt)
    BY <1>0, PairApart DEF SameCombs
  <2>2. SameCombs(newPromise(rt), rt') /\ stack' = stack
    BY <1>6, <2>1, ResolvingApart DEF StaticReject
  <2>3. SameCombs(rt, rt')
    BY <2>1, <2>2 DEF SameCombs
  <2> QED BY <1>0, <2>2, <2>3, TalliesSame DEF Steady
<1>7. ASSUME NEW f \in held, NEW x \in Args, CallHeld(f, x) PROVE Steady
  BY <1>0, <1>7, CallTallies DEF CallHeld, Steady
<1> QED BY <1>2, <1>3, <1>4, <1>5, <1>6, <1>7 DEF Script

LEMMA IterateSteady ==
  ASSUME Inv, Iterate, ~IterEnd
  PROVE  Steady
<1>0. /\ "combs" \in DOMAIN rt /\ NoNewLoop(stack, stack) /\ Typed(rt)
  BY AtHand
<1>1. ASSUME NEW x \in Args, IterNext(x) PROVE Steady
  <2> DEFINE c == Top.n
             q == promiseResolve(rt, x)
             p == promiseOf(rt, x)
             r == counted(q, c, p)
             i == Len(r.combs[c].inputs)
  <2>1. rt' = then(r, p, onFulfilled(r, c, i), onRejected(r, c, i)) /\ stack' = stack
    BY <1>1 DEF IterNext
  <2>2. p \in Nat
    <3>1. x \in Values(Size(rt)) /\ Len(rt.promises) \in Nat
      BY <1>0, ArgsTyped, Sizes DEF Inv
    <3> QED BY <3>1 DEF Values, promiseOf
  <2> HIDE DEF c, p
  <2>3. SameCombs(rt, q) /\ "combs" \in DOMAIN q
    BY <1>0, PromiseResolveApart DEF SameCombs
  <2> HIDE DEF q
  <2>4. Tallies(q, r) /\ "combs" \in DOMAIN r
    BY <2>2, <2>3, CountedTallies DEF Tallies
  <2> HIDE DEF r, i
  <2>5. SameCombs(r, rt')
    BY <2>1, <2>4, ThenApart
  <2> QED BY <1>0, <2>1, <2>3, <2>4, <2>5, TalliesSame, TalliesOn DEF Steady
<1>2. CASE IterWild
  BY <1>0, <1>2, CountedTallies DEF IterWild, Steady
<1>3. ASSUME NEW x \in Plain, IterThrows(x) PROVE Steady
  <2>1. stack' = below /\ stack # <<>> /\ rt' = rejectBy(rt, rt.combs[Top.n].cap, x)
    BY <1>3 DEF IterThrows, IterDone, On
  <2> QED BY <1>0, <2>1, ResolvingApart, TalliesSame, LoopsPopped DEF Steady
<1> QED BY <1>1, <1>2, <1>3 DEF Iterate

LEMMA JobStack ==
  ASSUME Inv, NEW kind, Taking(kind)
  PROVE  /\ NoNewLoop(stack, Append(below, rest))
         /\ \A f : f.k # "iterate" => NoNewLoop(stack, below \o <<rest, f>>)
<1>1. stack \in Seq(Frames(Size(rt))) /\ stack # <<>> /\ Top.k = "leave" /\ Top \in Frames(Size(rt))
  BY OnTyped DEF Inv, OK, Stacked, Taking, On, Top, Peek
<1>2. rest.k = "leave"
  BY <1>1 DEF rest, Frames
<1> HIDE DEF rest
<1>3. Append(below, rest) = OnTop(stack, rest) /\ \A f : below \o <<rest, f>> = TwoOnTop(stack, rest, f)
  BY DEF below, OnTop, TwoOnTop, To
<1> QED BY <1>1, <1>2, <1>3, LoopsTopped, LoopsTwo, Zenon

LEMMA JobsSteady ==
  ASSUME Inv, Jobs
  PROVE  Steady
<1>0. /\ "combs" \in DOMAIN rt /\ Typed(rt) /\ SameCombs(rt, rt) /\ NoNewLoop(stack, stack)
  BY AtHand
<1>1. CASE RunReaction
  <2> DEFINE job == Head(Top.batch)
             h == job.handler
             a == resumed(rt)
             b == call(a, h, job.arg)
             c == exited(b)
  <2>1. NoNewLoop(stack, stack')
    BY <1>1, JobStack DEF RunReaction
  <2>2. \/ rt' = settle(rt, job.cap, job.typ = "fulfill", job.arg)
        \/ rt' = settle(c, job.cap, h.f # "thrower", h.x)
    BY <1>1 DEF RunReaction
  <2>3. SameCombs(rt, a) /\ "combs" \in DOMAIN a
    BY <1>0, ContextsApart DEF SameCombs
  <2> HIDE DEF job, h, a
  <2>4. Tallies(a, b) /\ "combs" \in DOMAIN b
    BY <2>3, CallTallies DEF Tallies
  <2> HIDE DEF b
  <2>5. SameCombs(b, c) /\ "combs" \in DOMAIN c
    BY <2>4, ContextsApart DEF SameCombs
  <2> HIDE DEF c
  <2>6. Tallies(rt, c)
    BY <2>3, <2>4, <2>5, TalliesSame, TalliesOn
  <2>7. Tallies(rt, rt')
    BY <1>0, <2>2, <2>5, <2>6, SettleApart, TalliesSame, TalliesOn
  <2> QED BY <2>1, <2>7 DEF Steady
<1>2. CASE BeginHandler
  <2> DEFINE h == Head(Top.batch).handler
             f == Frame("handler", h.f # "go", FALSE, <<>>, Head(Top.batch), 0)
  <2>1. rt' = resumed(rt) /\ stack' = below \o <<rest, f>>
    BY <1>2 DEF BeginHandler
  <2>2. f.k # "iterate"
    BY DEF Frame
  <2> HIDE DEF f
  <2> QED BY <1>0, <1>2, <2>1, <2>2, ContextsApart, TalliesSame, JobStack, Zenon DEF BeginHandler, Steady
<1>3. CASE RunThenable
  <2> DEFINE job == Head(Top.batch)
             r == newPair(rt, job.cap)
  <2>1. SameCombs(rt, r) /\ "combs" \in DOMAIN r
    BY <1>0, PairApart DEF SameCombs
  <2>2. \/ stack' = Append(below, rest) /\ \E p, f, g : rt' = then(r, p, f, g)
        \/ rt' = r /\ \E f : f.k # "iterate" /\ stack' = below \o <<rest, f>>
    BY <1>3, Zenon DEF RunThenable, Frame
  <2> HIDE DEF r
  <2>3. SameCombs(rt, rt')
    BY <2>1, <2>2, ThenApart DEF SameCombs
  <2> QED BY <1>3, <2>2, <2>3, TalliesSame, JobStack, Zenon DEF RunThenable, Steady
<1>4. ASSUME NEW x \in Args, HandlerReturns(x) PROVE Steady
  <2> DEFINE job == Top.job
             fin == finallyResult(rt, job, x).r
  <2>1. stack' = below /\ stack # <<>>
    BY <1>4 DEF HandlerReturns, On
  <2>2. SameCombs(rt, fin) /\ "combs" \in DOMAIN fin
    <3> DEFINE q == promiseResolve(rt, x)
               f == IF job.handler.f = "finThen" THEN "thunk" ELSE "thrower"
               t == then(q, promiseOf(rt, x), Fn(f, 0, 0, job.arg), NoFn)
    <3>1. fin = [t EXCEPT !.finals[job.handler.a].via = x]
      BY DEF finallyResult
    <3> HIDE DEF f
    <3>2. SameCombs(rt, q) /\ "combs" \in DOMAIN q
      BY <1>0, PromiseResolveApart DEF SameCombs
    <3>3. SameCombs(q, t)
      BY <3>2, ThenApart
    <3> HIDE DEF q, t
    <3> QED BY <1>0, <3>1, <3>2, <3>3 DEF SameCombs
  <2>3. \/ rt' = rt
        \/ \E y : rt' = settle(exited(fin), job.cap, TRUE, y)
        \/ rt' = settle(exited(rt), job.cap, TRUE, x)
    BY <1>4, Zenon DEF HandlerReturns
  <2> HIDE DEF fin
  <2>4. SameCombs(rt, exited(fin)) /\ SameCombs(rt, exited(rt)) /\ "combs" \in DOMAIN exited(fin) /\ "combs" \in DOMAIN exited(rt)
    BY <1>0, <2>2, ContextsApart DEF SameCombs
  <2> DEFINE a == exited(fin)
             b == exited(rt)
  <2>5. (\A y : SameCombs(a, settle(a, job.cap, TRUE, y))) /\ SameCombs(b, settle(b, job.cap, TRUE, x))
    BY <2>4, SettleApart, Zenon
  <2>6. SameCombs(rt, rt')
    BY <1>0, <2>3, <2>4, <2>5, Zenon DEF SameCombs
  <2> QED BY <2>1, <2>6, TalliesSame, LoopsPopped DEF Steady
<1>5. ASSUME NEW x \in Plain, HandlerThrows(x) PROVE Steady
  <2> DEFINE job == Top.job
             n == job.handler.a
             t == [rt EXCEPT !.finals[n].via = x, !.finals[n].threw = TRUE]
  <2>1. stack' = below /\ stack # <<>>
    BY <1>5 DEF HandlerThrows, On
  <2>2. \/ rt' = rejectBy(rt, Top.n, x)
        \/ \E s \in {rt, t} : rt' = settle(exited(s), job.cap, FALSE, x)
    BY <1>5, Zenon DEF HandlerThrows
  <2>3. \A s \in {rt, t} : SameCombs(rt, s) /\ "combs" \in DOMAIN s
    BY <1>0, Zenon DEF SameCombs
  <2> HIDE DEF t
  <2>4. \A s \in {rt, t} : SameCombs(rt, exited(s)) /\ "combs" \in DOMAIN exited(s)
    BY <2>3, ContextsApart DEF SameCombs
  <2>5. \A s \in {rt, t} : SameCombs(exited(s), settle(exited(s), job.cap, FALSE, x))
    BY <2>4, SettleApart, Zenon
  <2>6. SameCombs(rt, rejectBy(rt, Top.n, x))
    BY <1>0, ResolvingApart
  <2>7. SameCombs(rt, rt')
    BY <2>2, <2>4, <2>5, <2>6, Zenon DEF SameCombs
  <2> QED BY <2>1, <2>7, TalliesSame, LoopsPopped DEF Steady
<1>6. CASE NextBatch
  <2> DEFINE g == [Top EXCEPT !.batch = rt.jobQueue]
  <2>1. rt' = [rt EXCEPT !.jobQueue = <<>>] /\ stack' = OnTop(stack, g) /\ stack # <<>> /\ Top.k = "leave"
    BY <1>6 DEF NextBatch, On, OnTop, To, below
  <2>2. stack \in Seq(Frames(Size(rt))) /\ g.k = "leave"
    BY <2>1, OnTyped DEF Inv, OK, Stacked, Top, Peek, Frames
  <2> HIDE DEF g
  <2>3. NoNewLoop(stack, stack')
    BY <2>1, <2>2, LoopsTopped
  <2> QED BY <1>0, <2>1, <2>3, TalliesSame DEF SameCombs, Steady
<1>7. CASE Left
  BY <1>0, <1>7, TalliesSame, LoopsPopped DEF Left, On, Steady
<1> QED BY <1>1, <1>2, <1>3, <1>4, <1>5, <1>6, <1>7 DEF Jobs

LEMMA EmbedderSteady ==
  ASSUME Inv, Embedder
  PROVE  Steady
<1>0. /\ "combs" \in DOMAIN rt /\ SameCombs(rt, rt) /\ Tallies(rt, rt)
      /\ stack \in Seq(Frames(Size(rt))) /\ Stacked(Size(rt), stack)
  BY AtHand
<1>1. CASE \E prog \in Entries : Enter(prog)
  <2>1. rt' = rt /\ \E f : f.k # "iterate" /\ stack' = Append(stack, f)
    BY <1>1 DEF Enter, push, Frame
  <2> QED BY <1>0, <2>1, LoopsPushed, Zenon DEF Steady
<1>2. ASSUME NEW f \in held, NEW x \in Args, HostCall(f, x) PROVE Steady
  <2>1. rt' = call(rt, f, x) /\ \E g : g.k # "iterate" /\ stack' = Append(stack, g)
    BY <1>2 DEF HostCall, push, Frame
  <2> QED BY <1>0, <2>1, LoopsPushed, CallTallies, Zenon DEF Steady
<1>3. CASE Return
  <2> DEFINE g == Frame("leave", FALSE, Top.prog, <<>>, NoJob, 0)
  <2>1. rt' = rt /\ stack' = OnTop(stack, g) /\ stack # <<>> /\ g.k # "iterate"
    BY <1>3 DEF Return, On, OnTop, To, below, Frame
  <2> HIDE DEF g
  <2> QED BY <1>0, <2>1, LoopsTopped DEF Steady
<1>4. CASE Interrupt
  <2> DEFINE b == Caught
  <2>1. /\ rt' = [rt EXCEPT !.jobQueue = <<>>, !.lost = @ \cup jobsFrom(Caught)]
        /\ stack' = To(stack, b - 1) /\ stack # <<>>
    BY <1>4 DEF Interrupt, To
  <2>2. Depth(stack, b - 1)
    BY <2>1, Unwound
  <2> HIDE DEF b
  <2>3. NoNewLoop(stack, stack')
    BY <1>0, <2>1, <2>2, LoopsLeft
  <2> QED BY <1>0, <2>1, <2>3, TalliesSame, Zenon DEF SameCombs, Steady
<1> QED BY <1>1, <1>2, <1>3, <1>4 DEF Embedder

(* A loop begins, and ends.                                                *)
LEMMA CombineTallied ==
  ASSUME Inv, Tallied(rt, stack), NEW op \in Combinators, Combine(op)
  PROVE  Tallied(rt', stack')
<1> DEFINE n == newPromise(rt)
           e == [op |-> op, cap |-> Len(n.pairs), values |-> <<>>, called |-> {}, remaining |-> 1,
                 inputs |-> <<>>, over |-> FALSE]
           f == Frame("iterate", TRUE, FALSE, <<>>, NoJob, Len(rt'.combs))
           l == Len(rt.combs)
<1>0. /\ "combs" \in DOMAIN rt /\ rt.combs \in Seq(Combs(Size(rt))) /\ stack \in Seq(Frames(Size(rt)))
  BY AtHand DEF Typed
<1>1. rt' = [n EXCEPT !.combs = Append(@, e)] /\ stack' = Append(stack, f) /\ f.k = "iterate" /\ f.n = Len(rt'.combs)
  BY DEF Combine, combinator, push, Frame
<1>2. SameCombs(rt, n) /\ "combs" \in DOMAIN n
  BY <1>0, PairApart, Zenon DEF SameCombs
<1>3. CountExact(e) /\ e.over = FALSE
  <2>1. IsFiniteSet({}) /\ Cardinality({}) = 0
    BY FS_EmptySet
  <2>2. <<>> \in Seq(Nat) /\ Len(<<>>) = 0
    BY EmptySeq
  <2> QED BY <2>1, <2>2 DEF CountExact
<1> HIDE DEF e, f
<1>4. rt'.combs = Append(rt.combs, e)
  BY <1>1, <1>2 DEF SameCombs
<1> HIDE DEF n
<1>5. /\ Len(rt'.combs) = l + 1 /\ l \in Nat /\ rt'.combs[l + 1] = e
      /\ DOMAIN rt.combs = 1..l /\ DOMAIN rt'.combs = 1..(l + 1)
      /\ \A c \in 1..l : rt'.combs[c] = rt.combs[c]
  <2> DEFINE S == Combs(Size(rt)) \cup {e}
             q == Append(rt.combs, e)
  <2>1. rt.combs \in Seq(S) /\ e \in S
    BY <1>0, SeqMono
  <2> HIDE DEF S
  <2>2. /\ q \in Seq(S) /\ Len(q) = l + 1 /\ q[l + 1] = e /\ l \in Nat
        /\ \A c \in 1..l : q[c] = rt.combs[c]
    BY <2>1, Appended, LenProperties
  <2>3. DOMAIN rt.combs = 1..l /\ DOMAIN q = 1..Len(q)
    BY <2>1, <2>2, LenProperties
  <2> HIDE DEF q
  <2> QED BY <1>4, <2>2, <2>3 DEF q
<1>6. CountsExact(rt')
  BY <1>3, <1>5 DEF Tallied, CountsExact
<1>7. /\ Len(stack') = Len(stack) + 1 /\ Len(stack) \in Nat /\ stack'[Len(stack) + 1] = f
      /\ \A i \in 1..Len(stack) : stack'[i] = stack[i]
  BY <1>0, <1>1, PushedOn
<1> HIDE DEF l
<1>8. \A j : LoopAt(stack', j) =>
        \/ j = Len(stack) + 1 /\ stack'[j].n = l + 1
        \/ LoopAt(stack, j) /\ stack'[j] = stack[j] /\ stack[j].n \in 1..l
  <2>1. \A j : LoopAt(stack, j) => stack[j].n \in 1..l
    BY <1>5 DEF Tallied, Loops
  <2>2. \A j : LoopAt(stack', j) => j = Len(stack) + 1 \/ j \in 1..Len(stack)
    BY <1>7 DEF LoopAt
  <2> QED BY <1>1, <1>5, <1>7, <2>1, <2>2 DEF LoopAt
<1>9. Loops(rt', stack')
  <2>1. \A j : LoopAt(stack', j) => stack'[j].n \in DOMAIN rt'.combs /\ ~rt'.combs[stack'[j].n].over
    BY <1>3, <1>5, <1>8 DEF Tallied, Loops
  <2>2. \A j, k : LoopAt(stack', j) /\ LoopAt(stack', k) /\ stack'[j].n = stack'[k].n => j = k
    <3>1. \A j : j \in 1..l => j # l + 1
      BY <1>5
    <3> QED BY <1>8, <3>1 DEF Tallied, Loops
  <2> QED BY <2>1, <2>2 DEF Loops
<1> QED BY <1>6, <1>9 DEF Tallied

LEMMA IterEndTallied ==
  ASSUME Inv, Tallied(rt, stack), IterEnd
  PROVE  Tallied(rt', stack')
<1> DEFINE c == Top.n
           m == rt.combs[c]
           u == [rt EXCEPT !.combs[c].over = TRUE, !.combs[c].remaining = IF m.op = "race" THEN @ ELSE @ - 1]
           e == [[m EXCEPT !.over = TRUE] EXCEPT !.remaining = IF m.op = "race" THEN m.remaining ELSE m.remaining - 1]
           l == Len(stack)
<1>0. /\ "combs" \in DOMAIN rt /\ stack \in Seq(Frames(Size(rt))) /\ NoNewLoop(stack, below)
      /\ l \in Nat /\ l # 0 /\ stack[l] = Top /\ Top.k = "iterate"
  <2>1. stack # <<>> /\ Top.k = "iterate"
    BY DEF IterEnd, IterDone, On
  <2> QED BY <2>1, AtHand, LoopsPopped, LenProperties, EmptySeq DEF Top
<1>1. rt' = finish(u, c) /\ stack' = below
  BY DEF IterEnd, IterDone, ended
<1>2. LoopAt(stack, l) /\ stack[l].n = c
  BY <1>0 DEF LoopAt
<1>3. /\ DOMAIN u = DOMAIN rt /\ DOMAIN u.combs = DOMAIN rt.combs
      /\ \A d \in DOMAIN rt.combs : u.combs[d] = IF d = c THEN e ELSE rt.combs[d]
  <2>1. u = [rt EXCEPT !.combs = [rt.combs EXCEPT ![c] = e]]
    <3> HIDE DEF c
    <3>1. m \in Combs(Size(rt)) /\ Shape(rt)
      BY Looping, CombIs DEF c, IterEnd, IterDone, Good, Typed
    <3> QED BY <3>1 DEF Combs, Shape
  <2> HIDE DEF u, e, m, c
  <2> QED BY <1>0, <2>1
<1> HIDE DEF c, u
<1>4. c \in DOMAIN rt.combs /\ ~m.over /\ CountExact(m)
  BY <1>2 DEF Tallied, Loops, CountsExact
<1>5. CountExact(e)
  <2>1. /\ DOMAIN e = DOMAIN m /\ e.called = m.called /\ e.op = m.op /\ e.over = TRUE /\ e.inputs = m.inputs
        /\ e.remaining = IF m.op = "race" THEN m.remaining ELSE m.remaining - 1
    BY <1>4 DEF CountExact
  <2> HIDE DEF e
  <2>2. ASSUME m.op # "race"
        PROVE  e.remaining = Len(e.inputs) - Cardinality(e.called) + (IF e.over THEN 0 ELSE 1)
    <3>1. /\ m.remaining = Len(m.inputs) - Cardinality(m.called) + 1
          /\ Cardinality(m.called) \in Nat /\ Len(m.inputs) \in Nat
      BY <1>4, <2>2, FS_CardinalityType, LenProperties DEF CountExact
    <3> HIDE DEF m
    <3> QED BY <2>1, <2>2, <3>1
  <2> HIDE DEF m
  <2> QED BY <1>4, <2>1, <2>2 DEF CountExact
<1> HIDE DEF e, m
<1>6. CountsExact(u)
  BY <1>3, <1>5 DEF Tallied, CountsExact
<1>7. Loops(u, below)
  <2>1. \A j : LoopAt(below, j) => LoopAt(stack, j) /\ below[j] = stack[j] /\ j # l
    <3>1. Len(below) = l - 1
      <4>1. stack # <<>> /\ below = To(stack, Len(stack) - 1)
        BY <1>0, EmptySeq DEF below, To
      <4> QED BY <1>0, <4>1, TakenOff
    <3>2. \A j : LoopAt(below, j) => j # l
      BY <1>0, <3>1 DEF LoopAt
    <3> QED BY <1>0, <3>2 DEF NoNewLoop
  <2>2. \A j : LoopAt(below, j) => below[j].n # c
    BY <1>2, <2>1 DEF Tallied, Loops
  <2> HIDE DEF l
  <2> QED BY <1>3, <2>1, <2>2 DEF Tallied, Loops
<1>8. Tallies(u, rt')
  <2>1. "combs" \in DOMAIN u
    BY <1>0, <1>3
  <2> QED BY <1>1, <2>1, FinishApart, TalliesSame
<1>9. NoNewLoop(below, below)
  BY DEF NoNewLoop
<1> QED BY <1>1, <1>6, <1>7, <1>8, <1>9, TalliedOn DEF Tallied

(* Whenever user code, a job or the embedder runs: the counter of a        *)
(* combinator is the number of its elements whose functions have not been  *)
(* called, plus one until its loop has ended, however often, in what order *)
(* and from where they are called (Promise.all, any and allSettled).       *)
THEOREM RemainingHolds == Spec => []RemainingExact
<1> DEFINE I == Tallied(rt, stack)
<1>1. Init => I
  <2> SUFFICES ASSUME Init PROVE Tallied(rt, stack)
    OBVIOUS
  <2>1. rt.combs = <<>> /\ stack = <<>> /\ Len(stack) = 0
    BY EmptySeq DEF Init
  <2>2. DOMAIN rt.combs = {} /\ \A j : ~LoopAt(stack, j)
    BY <2>1 DEF LoopAt
  <2> QED BY <2>2 DEF Tallied, CountsExact, Loops
<1>2. Inv /\ I /\ [Next]_vars => I'
  <2> SUFFICES ASSUME Inv, Tallied(rt, stack), [Next]_vars PROVE Tallied(rt', stack')
    OBVIOUS
  <2>1. Steady => Tallied(rt', stack')
    BY TalliedOn DEF Steady
  <2>2. CASE UNCHANGED vars
    BY <2>2 DEF vars
  <2>3. CASE Next
    BY <2>1, <2>3, ScriptSteady, CombineTallied, IterateSteady, IterEndTallied, JobsSteady, EmbedderSteady DEF Next
  <2> QED BY <2>2, <2>3
<1>3. Inv /\ I => RemainingExact
  <2> SUFFICES ASSUME Inv, Tallied(rt, stack), NEW c \in 1..Len(rt.combs)
               PROVE  CountExact(rt.combs[c])
    BY DEF RemainingExact, CountExact
  <2>1. rt.combs \in Seq(Combs(Size(rt)))
    BY AtHand DEF Typed
  <2>2. c \in DOMAIN rt.combs
    BY <2>1, LenProperties
  <2> QED BY <2>2 DEF Tallied, CountsExact
<1> QED BY <1>1, <1>2, <1>3, PromisesInvariant, PTL DEF Spec
=============================================================================
