--------------------------- MODULE OrderedMapProofs ---------------------------
(***************************************************************************)
(* OrderedMap implements InsertionMap, for any keys, values, iterators,    *)
(* hash function and number of entries.                                    *)
(***************************************************************************)
EXTENDS OrderedMap, FiniteSetTheorems, TLAPS

USE DEF list, chains, content, iters, callVars

-----------------------------------------------------------------------------
(* The pieces of the inductive invariant.                                  *)

(* Entries are allocated in order, with empty links; keys are unique.      *)
Allocated ==
  /\ \A e \in Entries :
       created < e => key[e] = NoKey /\ iterNext[e] = Nil /\ hNext[e] = Nil
  /\ \A i \in Iterators : cur[i] <= created
  /\ \A d, e \in Present : key[d] = key[e] => d = e

(* Links to the left always go left.                                       *)
Backwards ==
  /\ WayBack
  /\ \A e \in Entries : e <= created => iterPrev[e] < e

(* During clear() the entries not yet emptied form the rest of the list.   *)
Clearing ==
  pc = "clear" =>
    /\ IsNext(Present, Nil, entry)
    /\ \A e \in Present : IsNext(Present, e, iterNext[e])

(* lookup has seen the part of the chain up to hPrev, and the key is not   *)
(* in it.                                                                  *)
Target == Bucket(Hash[Canon[arg.key]])
Walking ==
  pc \in Lookups =>
    /\ hPrev \in Target \cup {Nil}
    /\ IsNext(Target, hPrev, entry)
    /\ \A d \in Target : d <= hPrev => key[d] # Canon[arg.key]

(* An iterator on its way back has passed no present entry.                *)
Tracking ==
  pc = "next" =>
    /\ entry <= cur[arg.iter]
    /\ \A d \in Present : ~(entry < d /\ d <= cur[arg.iter])

Inv == /\ TypeOK /\ Allocated /\ ListExact /\ ChainsExact /\ Backwards
       /\ Clearing /\ Walking /\ Tracking

(* Every step keeps the types.                                             *)
LEMMA TypeStep == TypeOK /\ [Next]_vars => TypeOK'
<1> SUFFICES ASSUME TypeOK, [Next]_vars PROVE TypeOK'
  OBVIOUS
<1> USE OrderedMapAssumption
<1>r. \A f \in BOOLEAN, k \in Keys \cup {NoKey}, v \in Values \cup {NoValue} :
        Result(f, k, v) \in Results
  BY DEF Result, Results
<1>m. Missing \in Results
  BY <1>r DEF Missing
<1>n. NoArg \in [key : Keys \cup {NoKey}, value : Values \cup {NoValue},
                iter : Iterators \cup {NoKey}]
  BY DEF NoArg
<1>1. ASSUME NEW k \in Keys, NEW v \in Values \cup {NoValue}, NEW op \in Lookups,
             op = "set" => v \in Values, Call(op, k, v)
      PROVE  TypeOK'
  BY <1>1 DEF Call, TypeOK, Pointers, Lookups, IterOps
<1>2. CASE Walk
  BY <1>2 DEF Walk, TypeOK, Pointers
<1>3. CASE SetFound
  BY <1>3, <1>n DEF SetFound, found, sought, return, TypeOK, Pointers, Lookups, IterOps, Nil
<1>4. CASE SetAbsent
  <2>1. created + 1 \in Entries /\ created' \in 0..MaxEntries
    BY <1>4 DEF SetAbsent, TypeOK, Entries
  <2>2. arg.key \in Keys /\ arg.value \in Values
    BY <1>4 DEF SetAbsent, absent, TypeOK, Lookups
  <2>3. key' \in [Entries -> Keys \cup {NoKey}] /\ value' \in [Entries -> Values \cup {NoValue}]
    BY <1>4, <2>1, <2>2 DEF SetAbsent, TypeOK
  <2>4. hNext' \in [Entries -> Pointers] /\ hashTable' \in [Buckets -> Pointers]
    BY <1>4, <2>1 DEF SetAbsent, chain, TypeOK, Pointers
  <2>5. /\ iterPrev' \in [Entries -> Pointers] /\ iterNext' \in [Entries -> Pointers]
        /\ iterFirst' \in Pointers /\ iterLast' \in Pointers
    BY <1>4, <2>1 DEF SetAbsent, link, TypeOK, Pointers
  <2> QED BY <1>4, <1>n, <2>1, <2>3, <2>4, <2>5
          DEF SetAbsent, return, TypeOK, Pointers, Lookups, IterOps, Nil
<1>5. CASE Get \/ Has \/ RemoveAbsent
  <2>1. ret' \in Results
    <3>1. CASE Get
      <4>1. CASE found("get")
        <5>1. entry \in Entries BY <4>1 DEF found, sought, TypeOK, Pointers
        <5>2. value[entry] \in Values \cup {NoValue} BY <5>1 DEF TypeOK
        <5>3. ret' = Result(TRUE, NoKey, value[entry])
          BY <3>1, <4>1 DEF Get, found, absent, sought
        <5> QED BY <1>r, <5>2, <5>3
      <4>2. CASE absent("get") BY <3>1, <4>2, <1>m DEF Get, found, absent, sought
      <4> QED BY <3>1, <4>1, <4>2 DEF Get
    <3>2. CASE Has BY <3>2, <1>r DEF Has
    <3>3. CASE RemoveAbsent BY <3>3, <1>m DEF RemoveAbsent
    <3> QED BY <1>5, <3>1, <3>2, <3>3
  <2> QED BY <1>5, <1>n, <2>1
          DEF Get, Has, RemoveAbsent, return, TypeOK, Pointers, Lookups, IterOps, Nil
<1>6. CASE RemoveFound
  <2>1. entry \in Entries
    BY <1>6 DEF RemoveFound, found, sought, TypeOK, Pointers
  <2>2. hNext' \in [Entries -> Pointers] /\ hashTable' \in [Buckets -> Pointers]
    BY <1>6, <2>1 DEF RemoveFound, unchain, TypeOK
  <2>3. /\ iterPrev' \in [Entries -> Pointers] /\ iterNext' \in [Entries -> Pointers]
        /\ iterFirst' \in Pointers /\ iterLast' \in Pointers
    BY <1>6, <2>1 DEF RemoveFound, unlink, TypeOK
  <2>4. key' \in [Entries -> Keys \cup {NoKey}] /\ value' \in [Entries -> Values \cup {NoValue}]
    BY <1>6 DEF RemoveFound, TypeOK
  <2>5. ret' \in Results
    <3>1. ret' = Result(TRUE, NoKey, NoValue) BY <1>6 DEF RemoveFound
    <3> QED BY <3>1, <1>r
  <2>6. size' \in Int BY <1>6 DEF RemoveFound, TypeOK
  <2> QED BY <1>6, <1>n, <2>2, <2>3, <2>4, <2>5, <2>6
          DEF RemoveFound, return, TypeOK, Pointers, Lookups, IterOps, Nil
<1>7. CASE Clear \/ ClearItem
  BY <1>7 DEF Clear, ClearItem, TypeOK, Pointers, Lookups, IterOps, Nil
<1>8. CASE ClearDone
  BY <1>8 DEF ClearDone, reset, TypeOK, Pointers, Lookups, IterOps, Nil
<1>9. CASE (\E i \in Iterators, op \in IterOps : BeginIter(op, i)) \/ NewIter \/ NextClosed
  <2>1. ASSUME NEW i \in Iterators, NEW op \in IterOps, BeginIter(op, i) PROVE TypeOK'
    BY <2>1 DEF BeginIter, TypeOK, Pointers, Lookups, IterOps, Nil
  <2>2. CASE NewIter
    BY <1>n, <2>2 DEF NewIter, return, TypeOK, Pointers, Lookups, IterOps, Nil
  <2>3. CASE NextClosed
    BY <1>n, <1>m, <2>3 DEF NextClosed, return, TypeOK, Pointers, Lookups, IterOps, Nil
  <2> QED BY <1>9, <2>1, <2>2, <2>3
<1>10. CASE TrackBack
  BY <1>10 DEF TrackBack, deleted, TypeOK, Pointers
<1>11. CASE NextReturns
  <2> DEFINE n == IF entry # Nil THEN iterNext[entry] ELSE iterFirst
  <2>1. n \in Pointers /\ arg.iter \in Iterators
    BY <1>11 DEF NextReturns, TypeOK, Pointers, IterOps
  <2>2. \/ n # Nil /\ cur' = [cur EXCEPT ![arg.iter] = n] /\ UNCHANGED open
           /\ ret' = Result(TRUE, key[n], value[n])
        \/ n = Nil /\ cur' = [cur EXCEPT ![arg.iter] = Nil]
           /\ open' = [open EXCEPT ![arg.iter] = FALSE] /\ ret' = Missing
    BY <1>11 DEF NextReturns
  <2> HIDE DEF n
  <2>3. cur' \in [Iterators -> Pointers]
    BY <2>1, <2>2 DEF TypeOK, Pointers
  <2>4. open' \in [Iterators -> BOOLEAN]
    BY <2>2 DEF TypeOK
  <2>5. ret' \in Results
    <3>1. CASE n # Nil
      <4>1. n \in Entries BY <2>1, <3>1 DEF Pointers
      <4>2. key[n] \in Keys \cup {NoKey} /\ value[n] \in Values \cup {NoValue}
        BY <4>1 DEF TypeOK
      <4>3. ret' = Result(TRUE, key[n], value[n]) BY <2>2, <3>1
      <4> QED BY <4>2, <4>3, <1>r
    <3>2. CASE n = Nil BY <2>2, <3>2, <1>m
    <3> QED BY <3>1, <3>2
  <2> QED BY <1>11, <1>n, <2>3, <2>4, <2>5
          DEF NextReturns, return, TypeOK, Pointers, Lookups, IterOps, Nil
<1>12. CASE UNCHANGED vars
  BY <1>12 DEF vars, TypeOK
<1> QED
  BY <1>1, <1>2, <1>3, <1>4, <1>5, <1>6, <1>7, <1>8, <1>9, <1>10, <1>11, <1>12
  DEF Next, Begin, Turn, Lookups

-----------------------------------------------------------------------------
(* Successors and predecessors in a set of entry numbers when its largest  *)
(* element arrives or any element leaves.                                  *)

Positive == Nat \ {0}

(* A new largest element follows what was last.                            *)
LEMMA NextAdd ==
  ASSUME NEW S \in SUBSET Positive, NEW m \in Positive, \A d \in S : d < m,
         NEW e \in Nat, NEW n \in Nat, IsNext(S, e, n), e < m
  PROVE  IsNext(S \cup {m}, e, IF n = Nil THEN m ELSE n)
BY DEF IsNext, Nil, Positive

(* It changes nobody's predecessor and has the last one as its own.        *)
LEMMA PrevAdd ==
  ASSUME NEW S \in SUBSET Positive, NEW m \in Positive, \A d \in S : d < m
  PROVE  /\ \A e \in S, p \in Nat : IsPrev(S, e, p) => IsPrev(S \cup {m}, e, p)
         /\ \A p \in Nat : IsLast(S, p) => IsPrev(S \cup {m}, m, p)
         /\ IsLast(S \cup {m}, m) /\ IsNext(S \cup {m}, m, Nil)
BY DEF IsPrev, IsLast, IsNext, Nil, Positive

(* Whoever preceded an element that leaves inherits its successor.         *)
LEMMA NextDel ==
  ASSUME NEW S \in SUBSET Positive, NEW x \in S, NEW y \in Nat, IsNext(S, x, y),
         NEW e \in Nat, NEW n \in Nat, IsNext(S, e, n)
  PROVE  IsNext(S \ {x}, e, IF n = x THEN y ELSE n)
BY DEF IsNext, Nil, Positive

(* Whoever followed it inherits its predecessor.                           *)
LEMMA PrevDel ==
  ASSUME NEW S \in SUBSET Positive, NEW x \in S, NEW q \in Nat, IsPrev(S, x, q)
  PROVE  /\ \A e \in S, p \in Nat :
              IsPrev(S, e, p) => IsPrev(S \ {x}, e, IF p = x THEN q ELSE p)
         /\ \A p \in Nat : IsLast(S, p) => IsLast(S \ {x}, IF p = x THEN q ELSE p)
BY DEF IsPrev, IsLast, Nil, Positive

(* Successor and predecessor links point at each other.                    *)
LEMMA NextPrev ==
  ASSUME NEW S \in SUBSET Positive, NEW d \in S, NEW e \in S,
         NEW n \in Nat, NEW p \in Nat, IsNext(S, d, n), IsPrev(S, e, p)
  PROVE  n = e <=> p = d
BY DEF IsNext, IsPrev, Nil, Positive

(* The first element is the one without a predecessor, the last the one    *)
(* without a successor.                                                    *)
LEMMA FirstLast ==
  ASSUME NEW S \in SUBSET Positive, NEW e \in S,
         NEW f \in Nat, NEW l \in Nat, NEW n \in Nat, NEW p \in Nat,
         IsNext(S, Nil, f), IsLast(S, l), IsNext(S, e, n), IsPrev(S, e, p)
  PROVE  (f = e <=> p = Nil) /\ (l = e <=> n = Nil)
BY DEF IsNext, IsPrev, IsLast, Nil, Positive

(* Two elements with the same successor are equal; the head of a list is   *)
(* the successor of nil.                                                   *)
LEMMA SameNext ==
  ASSUME NEW S \in SUBSET Positive, NEW x \in S, NEW n \in Nat,
         NEW a \in S \cup {Nil}, NEW b \in S \cup {Nil}, IsNext(S, a, x), IsNext(S, b, n)
  PROVE  n = x <=> a = b
<1>1. a \in Nat /\ b \in Nat /\ x \in Nat /\ x # Nil BY DEF Positive, Nil
<1>2. a < x /\ \A d \in S : a < d => x <= d BY <1>1 DEF IsNext
<1>3. ASSUME a = b PROVE n = x
  BY <1>1, <1>2, <1>3 DEF IsNext
<1>4. ASSUME n = x PROVE a = b
  <2>1. b < x /\ \A d \in S : b < d => x <= d BY <1>1, <1>4 DEF IsNext
  <2>2. ~(a < b) BY <1>1, <1>2, <2>1 DEF Nil
  <2>3. ~(b < a) BY <1>1, <1>2, <2>1 DEF Nil
  <2> QED BY <1>1, <2>2, <2>3
<1> QED BY <1>3, <1>4

(* Nothing lies between an element and its predecessor.                    *)
LEMMA PrevGap ==
  ASSUME NEW S \in SUBSET Positive, NEW x \in S, NEW p \in Nat, IsPrev(S, x, p)
  PROVE  p < x /\ \A d \in S : ~(p < d /\ d < x)
BY DEF IsPrev, Nil, Positive

-----------------------------------------------------------------------------
(* Facts about sets of entries.                                            *)
LEMMA EntryFacts ==
  ASSUME TypeOK
  PROVE  /\ Present \in SUBSET Positive /\ Present \subseteq Entries
         /\ \A h : Bucket(h) \in SUBSET Positive /\ Bucket(h) \subseteq Present
         /\ \A e \in Present : key[e] \in Keys /\ Hash[key[e]] \in Buckets
         /\ Entries \subseteq Positive /\ Pointers \subseteq Nat /\ Nil \in Nat
BY OrderedMapAssumption DEF Present, Bucket, TypeOK, Entries, Positive, Pointers, Nil

(* Steps that move no entry in or out and no link keep what the invariant  *)
(* says of list and chains.                                                *)
LEMMA StructureKept ==
  ASSUME Inv, UNCHANGED <<created, key, list, chains, cur>>, pc # "clear"
  PROVE  /\ Allocated' /\ Backwards' /\ ListExact' /\ ChainsExact'
         /\ Present' = Present /\ \A h : Bucket(h)' = Bucket(h)
<1>1. Present' = Present /\ \A h : Bucket(h)' = Bucket(h)
  BY DEF Present, Bucket
<1>2. Allocated' BY <1>1 DEF Inv, Allocated
<1>3. Backwards' BY <1>1 DEF Inv, Backwards, WayBack
<1>4. ListExact' BY <1>1 DEF Inv, ListExact
<1>5. ChainsExact' BY <1>1 DEF Inv, ChainsExact
<1> QED BY <1>1, <1>2, <1>3, <1>4, <1>5

(* A lookup begins at the head of its chain.                               *)
LEMMA CallInv ==
  ASSUME Inv, TypeOK', NEW k \in Keys, NEW v, NEW op \in Lookups, Call(op, k, v)
  PROVE  Inv'
<1>1. /\ Allocated' /\ Backwards' /\ ListExact' /\ ChainsExact'
      /\ \A h : Bucket(h)' = Bucket(h)
  BY StructureKept DEF Call
<1>2. pc' # "clear" /\ pc' # "next" BY DEF Call, Lookups
<1>3. Hash[Canon[k]] \in Buckets /\ arg'.key = k
  BY OrderedMapAssumption DEF Call
<1>4. Target' = Bucket(Hash[Canon[k]]) BY <1>1, <1>3 DEF Target
<1>5. IsNext(Target', Nil, entry')
  BY <1>3, <1>4 DEF Call, Inv, ChainsExact
<1>6. \A d \in Target' : ~(d <= Nil)
  BY <1>4, EntryFacts DEF Inv, Positive, Nil
<1>7. Walking'
  BY <1>5, <1>6 DEF Walking, Call
<1> QED BY <1>1, <1>2, <1>7 DEF Inv, Clearing, Tracking

(* One step along the chain.                                               *)
LEMMA WalkInv ==
  ASSUME Inv, TypeOK', Walk
  PROVE  Inv'
<1>1. /\ Allocated' /\ Backwards' /\ ListExact' /\ ChainsExact'
      /\ Present' = Present /\ \A h : Bucket(h)' = Bucket(h)
  BY StructureKept DEF Walk, Lookups
<1>2. pc' = pc /\ pc' # "clear" /\ pc' # "next" BY DEF Walk, Lookups
<1>3. Target' = Target BY <1>1 DEF Target, Walk
<1>4. entry \in Target /\ key[entry] # Canon[arg.key] /\ hPrev < entry
      /\ \A d \in Target : hPrev < d => entry <= d
  BY DEF Walk, Inv, Walking, IsNext, sought
<1>5. IsNext(Target, entry, hNext[entry])
  <2>1. entry \in Present /\ Target = Bucket(Hash[key[entry]])
    BY <1>4 DEF Target, Bucket
  <2> QED BY <2>1, <1>2 DEF Inv, ChainsExact
<1>6. \A d \in Target : d <= entry => key[d] # Canon[arg.key]
  <2>1. \A d \in Target : d \in Nat
    BY EntryFacts DEF Inv, Target, Positive
  <2>2. hPrev \in Nat BY EntryFacts DEF Inv, TypeOK
  <2>3. \A d \in Target : d <= entry => d <= hPrev \/ d = entry
    BY <1>4, <2>1, <2>2
  <2> QED BY <1>4, <2>3 DEF Inv, Walking, Walk
<1>7. Walking'
  BY <1>3, <1>4, <1>5, <1>6 DEF Walking, Walk
<1> QED BY <1>1, <1>2, <1>7 DEF Inv, Clearing, Tracking

(* Calls that end without touching keys or links.                          *)
LEMMA ReturnInv ==
  ASSUME Inv, TypeOK', SetFound \/ Get \/ Has \/ RemoveAbsent
  PROVE  Inv'
<1>1. /\ Allocated' /\ Backwards' /\ ListExact' /\ ChainsExact'
  BY StructureKept DEF SetFound, Get, Has, RemoveAbsent, found, absent
<1>2. pc' = "idle" BY DEF SetFound, Get, Has, RemoveAbsent, return
<1> QED BY <1>1, <1>2 DEF Inv, Clearing, Walking, Tracking, Lookups

(* newIter, and next of a closed iterator or at its beginning.             *)
LEMMA IterInv ==
  ASSUME Inv, TypeOK',
         (\E i \in Iterators, op \in IterOps : BeginIter(op, i)) \/ NewIter \/ NextClosed
  PROVE  Inv'
<1>1. CASE NewIter
  <2>1. Present' = Present /\ \A h : Bucket(h)' = Bucket(h)
    BY <1>1 DEF NewIter, Present, Bucket
  <2>2. Allocated'
    <3>1. \A j \in Iterators : cur'[j] <= created'
      BY <1>1 DEF NewIter, Inv, Allocated, TypeOK, Nil
    <3> QED BY <1>1, <2>1, <3>1 DEF NewIter, Inv, Allocated
  <2>3. Backwards' BY <1>1, <2>1 DEF NewIter, Inv, Backwards, WayBack
  <2>4. ListExact' /\ ChainsExact' BY <1>1, <2>1 DEF NewIter, Inv, ListExact, ChainsExact
  <2>5. pc' = "idle" BY <1>1 DEF NewIter, return
  <2> QED BY <2>2, <2>3, <2>4, <2>5 DEF Inv, Clearing, Walking, Tracking, Lookups
<1>2. CASE NextClosed
  <2>1. /\ Allocated' /\ Backwards' /\ ListExact' /\ ChainsExact'
    BY <1>2, StructureKept DEF NextClosed
  <2>2. pc' = "idle" BY <1>2 DEF NextClosed, return
  <2> QED BY <2>1, <2>2 DEF Inv, Clearing, Walking, Tracking, Lookups
<1>3. ASSUME NEW i \in Iterators, NEW op \in IterOps, BeginIter(op, i) PROVE Inv'
  <2>1. /\ Allocated' /\ Backwards' /\ ListExact' /\ ChainsExact' /\ Present' = Present
    BY <1>3, StructureKept DEF BeginIter
  <2>2. pc' # "clear" /\ pc' \notin Lookups
    BY <1>3 DEF BeginIter, Lookups, IterOps
  <2>3. Tracking'
    <3>1. arg'.iter = i /\ UNCHANGED iters /\ (pc' = "next" => entry' = cur[i])
      BY <1>3 DEF BeginIter
    <3>2. cur[i] \in Nat BY EntryFacts DEF Inv, TypeOK
    <3>3. \A d \in Present : d \in Nat BY EntryFacts DEF Inv, Positive
    <3> QED BY <2>1, <3>1, <3>2, <3>3 DEF Tracking
  <2> QED BY <2>1, <2>2, <2>3 DEF Inv, Clearing, Walking
<1> QED BY <1>1, <1>2, <1>3

(* One step back over a deleted entry.                                     *)
LEMMA TrackBackInv ==
  ASSUME Inv, TypeOK', TrackBack
  PROVE  Inv'
<1>1. /\ Allocated' /\ Backwards' /\ ListExact' /\ ChainsExact' /\ Present' = Present
  BY StructureKept DEF TrackBack
<1>2. pc' = "next" BY DEF TrackBack
<1> DEFINE i == arg.iter
<1>3. i \in Iterators /\ cur[i] \in Nat /\ cur[i] <= created /\ created \in Nat
  BY EntryFacts DEF TrackBack, Inv, TypeOK, Allocated, IterOps
<1>4. entry \in Entries /\ entry \in Nat /\ 1 <= entry /\ entry <= cur[i]
      /\ entry \notin Present
  BY EntryFacts DEF TrackBack, deleted, Inv, TypeOK, Pointers, Tracking, Present, Positive, Nil
<1>5. iterPrev[entry] \in Nat BY <1>4, EntryFacts DEF Inv, TypeOK
<1>6. entry \in 1..created \ Present BY <1>3, <1>4
<1>7. iterPrev[entry] < entry
      /\ \A d \in Present : ~(iterPrev[entry] < d /\ d < entry)
  BY <1>6 DEF Inv, Backwards, WayBack
<1>8. \A d \in Present : d \in Nat BY EntryFacts DEF Inv, Positive
<1>9. \A d \in Present : ~(entry < d /\ d <= cur[i])
  BY DEF TrackBack, Inv, Tracking
<1>10. \A d \in Present : ~(iterPrev[entry] < d /\ d <= cur[i])
  <2> SUFFICES ASSUME NEW d \in Present, iterPrev[entry] < d, d <= cur[i] PROVE FALSE
    OBVIOUS
  <2>1. d \in Nat /\ d # entry BY <1>4, <1>8
  <2>2. CASE d < entry BY <1>7, <2>2
  <2>3. CASE entry < d BY <1>9, <2>3
  <2> QED BY <1>4, <2>1, <2>2, <2>3
<1>11. Tracking'
  BY <1>1, <1>3, <1>4, <1>5, <1>7, <1>9, <1>10 DEF Tracking, TrackBack, Inv
<1> QED BY <1>1, <1>2, <1>11 DEF Inv, Clearing, Walking, Lookups

(* next returns: only the iterator changes.                                *)
LEMMA NextReturnsInv ==
  ASSUME Inv, TypeOK', NextReturns
  PROVE  Inv'
<1> DEFINE n == IF entry # Nil THEN iterNext[entry] ELSE iterFirst
           i == arg.iter
<1>1. Present' = Present /\ \A h : Bucket(h)' = Bucket(h)
  BY DEF NextReturns, Present, Bucket
<1>2. pc = "next" /\ pc' = "idle" BY DEF NextReturns, return
<1>3. n \in Present \cup {Nil}
  <2>1. CASE entry = Nil BY <2>1, <1>2 DEF Inv, ListExact, IsNext
  <2>2. CASE entry # Nil
    <3>1. entry \in Present
      BY <2>2 DEF NextReturns, deleted, Inv, TypeOK, Pointers, Present
    <3> QED BY <2>2, <3>1, <1>2 DEF Inv, ListExact, IsNext
  <2> QED BY <2>1, <2>2
<1>4. n <= created
  <2>1. \A e \in Present : e <= created
    BY EntryFacts DEF Inv, Allocated, Present, Positive, TypeOK
  <2>2. Nil <= created BY DEF Inv, TypeOK, Nil
  <2> QED BY <1>3, <2>1, <2>2
<1>5. cur' = [cur EXCEPT ![i] = n] /\ UNCHANGED <<list, chains, content>>
  BY DEF NextReturns
<1> HIDE DEF n
<1>6. \A j \in Iterators : cur'[j] <= created'
  BY <1>4, <1>5 DEF Inv, Allocated, TypeOK
<1>7. Allocated' BY <1>1, <1>5, <1>6 DEF Inv, Allocated
<1>8. Backwards' BY <1>1, <1>5 DEF Inv, Backwards, WayBack
<1>9. ListExact' /\ ChainsExact' BY <1>1, <1>2, <1>5 DEF Inv, ListExact, ChainsExact
<1> QED BY <1>2, <1>7, <1>8, <1>9 DEF Inv, Clearing, Walking, Tracking, Lookups

(* clear begins at the head of the list ...                                *)
LEMMA ClearInv ==
  ASSUME Inv, TypeOK', Clear
  PROVE  Inv'
<1>1. /\ Allocated' /\ Backwards' /\ Present' = Present
  BY StructureKept DEF Clear
<1>2. pc' = "clear" /\ pc = "idle" BY DEF Clear
<1>3. Clearing' BY <1>1, <1>2 DEF Clear, Clearing, Inv, ListExact
<1> QED BY <1>1, <1>2, <1>3 DEF Inv, ListExact, ChainsExact, Walking, Tracking, Lookups

(* ... empties the first entry that is left, ...                           *)
LEMMA ClearItemInv ==
  ASSUME Inv, TypeOK', ClearItem
  PROVE  Inv'
<1>1. pc = "clear" /\ pc' = "clear" /\ entry # Nil BY DEF ClearItem
<1>2. /\ entry \in Present /\ \A d \in Present : entry <= d
      /\ IsNext(Present, Nil, entry) /\ IsNext(Present, entry, iterNext[entry])
  <2>1. IsNext(Present, Nil, entry) BY <1>1 DEF Inv, Clearing
  <2>2. entry \in Present BY <1>1, <2>1 DEF IsNext
  <2>3. \A d \in Present : Nil < d BY EntryFacts DEF Inv, Positive, Nil
  <2> QED BY <1>1, <2>1, <2>2, <2>3 DEF IsNext, Inv, Clearing
<1>3. Present' = Present \ {entry}
  BY <1>2 DEF ClearItem, Present, Inv, TypeOK
<1>4. Present \in SUBSET Positive /\ entry \in Entries /\ entry <= created
  BY <1>2, EntryFacts DEF Inv, Allocated, Present, Positive, TypeOK
<1>5. iterPrev[entry] < entry /\ iterPrev[entry] \in Nat
  BY <1>4, EntryFacts DEF Inv, Backwards, TypeOK
<1>6. iterPrev[entry] \notin Present BY <1>2, <1>4, <1>5 DEF Positive
<1>7. \A e \in Present : iterNext'[e] = iterNext[e] /\ iterNext[e] \in Nat
  BY <1>6, EntryFacts DEF ClearItem, Inv, TypeOK
<1>8. Clearing'
  <2>1. \A e \in Present \ {entry} : IsNext(Present \ {entry}, e, iterNext'[e])
    <3> SUFFICES ASSUME NEW e \in Present, e # entry
                 PROVE  IsNext(Present \ {entry}, e, iterNext[e])
      BY <1>7
    <3>1. IsNext(Present, e, iterNext[e]) BY <1>1 DEF Inv, Clearing
    <3>2. entry < e BY <1>2, <1>4 DEF Positive
    <3>3. iterNext[e] # entry BY <1>2, <1>4, <3>1, <3>2 DEF IsNext, Positive, Nil
    <3> QED BY <3>1, <3>3 DEF IsNext
  <2>2. IsNext(Present \ {entry}, Nil, iterNext[entry])
    BY <1>2, <1>4, <1>7, NextDel DEF Nil, Positive
  <2> QED BY <1>3, <2>1, <2>2 DEF Clearing, ClearItem
<1>9. Allocated'
  <2>1. \A e \in Entries : created < e =>
          key'[e] = NoKey /\ iterNext'[e] = Nil /\ hNext'[e] = Nil
    BY <1>5 DEF ClearItem, Inv, Allocated, TypeOK, Pointers
  <2>2. \A d, e \in Present' : key'[d] = key'[e] => d = e
    BY <1>3, <1>4 DEF ClearItem, Inv, Allocated, TypeOK, Present
  <2> QED BY <2>1, <2>2 DEF ClearItem, Inv, Allocated
<1>10. Backwards'
  <2>1. WayBack'
    <3> SUFFICES ASSUME NEW e \in 1..created, e \notin Present'
                 PROVE  iterPrev[e] < e /\ \A d \in Present' : ~(iterPrev[e] < d /\ d < e)
      BY DEF WayBack, ClearItem
    <3>1. CASE e = entry BY <1>2, <1>3, <1>4, <1>5, <3>1 DEF Positive
    <3>2. CASE e # entry
      <4>1. e \in 1..created \ Present BY <1>3, <3>2
      <4> QED BY <4>1, <1>3 DEF Inv, Backwards, WayBack
    <3> QED BY <3>1, <3>2
  <2> QED BY <2>1 DEF Backwards, Inv, ClearItem
<1> QED BY <1>1, <1>8, <1>9, <1>10
        DEF Inv, ListExact, ChainsExact, Walking, Tracking, Lookups

(* ... and resets the heads when nothing is left.                          *)
LEMMA ClearDoneInv ==
  ASSUME Inv, TypeOK', ClearDone
  PROVE  Inv'
<1>1. pc = "clear" /\ entry = Nil /\ pc' = "idle" BY DEF ClearDone, reset
<1>2. Present = {}
  BY <1>1, EntryFacts DEF Inv, Clearing, IsNext, Positive, Nil
<1>3. Present' = {} /\ \A h : Bucket(h)' = {}
  BY <1>2 DEF ClearDone, reset, Present, Bucket
<1>4. Allocated' BY <1>3 DEF ClearDone, reset, Inv, Allocated
<1>5. Backwards' BY <1>2, <1>3 DEF ClearDone, reset, Inv, Backwards, WayBack
<1>6. ListExact' /\ ChainsExact'
  BY <1>3 DEF ClearDone, reset, ListExact, ChainsExact, IsNext, IsLast, Nil
<1> QED BY <1>1, <1>4, <1>5, <1>6 DEF Inv, Clearing, Walking, Tracking, Lookups

(* A new entry goes to the end of its chain and of the list.               *)
LEMMA SetAbsentInv ==
  ASSUME Inv, TypeOK', SetAbsent
  PROVE  Inv'
<1> DEFINE m == created + 1
           k == Canon[arg.key]
           hh == Hash[k]
           NewBucket(h) == {e \in Present' : Hash[key'[e]] = h}
<1>0. /\ pc = "set" /\ entry = Nil /\ pc' = "idle" /\ created < MaxEntries
      /\ created' = m /\ key' = [key EXCEPT ![m] = k] /\ chain(m) /\ link(m)
      /\ UNCHANGED iters
  BY DEF SetAbsent, absent, return
<1>1. /\ m \in Entries /\ m \in Positive /\ created \in Nat
      /\ k \in Keys /\ hh \in Buckets /\ k # NoKey
  BY <1>0, OrderedMapAssumption DEF Inv, TypeOK, Entries, Positive, Lookups
<1>m. m = created + 1 /\ k = Canon[arg.key] /\ hh = Hash[k]
  OBVIOUS
<1> HIDE DEF m, k, hh
<1>2. /\ Present \in SUBSET Positive /\ \A d \in Present : d < m
      /\ m \notin Present /\ key[m] = NoKey /\ iterNext[m] = Nil /\ hNext[m] = Nil
  BY <1>1, <1>m, EntryFacts DEF Inv, Allocated, Present, Positive
<1>3. Present' = Present \cup {m} /\ \A d \in Present : key'[d] = key[d]
  BY <1>0, <1>1, <1>2 DEF Present, Inv, TypeOK
<1>4. \A h : NewBucket(h) = IF h = hh THEN Bucket(h) \cup {m} ELSE Bucket(h)
  <2>1. key'[m] = k BY <1>0, <1>1 DEF Inv, TypeOK
  <2> QED BY <1>3, <1>m, <2>1 DEF Bucket
<1> HIDE DEF NewBucket
<1>5. /\ hPrev \in Target \cup {Nil} /\ Target = Bucket(hh)
      /\ IsLast(Bucket(hh), hPrev) /\ \A d \in Bucket(hh) : key[d] # k
  <2>1. /\ hPrev \in Target \cup {Nil} /\ IsNext(Target, hPrev, Nil)
        /\ \A d \in Target : d <= hPrev => key[d] # k
    BY <1>0, <1>m DEF Inv, Walking, Lookups
  <2>2. Target = Bucket(hh) BY <1>m DEF Target
  <2>3. \A d \in Target : d \in Positive BY <2>2, EntryFacts DEF Inv
  <2>4. \A d \in Target : d <= hPrev BY <2>1, <2>3 DEF IsNext, Positive, Nil
  <2> QED BY <2>1, <2>2, <2>3, <2>4 DEF IsLast, Positive, Nil
<1>6. Allocated'
  <2>1. \A e \in Entries : m < e =>
          key'[e] = NoKey /\ iterNext'[e] = Nil /\ hNext'[e] = Nil
    <3> SUFFICES ASSUME NEW e \in Entries, m < e
                 PROVE  key'[e] = NoKey /\ iterNext'[e] = Nil /\ hNext'[e] = Nil
      OBVIOUS
    <3>1. created < e /\ e # m /\ e \notin Present
      BY <1>1, <1>2, <1>m DEF Entries
    <3>2. e # iterLast /\ e # hPrev
      <4>1. e # Nil BY DEF Entries, Nil
      <4>2. hPrev \in Present \cup {Nil} BY <1>5 DEF Bucket
      <4>3. iterLast \in Present \cup {Nil} BY <1>0 DEF Inv, ListExact, IsLast
      <4> QED BY <3>1, <4>1, <4>2, <4>3
    <3> QED BY <1>0, <3>1, <3>2 DEF Inv, Allocated, chain, link, TypeOK
  <2>2. \A i \in Iterators : cur'[i] <= m
    BY <1>0, <1>1, <1>m, EntryFacts DEF Inv, Allocated, TypeOK
  <2>3. \A d, e \in Present' : key'[d] = key'[e] => d = e
    <3>1. key'[m] = k BY <1>0, <1>1 DEF Inv, TypeOK
    <3>2. \A d \in Present : key[d] # k BY <1>5, <1>m DEF Bucket
    <3>3. \A d, e \in Present : key[d] = key[e] => d = e BY DEF Inv, Allocated
    <3> QED BY <1>3, <3>1, <3>2, <3>3
  <2> QED BY <1>0, <2>1, <2>2, <2>3 DEF Allocated
<1>7. ListExact'
  <2>1. /\ IsNext(Present, Nil, iterFirst) /\ IsLast(Present, iterLast)
        /\ \A e \in Present : IsNext(Present, e, iterNext[e]) /\ IsPrev(Present, e, iterPrev[e])
    BY <1>0 DEF Inv, ListExact
  <2>2. /\ iterFirst \in Nat /\ iterLast \in Nat
        /\ \A e \in Present : iterNext[e] \in Nat /\ iterPrev[e] \in Nat
    BY EntryFacts DEF Inv, TypeOK
  <2>3. IsNext(Present', Nil, iterFirst')
    <3>1. iterFirst = Nil <=> iterLast = Nil
      <4>1. \A d \in Present : ~(d <= Nil) /\ d # Nil BY <1>2 DEF Nil, Positive
      <4>2. CASE Present = {} BY <2>1, <4>2 DEF IsNext, IsLast
      <4>3. CASE Present # {} BY <2>1, <4>1, <4>3 DEF IsNext, IsLast
      <4> QED BY <4>2, <4>3
    <3>2. Nil < m /\ Nil \in Nat BY <1>1 DEF Nil, Positive
    <3>3. IsNext(Present \cup {m}, Nil, IF iterFirst = Nil THEN m ELSE iterFirst)
      BY <1>1, <1>2, <2>1, <2>2, <3>2, NextAdd
    <3> QED BY <1>0, <1>3, <3>1, <3>3 DEF link
  <2>4. IsLast(Present', iterLast') /\ IsNext(Present', m, Nil) /\ IsPrev(Present', m, iterLast)
    BY <1>0, <1>1, <1>2, <1>3, <2>1, <2>2, PrevAdd DEF link
  <2>5. iterNext'[m] = Nil /\ iterPrev'[m] = iterLast
    <3>1. iterLast # m BY <1>1, <1>2, <2>1 DEF IsLast, Nil, Positive
    <3> QED BY <1>0, <1>1, <1>2, <3>1 DEF link, Inv, TypeOK
  <2>6. ASSUME NEW e \in Present
        PROVE  IsNext(Present', e, iterNext'[e]) /\ IsPrev(Present', e, iterPrev'[e])
    <3>1. iterLast = e <=> iterNext[e] = Nil BY <1>2, <2>1, <2>2, FirstLast
    <3>2. IsNext(Present \cup {m}, e, IF iterNext[e] = Nil THEN m ELSE iterNext[e])
      BY <1>1, <1>2, <2>1, <2>2, NextAdd DEF Positive
    <3>3. iterNext'[e] = IF iterNext[e] = Nil THEN m ELSE iterNext[e]
      <4>1. e \in Entries /\ e # Nil BY EntryFacts DEF Inv, Positive, Nil
      <4> QED BY <1>0, <3>1, <4>1 DEF link, Inv, TypeOK
    <3>4. iterPrev'[e] = iterPrev[e]
      BY <1>0, <1>2, EntryFacts DEF link, Inv, TypeOK
    <3>5. IsPrev(Present', e, iterPrev[e]) BY <1>1, <1>2, <1>3, <2>1, <2>2, PrevAdd
    <3> QED BY <1>3, <3>2, <3>3, <3>4, <3>5
  <2> QED BY <1>3, <2>3, <2>4, <2>5, <2>6 DEF ListExact
<1>8. ChainsExact'
  <2>1. /\ \A h \in Buckets : IsNext(Bucket(h), Nil, hashTable[h])
        /\ \A e \in Present : IsNext(Bucket(Hash[key[e]]), e, hNext[e])
    BY <1>0 DEF Inv, ChainsExact
  <2>2. /\ Bucket(hh) \in SUBSET Positive /\ Bucket(hh) \subseteq Present
        /\ \A d \in Bucket(hh) : d < m
    BY <1>2, EntryFacts DEF Inv
  <2>3. ASSUME NEW h \in Buckets PROVE IsNext(NewBucket(h), Nil, hashTable'[h])
    <3>1. CASE h # hh
      <4>1. hashTable'[h] = hashTable[h] BY <1>0, <1>m, <3>1 DEF chain, Inv, TypeOK
      <4> QED BY <1>4, <2>1, <3>1, <4>1
    <3>2. CASE h = hh
      <4>1. hPrev = Nil <=> hashTable[hh] = Nil
        BY <1>1, <1>5, <2>1, <2>2 DEF IsNext, IsLast, Nil, Positive
      <4>2. hashTable'[hh] = IF hashTable[hh] = Nil THEN m ELSE hashTable[hh]
        BY <1>0, <1>1, <1>m, <4>1 DEF chain, Inv, TypeOK
      <4>3. hashTable[hh] \in Nat BY <1>1, EntryFacts DEF Inv, TypeOK
      <4>4. IsNext(Bucket(hh) \cup {m}, Nil, IF hashTable[hh] = Nil THEN m ELSE hashTable[hh])
        <5>1. Nil \in Nat /\ Nil < m /\ IsNext(Bucket(hh), Nil, hashTable[hh])
          BY <1>1, <2>1 DEF Nil, Positive
        <5> QED BY <1>1, <2>2, <4>3, <5>1, NextAdd
      <4> QED BY <1>4, <3>2, <4>2, <4>4
    <3> QED BY <3>1, <3>2
  <2>4. IsNext(NewBucket(Hash[key'[m]]), m, hNext'[m])
    <3>1. key'[m] = k BY <1>0, <1>1 DEF Inv, TypeOK
    <3>2. hPrev # m BY <1>2, <1>5, <1>1, <2>2 DEF Nil, Positive
    <3>3. hNext'[m] = Nil BY <1>0, <1>1, <1>2, <3>2 DEF chain, Inv, TypeOK
    <3>4. IsNext(Bucket(hh) \cup {m}, m, Nil) BY <1>1, <2>2, PrevAdd
    <3> QED BY <1>m, <1>4, <3>1, <3>3, <3>4
  <2>5. ASSUME NEW e \in Present PROVE IsNext(NewBucket(Hash[key'[e]]), e, hNext'[e])
    <3>1. key'[e] = key[e] /\ e \in Entries /\ e # Nil
      BY <1>3, EntryFacts DEF Inv, Positive, Nil
    <3>2. CASE Hash[key[e]] # hh
      <4>1. e # hPrev BY <1>5, <3>1, <3>2 DEF Bucket
      <4>2. hNext'[e] = hNext[e] BY <1>0, <3>1, <4>1 DEF chain, Inv, TypeOK
      <4>3. NewBucket(Hash[key'[e]]) = Bucket(Hash[key[e]]) BY <1>4, <3>1, <3>2
      <4> QED BY <2>1, <4>2, <4>3
    <3>3. CASE Hash[key[e]] = hh
      <4>1. e \in Bucket(hh) BY <3>3 DEF Bucket
      <4>2. hNext[e] \in Nat BY <3>1, EntryFacts DEF Inv, TypeOK
      <4>3. hNext[e] = Nil <=> hPrev = e
        BY <1>5, <2>1, <2>2, <3>3, <4>1 DEF IsNext, IsLast, Nil, Positive
      <4>4. hNext'[e] = IF hNext[e] = Nil THEN m ELSE hNext[e]
        BY <1>0, <3>1, <4>3 DEF chain, Inv, TypeOK
      <4>5. IsNext(Bucket(hh) \cup {m}, e, IF hNext[e] = Nil THEN m ELSE hNext[e])
        BY <1>1, <2>1, <2>2, <3>3, <4>1, <4>2, NextAdd DEF Positive
      <4>6. NewBucket(Hash[key'[e]]) = Bucket(hh) \cup {m} BY <1>4, <3>1, <3>3
      <4> QED BY <4>4, <4>5, <4>6
    <3> QED BY <3>2, <3>3
  <2> QED BY <1>3, <2>3, <2>4, <2>5 DEF ChainsExact, Bucket, NewBucket
<1>9. Backwards'
  <2>1. iterLast < m
    <3>1. IsLast(Present, iterLast) BY <1>0 DEF Inv, ListExact
    <3>2. Nil < m BY <1>1 DEF Nil, Positive
    <3> QED BY <1>2, <3>1, <3>2 DEF IsLast
  <2>2. \A e \in Entries : iterPrev'[e] = IF e = m THEN iterLast ELSE iterPrev[e]
    BY <1>0, <1>1 DEF link, Inv, TypeOK
  <2>3. \A e \in Entries : e <= m => iterPrev'[e] < e
    BY <1>1, <1>m, <2>1, <2>2 DEF Inv, Backwards, Entries
  <2>4. WayBack'
    <3> SUFFICES ASSUME NEW e \in 1..m, e \notin Present'
                 PROVE  iterPrev'[e] < e /\ \A d \in Present' : ~(iterPrev'[e] < d /\ d < e)
      BY <1>0 DEF WayBack
    <3>1. e \in 1..created \ Present /\ e # m /\ e \in Entries
      <4>1. e # m /\ e \notin Present BY <1>3
      <4>2. e \in 1..created BY <1>1, <1>m, <4>1
      <4>3. e \in Entries BY <1>0, <1>1, <4>2, OrderedMapAssumption DEF Entries
      <4> QED BY <4>1, <4>2, <4>3
    <3>2. iterPrev[e] < e /\ \A d \in Present : ~(iterPrev[e] < d /\ d < e)
      BY <3>1 DEF Inv, Backwards, WayBack
    <3>3. iterPrev'[e] = iterPrev[e] BY <2>2, <3>1
    <3>4. ~(m < e) BY <1>1 DEF Positive
    <3> QED BY <1>3, <3>2, <3>3, <3>4
  <2> QED BY <1>0, <2>3, <2>4 DEF Backwards
<1> QED BY <1>0, <1>6, <1>7, <1>8, <1>9 DEF Inv, Clearing, Walking, Tracking, Lookups

(* A removed entry is bypassed in its chain and in the list, in both       *)
(* directions.                                                             *)
LEMMA RemoveFoundInv ==
  ASSUME Inv, TypeOK', RemoveFound
  PROVE  Inv'
<1> DEFINE x == entry
           hh == Hash[Canon[arg.key]]
           NewBucket(h) == {e \in Present' : Hash[key'[e]] = h}
<1>0. /\ pc = "remove" /\ pc' = "idle" /\ x # Nil /\ key[x] = Canon[arg.key]
      /\ key' = [key EXCEPT ![x] = NoKey] /\ unlink /\ unchain
      /\ UNCHANGED <<created, iters>>
  BY DEF RemoveFound, found, sought, return
<1>1. /\ x \in Entries /\ x \in Present /\ x \in Positive /\ hh \in Buckets /\ hh = Hash[key[x]]
      /\ Present \in SUBSET Positive
  <2>1. arg.key \in Keys BY <1>0 DEF Inv, TypeOK, Lookups
  <2>2. x \in Entries BY <1>0 DEF Inv, TypeOK, Pointers
  <2>3. key[x] \in Keys /\ hh \in Buckets
    BY <1>0, <2>1, OrderedMapAssumption
  <2> QED BY <1>0, <2>2, <2>3, EntryFacts, OrderedMapAssumption DEF Inv, Present
<1>2. Present' = Present \ {x} /\ \A d \in Present \ {x} : key'[d] = key[d]
  BY <1>0, <1>1 DEF Present, Inv, TypeOK
<1>3. \A h : NewBucket(h) = Bucket(h) \ {x}
  BY <1>2 DEF Bucket
<1> HIDE DEF NewBucket
<1>4. /\ IsNext(Present, Nil, iterFirst) /\ IsLast(Present, iterLast)
      /\ \A e \in Present : IsNext(Present, e, iterNext[e]) /\ IsPrev(Present, e, iterPrev[e])
  BY <1>0 DEF Inv, ListExact
<1>5. /\ iterFirst \in Nat /\ iterLast \in Nat
      /\ \A e \in Entries : /\ iterNext[e] \in Nat /\ iterPrev[e] \in Nat
                            /\ hNext[e] \in Nat
      /\ Present \subseteq Entries
  BY EntryFacts DEF Inv, TypeOK
<1> DEFINE p == iterPrev[x]
           n == iterNext[x]
<1>6. /\ IsPrev(Present, x, p) /\ IsNext(Present, x, n) /\ p \in Nat /\ n \in Nat
      /\ p \in Present \cup {Nil} /\ n \in Present \cup {Nil} /\ p # x /\ n # x
  <2>1. IsPrev(Present, x, p) /\ IsNext(Present, x, n) /\ p \in Nat /\ n \in Nat
    BY <1>1, <1>4, <1>5
  <2>2. p \in Present \cup {Nil} /\ n \in Present \cup {Nil}
    BY <2>1 DEF IsNext, IsPrev
  <2>3. x \in Nat /\ x # 0 BY <1>1 DEF Positive
  <2>4. p # x BY <2>1, <2>3 DEF IsPrev, Nil
  <2>5. n # x BY <2>1, <2>3 DEF IsNext, Nil
  <2> QED BY <2>1, <2>2, <2>4, <2>5
<1>7. /\ iterNext' = IF p # Nil THEN [iterNext EXCEPT ![p] = n] ELSE iterNext
      /\ iterFirst' = IF p # Nil THEN iterFirst ELSE n
      /\ iterPrev' = IF n # Nil THEN [iterPrev EXCEPT ![n] = p] ELSE iterPrev
      /\ iterLast' = IF n # Nil THEN iterLast ELSE p
  BY <1>0 DEF unlink
<1> HIDE DEF p, n
<1>8. ListExact'
  <2>1. IsNext(Present \ {x}, Nil, iterFirst')
    <3>1. iterFirst = x <=> p = Nil BY <1>1, <1>4, <1>5, <1>6, FirstLast
    <3>2. IsNext(Present \ {x}, Nil, IF iterFirst = x THEN n ELSE iterFirst)
      BY <1>1, <1>4, <1>5, <1>6, NextDel DEF Nil
    <3> QED BY <1>7, <3>1, <3>2
  <2>2. IsLast(Present \ {x}, iterLast')
    <3>1. iterLast = x <=> n = Nil BY <1>1, <1>4, <1>5, <1>6, FirstLast
    <3>2. IsLast(Present \ {x}, IF iterLast = x THEN p ELSE iterLast)
      BY <1>1, <1>4, <1>5, <1>6, PrevDel
    <3> QED BY <1>7, <3>1, <3>2
  <2>3. ASSUME NEW e \in Present \ {x}
        PROVE  IsNext(Present \ {x}, e, iterNext'[e]) /\ IsPrev(Present \ {x}, e, iterPrev'[e])
    <3>0. e \in Entries /\ e \in Nat /\ e # Nil
      BY <1>1, <1>5 DEF Nil, Positive
    <3>1. iterNext[e] = x <=> p = e BY <1>1, <1>4, <1>5, <1>6, <3>0, NextPrev
    <3>2. iterPrev[e] = x <=> n = e BY <1>1, <1>4, <1>5, <1>6, <3>0, NextPrev
    <3>3. iterNext'[e] = IF iterNext[e] = x THEN n ELSE iterNext[e]
      BY <1>7, <3>0, <3>1 DEF Inv, TypeOK
    <3>4. iterPrev'[e] = IF iterPrev[e] = x THEN p ELSE iterPrev[e]
      BY <1>7, <3>0, <3>2 DEF Inv, TypeOK
    <3>5. IsNext(Present \ {x}, e, IF iterNext[e] = x THEN n ELSE iterNext[e])
      BY <1>1, <1>4, <1>5, <1>6, <3>0, NextDel
    <3>6. IsPrev(Present \ {x}, e, IF iterPrev[e] = x THEN p ELSE iterPrev[e])
      BY <1>1, <1>4, <1>5, <1>6, <3>0, PrevDel
    <3> QED BY <3>3, <3>4, <3>5, <3>6
  <2> QED BY <1>2, <2>1, <2>2, <2>3 DEF ListExact
<1>9. ChainsExact'
  <2>1. /\ \A h \in Buckets : IsNext(Bucket(h), Nil, hashTable[h]) /\ hashTable[h] \in Nat
        /\ \A e \in Present : IsNext(Bucket(Hash[key[e]]), e, hNext[e])
    BY <1>0, EntryFacts DEF Inv, ChainsExact, TypeOK
  <2>2. /\ Bucket(hh) \in SUBSET Positive /\ x \in Bucket(hh)
        /\ IsNext(Bucket(hh), x, hNext[x]) /\ hNext[x] \in Nat
    BY <1>1, <1>5, <2>1, EntryFacts DEF Inv, Bucket
  <2>3. hPrev \in Bucket(hh) \cup {Nil} /\ IsNext(Bucket(hh), hPrev, x) /\ hPrev \in Nat
    BY <1>0, EntryFacts DEF Inv, Walking, Target, Lookups, TypeOK
  <2>4. ASSUME NEW h \in Buckets PROVE IsNext(NewBucket(h), Nil, hashTable'[h])
    <3>1. CASE h # hh
      <4>1. hashTable'[h] = hashTable[h] BY <1>0, <3>1 DEF unchain, Inv, TypeOK
      <4>2. x \notin Bucket(h) BY <1>1, <3>1 DEF Bucket
      <4>3. NewBucket(h) = Bucket(h) BY <1>3, <4>2
      <4> QED BY <2>1, <4>1, <4>3
    <3>2. CASE h = hh
      <4>1. hPrev = Nil <=> hashTable[hh] = x
        <5>1. IsNext(Bucket(hh), Nil, hashTable[hh]) /\ hashTable[hh] \in Nat
          BY <1>1, <2>1
        <5> QED BY <2>2, <2>3, <5>1, SameNext
      <4>2. hashTable'[hh] = IF hashTable[hh] = x THEN hNext[x] ELSE hashTable[hh]
        BY <1>0, <1>1, <4>1 DEF unchain, Inv, TypeOK
      <4>3. IsNext(Bucket(hh) \ {x}, Nil, IF hashTable[hh] = x THEN hNext[x] ELSE hashTable[hh])
        BY <1>1, <2>1, <2>2, NextDel DEF Nil
      <4> QED BY <1>3, <3>2, <4>2, <4>3
    <3> QED BY <3>1, <3>2
  <2>5. ASSUME NEW e \in Present \ {x} PROVE IsNext(NewBucket(Hash[key'[e]]), e, hNext'[e])
    <3>1. key'[e] = key[e] /\ e \in Entries /\ e \in Nat /\ e # Nil
      BY <1>1, <1>2, <1>5 DEF Positive, Nil
    <3>2. CASE Hash[key[e]] # hh
      <4>1. e # hPrev /\ x \notin Bucket(Hash[key[e]])
        BY <1>1, <2>3, <3>1, <3>2 DEF Bucket
      <4>2. hNext'[e] = hNext[e] BY <1>0, <3>1, <4>1 DEF unchain, Inv, TypeOK
      <4>3. NewBucket(Hash[key'[e]]) = Bucket(Hash[key[e]]) BY <1>3, <3>1, <4>1
      <4> QED BY <2>1, <4>2, <4>3
    <3>3. CASE Hash[key[e]] = hh
      <4>1. e \in Bucket(hh) BY <3>3 DEF Bucket
      <4>2. hNext[e] \in Nat /\ IsNext(Bucket(hh), e, hNext[e]) BY <1>5, <2>1, <3>1, <3>3
      <4>3. hNext[e] = x <=> hPrev = e
        BY <2>2, <2>3, <4>1, <4>2, SameNext
      <4>4. hNext'[e] = IF hNext[e] = x THEN hNext[x] ELSE hNext[e]
        BY <1>0, <3>1, <4>3 DEF unchain, Inv, TypeOK
      <4>5. IsNext(Bucket(hh) \ {x}, e, IF hNext[e] = x THEN hNext[x] ELSE hNext[e])
        BY <2>2, <3>1, <4>2, NextDel
      <4>6. NewBucket(Hash[key'[e]]) = Bucket(hh) \ {x} BY <1>3, <3>1, <3>3
      <4> QED BY <4>4, <4>5, <4>6
    <3> QED BY <3>2, <3>3
  <2> QED BY <1>2, <2>4, <2>5 DEF ChainsExact, Bucket, NewBucket
<1>10. Allocated'
  <2>1. ASSUME NEW e \in Entries, created < e
        PROVE  key'[e] = NoKey /\ iterNext'[e] = Nil /\ hNext'[e] = Nil
    <3>1. e \notin Present BY <2>1 DEF Inv, Allocated, Present
    <3>2. e # p /\ e # hPrev /\ e # x
      <4>1. e # Nil BY DEF Entries, Nil
      <4>2. hPrev \in Present \cup {Nil}
        BY <1>0 DEF Inv, Walking, Target, Bucket, Lookups
      <4> QED BY <1>1, <1>6, <3>1, <4>1, <4>2
    <3> QED BY <1>0, <1>7, <2>1, <3>2 DEF unchain, Inv, Allocated, TypeOK
  <2>2. \A d, e \in Present' : key'[d] = key'[e] => d = e
    BY <1>2 DEF Inv, Allocated
  <2> QED BY <1>0, <2>1, <2>2 DEF Inv, Allocated
<1>11. Backwards'
  <2>1. \A e \in Entries : iterPrev'[e] = IF e = n /\ n # Nil THEN p ELSE iterPrev[e]
    BY <1>7 DEF Inv, TypeOK
  <2>2. p < x BY <1>1, <1>6 DEF IsPrev, Nil, Positive
  <2>3. n # Nil => x < n BY <1>1, <1>6 DEF IsNext, Nil, Positive
  <2>4. \A e \in Entries : e <= created => iterPrev'[e] < e
    <3>1. n # Nil => p < n BY <1>1, <1>6, <2>2, <2>3 DEF Positive
    <3> QED BY <2>1, <3>1 DEF Inv, Backwards
  <2>5. WayBack'
    <3> SUFFICES ASSUME NEW e \in 1..created, e \notin Present'
                 PROVE  iterPrev'[e] < e /\ \A d \in Present' : ~(iterPrev'[e] < d /\ d < e)
      BY <1>0 DEF WayBack
    <3>1. e \in Entries /\ e <= created BY OrderedMapAssumption DEF Inv, TypeOK, Entries
    <3>2. e # n \/ n = Nil BY <1>2, <1>6
    <3>3. iterPrev'[e] = iterPrev[e] BY <2>1, <3>1, <3>2
    <3>4. CASE e = x
      <4>1. \A d \in Present : ~(p < d /\ d < x)
        BY <1>1, <1>6, PrevGap
      <4> QED BY <1>2, <2>2, <3>3, <3>4, <4>1 DEF p
    <3>5. CASE e # x
      <4>1. e \in 1..created \ Present BY <1>2, <3>5
      <4> QED BY <1>2, <3>3, <4>1 DEF Inv, Backwards, WayBack
    <3> QED BY <3>4, <3>5
  <2> QED BY <1>0, <2>4, <2>5 DEF Backwards
<1> QED BY <1>0, <1>8, <1>9, <1>10, <1>11 DEF Inv, Clearing, Walking, Tracking, Lookups

-----------------------------------------------------------------------------
(* The map of newOrderedMap satisfies the invariant.                       *)
LEMMA InitInv == Init => Inv
<1> SUFFICES ASSUME Init PROVE Inv
  OBVIOUS
<1>1. TypeOK
  BY OrderedMapAssumption
  DEF Init, TypeOK, Pointers, Nil, Lookups, IterOps, Missing, Result, Results, NoArg
<1>2. Present = {} /\ \A h : Bucket(h) = {} BY DEF Init, Present, Bucket
<1>3. Allocated BY <1>2 DEF Init, Allocated, Nil
<1>4. Backwards BY <1>2 DEF Init, Backwards, WayBack, Entries
<1>5. ListExact /\ ChainsExact
  BY <1>2 DEF Init, ListExact, ChainsExact, IsNext, IsLast
<1> QED BY <1>1, <1>3, <1>4, <1>5 DEF Init, Inv, Clearing, Walking, Tracking, Lookups

(* Every step keeps it.                                                    *)
LEMMA InvStep == Inv /\ [Next]_vars => Inv'
<1> SUFFICES ASSUME Inv, [Next]_vars PROVE Inv'
  OBVIOUS
<1>0. TypeOK' BY TypeStep DEF Inv
<1>1. ASSUME NEW k \in Keys, NEW v, NEW op \in Lookups, Call(op, k, v) PROVE Inv'
  BY <1>0, <1>1, CallInv
<1>2. CASE (\E i \in Iterators, op \in IterOps : BeginIter(op, i)) \/ NewIter \/ NextClosed
  BY <1>0, <1>2, IterInv
<1>3. CASE Begin
  BY <1>0, <1>1, <1>2, <1>3, ClearInv DEF Begin, Lookups
<1>4. CASE Turn
  BY <1>0, <1>4, WalkInv, ReturnInv, SetAbsentInv, RemoveFoundInv, ClearItemInv,
     ClearDoneInv, TrackBackInv, NextReturnsInv, <1>2 DEF Turn
<1>5. CASE UNCHANGED vars
  <2>1. Present' = Present /\ \A h : Bucket(h)' = Bucket(h)
    BY <1>5 DEF vars, Present, Bucket
  <2>2. Allocated' /\ Backwards' BY <1>5, <2>1 DEF vars, Inv, Allocated, Backwards, WayBack
  <2>3. ListExact' /\ ChainsExact' BY <1>5, <2>1 DEF vars, Inv, ListExact, ChainsExact
  <2>4. Clearing' /\ Walking' /\ Tracking'
    BY <1>5, <2>1 DEF vars, Inv, Clearing, Walking, Target, Tracking
  <2> QED BY <1>0, <2>2, <2>3, <2>4 DEF Inv
<1> QED BY <1>3, <1>4, <1>5 DEF Next

(* The inductive invariant holds in every reachable state.                 *)
LEMMA InvHolds == Spec => []Inv
BY InitInv, InvStep, PTL DEF Spec

(* The links of map.go keep their types in every reachable state.          *)
THEOREM MapTypeCorrect == Spec => []TypeOK
<1>1. Inv => TypeOK BY DEF Inv
<1> QED BY <1>1, InvHolds, PTL

(* Every step keeps size equal to the number of entries.                   *)
LEMMA SizeStep == Inv /\ SizeExact /\ [Next]_vars => SizeExact'
<1> SUFFICES ASSUME Inv, SizeExact, [Next]_vars PROVE SizeExact'
  OBVIOUS
<1>0. IsFiniteSet(Present)
  <2>1. Present \in SUBSET (1..MaxEntries) /\ IsFiniteSet(1..MaxEntries)
    BY OrderedMapAssumption, FS_Interval DEF Present, Entries
  <2> QED BY <2>1, FS_Subset
<1>1. ASSUME UNCHANGED <<key, size>>, pc' # "clear" => pc # "clear" PROVE SizeExact'
  BY <1>1 DEF SizeExact, Present
<1>2. CASE SetAbsent
  <2> DEFINE m == created + 1
  <2>1. /\ pc = "set" /\ m \in Entries /\ key[m] = NoKey /\ size' = size + 1
        /\ key' = [key EXCEPT ![m] = Canon[arg.key]] /\ Canon[arg.key] # NoKey
    BY <1>2, OrderedMapAssumption
    DEF SetAbsent, absent, Inv, Allocated, TypeOK, Entries, Lookups
  <2> HIDE DEF m
  <2>2. Present' = Present \cup {m} /\ m \notin Present
    BY <2>1 DEF Present, Inv, TypeOK
  <2>3. Cardinality(Present') = Cardinality(Present) + 1
    BY <1>0, <2>2, FS_AddElement
  <2> QED BY <2>1, <2>3 DEF SizeExact
<1>3. CASE RemoveFound
  <2>1. /\ pc = "remove" /\ entry \in Present /\ size' = size - 1
        /\ key' = [key EXCEPT ![entry] = NoKey]
    BY <1>3, OrderedMapAssumption
    DEF RemoveFound, found, sought, Present, Inv, TypeOK, Pointers, Lookups
  <2>2. Present' = Present \ {entry}
    BY <2>1 DEF Present, Inv, TypeOK
  <2>3. Cardinality(Present') = Cardinality(Present) - 1
    BY <1>0, <2>1, <2>2, FS_RemoveElement
  <2> QED BY <2>1, <2>3 DEF SizeExact
<1>4. CASE ClearDone
  <2>1. Present = {}
    BY <1>4, EntryFacts DEF ClearDone, reset, Inv, Clearing, IsNext, Positive, Nil
  <2>2. Present' = {} /\ size' = 0
    BY <1>4, <2>1 DEF ClearDone, reset, Present
  <2> QED BY <2>2, FS_EmptySet DEF SizeExact
<1>5. CASE Clear \/ ClearItem
  BY <1>5 DEF Clear, ClearItem, SizeExact
<1> QED BY <1>1, <1>2, <1>3, <1>4, <1>5
        DEF Next, Begin, Turn, Call, Walk, Get, Has, SetFound, RemoveAbsent, found, absent,
            return, BeginIter, NewIter, NextClosed, TrackBack, NextReturns, Lookups, IterOps,
            vars

(* However set, remove, clear and iterators are interleaved, the doubly    *)
(* linked list and the hash chains hold exactly the present entries, in    *)
(* order, size is their number, and deleted entries lead an iterator back  *)
(* to where it has been.                                                   *)
THEOREM LinksExact == Spec => []LinksAgree
<1>1. Init => SizeExact
  <2>1. ASSUME Init PROVE Present = {} /\ size = 0 BY <2>1 DEF Init, Present
  <2> QED BY <2>1, FS_EmptySet DEF SizeExact
<1>2. Inv /\ SizeExact => LinksAgree BY DEF Inv, Backwards, LinksAgree
<1> QED BY <1>1, <1>2, InvHolds, SizeStep, PTL DEF Spec

-----------------------------------------------------------------------------
(* The refinement.                                                         *)

Reached == [i \in Iterators |-> IF open[i] THEN cur[i] ELSE -1]

(* lookup ends at the entry of its key, and runs off the chain only when   *)
(* no entry has that key.                                                  *)
LEMMA LookupEnds ==
  ASSUME Inv, pc \in Lookups
  PROVE  /\ sought => entry \in Present /\ key[entry] = Canon[arg.key]
         /\ entry = Nil => \A e \in Present : key[e] # Canon[arg.key]
<1>1. arg.key \in Keys /\ Canon[arg.key] \in Keys
  BY OrderedMapAssumption DEF Inv, TypeOK
<1>2. ASSUME sought PROVE entry \in Present /\ key[entry] = Canon[arg.key]
  BY <1>1, <1>2, OrderedMapAssumption DEF sought, Present, Inv, TypeOK, Pointers
<1>3. ASSUME entry = Nil, NEW e \in Present, key[e] = Canon[arg.key] PROVE FALSE
  <2>1. e \in Target BY <1>3 DEF Target, Bucket
  <2>2. Nil \notin Target /\ IsNext(Target, hPrev, Nil)
    BY <1>3, EntryFacts DEF Inv, Walking, Target, Positive, Nil
  <2> QED BY <1>3, <2>1, <2>2 DEF IsNext, Inv, Walking
<1> QED BY <1>2, <1>3

(* Outside clear() the abstract map shows the concrete one.                *)
LEMMA ShownAs ==
  ASSUME pc # "clear"
  PROVE  /\ Shown(key, NoKey) = key /\ Shown(value, NoValue) = value
         /\ Abstract!Present = Present
         /\ \A k : Abstract!At(k) = {e \in Present : key[e] = Canon[k]}
BY DEF Shown, Abstract!Present, Abstract!Stamps, Abstract!At, Present, Entries

(* What a call that replaces, inserts, reads or removes does is what the   *)
(* abstract map does.                                                      *)
LEMMA LookupRefines ==
  ASSUME Inv, SetFound \/ SetAbsent \/ Get \/ Has \/ RemoveFound \/ RemoveAbsent
  PROVE  Abstract!Step
<1> DEFINE k == arg.key
<1>0. pc \in Lookups /\ pc # "clear" /\ pc' = "idle" /\ UNCHANGED iters
  BY DEF SetFound, SetAbsent, Get, Has, RemoveFound, RemoveAbsent, found, absent, Lookups, return
<1>2. /\ Shown(key, NoKey) = key /\ Shown(value, NoValue) = value
      /\ Shown(key, NoKey)' = key' /\ Shown(value, NoValue)' = value'
  BY <1>0 DEF Shown
<1>3. Reached' = Reached BY <1>0 DEF Reached
<1>4. /\ sought => entry \in Abstract!At(k)
      /\ entry = Nil => Abstract!At(k) = {}
  BY <1>0, ShownAs, LookupEnds
<1>r. \A f, a, v : Abstract!Result(f, a, v) = Result(f, a, v)
  BY DEF Abstract!Result, Result
<1>m. Abstract!Missing = Missing
  BY <1>r DEF Abstract!Missing, Missing
<1>a. Abstract!NoArg = NoArg BY DEF Abstract!NoArg, NoArg
<1>5. CASE SetFound
  <2>1. Abstract!Replace
    BY <1>2, <1>3, <1>4, <1>5, <1>a
    DEF SetFound, found, return, Abstract!Replace, Abstract!Returns, Reached
  <2> QED BY <2>1 DEF Abstract!Step
<1>6. CASE SetAbsent
  <2>1. Abstract!Insert
    BY <1>2, <1>3, <1>4, <1>6, <1>a
    DEF SetAbsent, absent, return, Abstract!Insert, Abstract!Returns, Reached
  <2> QED BY <2>1 DEF Abstract!Step
<1>7. CASE Get
  <2>1. \/ entry \in Abstract!At(k) /\ ret' = Result(TRUE, NoKey, value[entry])
        \/ Abstract!At(k) = {} /\ ret' = Missing
    BY <1>4, <1>7 DEF Get, found, absent
  <2>2. Abstract!Returns("get") BY <1>7, <1>a DEF Get, found, absent, return, Abstract!Returns
  <2>3. Abstract!Lookup
    BY <1>2, <1>3, <1>7, <1>r, <1>m, <2>1, <2>2
    DEF Get, Abstract!Lookup, Abstract!map, Reached
  <2> QED BY <2>3 DEF Abstract!Step
<1>8. CASE Has
  <2>1. ret' = Result(Abstract!At(k) # {}, NoKey, NoValue)
    <3>1. (entry # Nil) = (Abstract!At(k) # {})
      BY <1>4, <1>8 DEF Has, found, absent, sought
    <3>2. ret' = Result(entry # Nil, NoKey, NoValue) BY <1>8 DEF Has
    <3> QED BY <3>1, <3>2
  <2>2. Abstract!Returns("has") BY <1>8, <1>a DEF Has, found, absent, return, Abstract!Returns
  <2>3. Abstract!Has
    BY <1>2, <1>3, <1>8, <1>r, <2>1, <2>2 DEF Has, Abstract!Has, Abstract!map, Reached
  <2> QED BY <2>3 DEF Abstract!Step
<1>9. CASE RemoveFound
  <2>1. entry \in Abstract!At(k) /\ ret' = Result(TRUE, NoKey, NoValue)
    BY <1>4, <1>9 DEF RemoveFound, found
  <2>2. Abstract!Returns("remove")
    BY <1>9, <1>a DEF RemoveFound, found, return, Abstract!Returns
  <2>3. Abstract!Remove
    BY <1>2, <1>3, <1>9, <1>r, <2>1, <2>2 DEF RemoveFound, Abstract!Remove, Reached
  <2> QED BY <2>3 DEF Abstract!Step
<1>10. CASE RemoveAbsent
  <2>1. Abstract!Remove
    BY <1>2, <1>3, <1>4, <1>10, <1>m, <1>a
    DEF RemoveAbsent, absent, return, Abstract!Remove, Abstract!Returns, Reached
  <2> QED BY <2>1 DEF Abstract!Step
<1> QED BY <1>5, <1>6, <1>7, <1>8, <1>9, <1>10

(* The entry an iterator takes next is the earliest one present after the  *)
(* entry it returned last, and none is there when it closes.               *)
LEMMA IterRefines ==
  ASSUME Inv, NewIter \/ NextClosed \/ NextReturns
  PROVE  Abstract!Step
<1>0. pc # "clear" /\ pc' = "idle" /\ UNCHANGED <<created, key, value>>
  BY DEF NextReturns, NewIter, NextClosed, return
<1>2. /\ Shown(key, NoKey) = key /\ Shown(value, NoValue) = value
      /\ Shown(key, NoKey)' = key' /\ Shown(value, NoValue)' = value'
  BY <1>0 DEF Shown
<1>r. \A f, a, v : Abstract!Result(f, a, v) = Result(f, a, v)
  BY DEF Abstract!Result, Result
<1>m. Abstract!Missing = Missing
  BY <1>r DEF Abstract!Missing, Missing
<1>a. Abstract!NoArg = NoArg BY DEF Abstract!NoArg, NoArg
<1>u. UNCHANGED Abstract!map
  BY <1>0, <1>2 DEF Abstract!map
<1>l. \A i : Abstract!Later(i) = {e \in Present : Reached[i] >= 0 /\ e > Reached[i]}
  BY <1>0, ShownAs DEF Abstract!Later, Reached
<1>3. CASE NewIter
  <2>1. Reached' = [Reached EXCEPT ![arg.iter] = 0]
    BY <1>3 DEF NewIter, Reached, Inv, TypeOK, Nil
  <2>2. Abstract!NewIter
    BY <1>a, <1>u, <1>3, <2>1
    DEF NewIter, return, Abstract!NewIter, Abstract!Returns, Reached
  <2> QED BY <2>2 DEF Abstract!Step
<1>4. CASE NextClosed
  <2>0. arg.iter \in Iterators BY <1>4 DEF NextClosed, Inv, TypeOK, IterOps
  <2>1. Reached[arg.iter] = -1 /\ Reached' = [Reached EXCEPT ![arg.iter] = -1]
    BY <1>4, <2>0 DEF NextClosed, Reached
  <2>2. Abstract!Later(arg.iter) = {} BY <1>l, <2>1
  <2>3. Abstract!Next
    BY <1>a, <1>m, <1>u, <1>4, <2>1, <2>2
    DEF NextClosed, return, Abstract!Next, Abstract!Returns, Reached
  <2> QED BY <2>3 DEF Abstract!Step
<1>5. CASE NextReturns
  <2> DEFINE i == arg.iter
             n == IF entry # Nil THEN iterNext[entry] ELSE iterFirst
  <2>1. /\ pc = "next" /\ i \in Iterators /\ open[i] /\ entry \in Nat /\ cur[i] \in Nat
        /\ entry <= cur[i] /\ \A d \in Present : ~(entry < d /\ d <= cur[i])
    BY <1>5, EntryFacts DEF NextReturns, Inv, TypeOK, Tracking, IterOps
  <2>2. \/ n # Nil /\ cur' = [cur EXCEPT ![i] = n] /\ UNCHANGED open
           /\ ret' = Result(TRUE, key[n], value[n])
        \/ n = Nil /\ cur' = [cur EXCEPT ![i] = Nil] /\ open' = [open EXCEPT ![i] = FALSE]
           /\ ret' = Missing
    BY <1>5 DEF NextReturns
  <2>3. n \in Nat /\ IsNext(Present, entry, n)
    <3>1. CASE entry = Nil BY <2>1, <3>1, EntryFacts DEF Inv, TypeOK, ListExact
    <3>2. CASE entry # Nil
      <4>1. entry \in Present
        BY <1>5, <3>2 DEF NextReturns, deleted, Present, Inv, TypeOK, Pointers
      <4> QED BY <2>1, <3>2, <4>1, EntryFacts DEF Inv, TypeOK, ListExact
    <3> QED BY <3>1, <3>2
  <2>i. Abstract!Returns("next") BY <1>5, <1>a DEF NextReturns, return, Abstract!Returns
  <2> HIDE DEF n
  <2>4. Abstract!Later(i) = {d \in Present : d > entry}
    <3>1. Reached[i] = cur[i] BY <2>1 DEF Reached
    <3>2. \A d \in Present : d \in Nat BY EntryFacts DEF Inv, Positive
    <3>3. \A d \in Present : (Reached[i] >= 0 /\ d > Reached[i]) <=> d > entry
      BY <2>1, <3>1, <3>2
    <3> QED BY <1>l, <3>3
  <2>5. CASE n # Nil
    <3>1. n \in Abstract!Later(i) /\ \A d \in Abstract!Later(i) : n <= d
      <4>1. \A d \in Present : d \in Nat BY EntryFacts DEF Inv, Positive
      <4> QED BY <2>1, <2>3, <2>4, <2>5, <4>1 DEF IsNext
    <3>2. Reached' = [Reached EXCEPT ![i] = n]
      BY <2>1, <2>2, <2>5 DEF Reached, Inv, TypeOK
    <3>3. ret' = Result(TRUE, key[n], value[n]) BY <2>2, <2>5
    <3>4. Abstract!Next
      BY <1>2, <1>r, <1>u, <2>i, <3>1, <3>2, <3>3 DEF Abstract!Next, Reached
    <3> QED BY <3>4 DEF Abstract!Step
  <2>6. CASE n = Nil
    <3>1. Abstract!Later(i) = {}
      <4>1. \A d \in Present : d \in Nat /\ d # Nil BY EntryFacts DEF Inv, Positive, Nil
      <4> QED BY <2>1, <2>3, <2>4, <2>6, <4>1 DEF IsNext
    <3>2. Reached' = [Reached EXCEPT ![i] = -1]
      BY <2>1, <2>2, <2>6 DEF Reached, Inv, TypeOK
    <3>3. ret' = Missing BY <2>2, <2>6
    <3>4. Abstract!Next
      BY <1>m, <1>u, <2>i, <3>1, <3>2, <3>3 DEF Abstract!Next, Reached
    <3> QED BY <3>4 DEF Abstract!Step
  <2> QED BY <2>5, <2>6
<1> QED BY <1>3, <1>4, <1>5

(* A deleted entry holds no value.                                         *)
Emptied == \A e \in Entries : key[e] = NoKey => value[e] = NoValue

(* Every step keeps it so: set stores a value only under a key.            *)
LEMMA EmptiedStep == Inv /\ Emptied /\ [Next]_vars => Emptied'
<1> SUFFICES ASSUME Inv, Emptied, [Next]_vars PROVE Emptied'
  OBVIOUS
<1>1. CASE UNCHANGED <<key, value>> BY <1>1 DEF Emptied
<1>2. CASE SetFound
  <2>1. key[entry] # NoKey
    BY <1>2, OrderedMapAssumption DEF SetFound, found, sought, Inv, TypeOK, Lookups
  <2> QED BY <1>2, <2>1 DEF SetFound, Emptied, Inv, TypeOK
<1>3. CASE SetAbsent
  <2>1. Canon[arg.key] # NoKey
    BY <1>3, OrderedMapAssumption DEF SetAbsent, absent, Inv, TypeOK, Lookups
  <2> QED BY <1>3, <2>1 DEF SetAbsent, Emptied, Inv, TypeOK
<1>4. CASE RemoveFound BY <1>4 DEF RemoveFound, Emptied, Inv, TypeOK
<1>5. CASE ClearItem BY <1>5 DEF ClearItem, Emptied, Inv, TypeOK
<1> QED BY <1>1, <1>2, <1>3, <1>4, <1>5
        DEF Next, Begin, Turn, Call, Walk, Get, Has, RemoveAbsent, Clear, ClearDone, reset,
            BeginIter, NewIter, NextClosed, TrackBack, NextReturns, vars

(* clear() takes effect when it begins; what it then does to the entries   *)
(* is not seen.                                                            *)
LEMMA ClearRefines ==
  ASSUME Inv, Emptied, Clear \/ ClearItem \/ ClearDone
  PROVE  Abstract!Step \/ UNCHANGED Abstract!vars
<1>1. CASE Clear
  <2>1. Abstract!Clear
    BY <1>1
    DEF Clear, Shown, Inv, TypeOK, Abstract!Clear, Abstract!Begin, Abstract!Stamps, Entries,
        Abstract!NoArg, NoArg
  <2> QED BY <2>1 DEF Abstract!Step
<1>2. CASE ClearItem
  BY <1>2 DEF ClearItem, Shown, Abstract!vars, Abstract!map
<1>3. CASE ClearDone
  <2>1. Present = {}
    <3>1. IsNext(Present, Nil, Nil)
      BY <1>3 DEF ClearDone, reset, Inv, Clearing
    <3> QED BY <3>1, EntryFacts DEF IsNext, Inv, Positive, Nil
  <2>2. key = [e \in Entries |-> NoKey] /\ value = [e \in Entries |-> NoValue]
    BY <2>1 DEF Present, Emptied, Inv, TypeOK
  <2>3. Abstract!Cleared
    BY <1>3, <2>2
    DEF ClearDone, reset, Shown, Inv, TypeOK, Abstract!Cleared, Abstract!Returns, Abstract!map,
        Abstract!NoArg, NoArg
  <2> QED BY <2>3 DEF Abstract!Step
<1> QED BY <1>1, <1>2, <1>3

(* Map and Set are insertion-ordered maps: a call to the pointer structure *)
(* of map.go with certain arguments does to the entry of that key, or to   *)
(* that iterator, what the same call does in InsertionMap, and returns the *)
(* same, for any hash function and any interleaving of deletions with      *)
(* iterators under way.                                                    *)
THEOREM MapRefines == Spec => ImplementsMap
<1>1. Init => Abstract!Init
  BY DEF Init, Shown, Abstract!Init, Abstract!Stamps, Entries, Abstract!Missing,
         Abstract!Result, Missing, Result, Abstract!NoArg, NoArg
<1>2. Inv /\ Emptied /\ [Next]_vars => [Abstract!Step]_(Abstract!vars)
  <2> SUFFICES ASSUME Inv, Emptied, [Next]_vars PROVE Abstract!Step \/ UNCHANGED Abstract!vars
    OBVIOUS
  <2>1. CASE Begin
    <3>1. ASSUME NEW k \in Keys, NEW v \in Values \cup {NoValue}, NEW op \in Lookups,
                 op = "set" => v \in Values, op # "set" => v = NoValue, Call(op, k, v)
          PROVE  Abstract!BeginKey
      BY <3>1
      DEF Call, Shown, Lookups, Abstract!BeginKey, Abstract!Begin, Abstract!map
    <3>2. ASSUME NEW i \in Iterators, NEW op \in IterOps, BeginIter(op, i)
          PROVE  Abstract!BeginIter
      BY <3>2
      DEF BeginIter, Shown, IterOps, Abstract!BeginIter, Abstract!Begin, Abstract!map
    <3>3. CASE \E i \in Iterators, op \in IterOps : BeginIter(op, i)
      BY <3>2, <3>3 DEF Abstract!Step
    <3>4. CASE \E k \in Keys, v \in Values : created < MaxEntries /\ Call("set", k, v)
      BY <3>1, <3>4 DEF Abstract!Step, Lookups
    <3>5. CASE \E k \in Keys, op \in Lookups \ {"set"} : Call(op, k, NoValue)
      BY <3>1, <3>5 DEF Abstract!Step, Lookups
    <3> QED BY <2>1, <3>3, <3>4, <3>5, ClearRefines DEF Begin
  <2>2. CASE Turn
    <3>1. CASE Walk \/ TrackBack
      BY <3>1 DEF Walk, TrackBack, Shown, Abstract!vars, Abstract!map
    <3> QED BY <2>2, <3>1, LookupRefines, IterRefines, ClearRefines DEF Turn
  <2>3. CASE UNCHANGED vars
    BY <2>3 DEF vars, Shown, Abstract!vars, Abstract!map
  <2> QED BY <2>1, <2>2, <2>3 DEF Next
<1>3. Init => Emptied BY DEF Init, Emptied
<1> QED BY <1>1, <1>2, <1>3, InvHolds, EmptiedStep, PTL DEF Spec, ImplementsMap, Abstract!Spec
=============================================================================
