------------------------- MODULE CollectionsProofs -------------------------
(***************************************************************************)
(* Weak collections keep apart and iterators that are done stay done       *)
(* (HandlesApart); constructors and ForOf close their sources as they must *)
(* and take over what the source gave (SourcesConsumed): for any objects,  *)
(* values, arrays and numbers of calls in progress.                        *)
(*                                                                         *)
(* The frames of the calls carry the argument: what a frame says about its *)
(* source and its collection stays true while code of the user runs on top *)
(* of it, because a collection that is being made is not reached yet, and  *)
(* is made by one call (FrameInv).  The weak collections have different    *)
(* numbers, and no object has an entry under a number not given (WeakInv). *)
(***************************************************************************)
EXTENDS Collections, FiniteSetTheorems, TLAPS

(* What Append, SubSeq and EXCEPT do with a sequence whose elements have   *)
(* no common type: of the records of code of the user in a stack or a list *)
(* the model says only that they form a sequence.                          *)
IsSeq(s) == s \in Seq({s[i] : i \in DOMAIN s})

(* A sequence is one of its elements.                                      *)
LEMMA IsSequence ==
  ASSUME NEW q, NEW S, q \in Seq(S)
  PROVE  IsSeq(q)
<1> DEFINE T == {q[i] : i \in DOMAIN q}
<1>1. Len(q) \in Nat /\ DOMAIN q = 1..Len(q) /\ q \in [1..Len(q) -> S] OBVIOUS
<1>2. q \in [1..Len(q) -> T] BY <1>1
<1> HIDE DEF T
<1>3. q \in Seq(T) BY <1>1, <1>2
<1> QED BY <1>3 DEF T, IsSeq

LEMMA SameLength ==
  ASSUME NEW m \in Nat, NEW n \in Nat, 1..m = 1..n
  PROVE  m = n
<1>1. ASSUME m < n PROVE FALSE BY <1>1
<1>2. ASSUME n < m PROVE FALSE BY <1>2
<1> QED BY <1>1, <1>2

(* One element is appended.                                                *)
LEMMA AppendIs ==
  ASSUME NEW s, NEW e, IsSeq(s)
  PROVE  /\ IsSeq(Append(s, e))
         /\ Len(s) \in Nat /\ DOMAIN s = 1..Len(s)
         /\ DOMAIN Append(s, e) = 1..(Len(s) + 1)
         /\ Append(s, e)[Len(s) + 1] = e
         /\ \A i \in DOMAIN s : Append(s, e)[i] = s[i]
<1> DEFINE S == {s[i] : i \in DOMAIN s} \cup {e}
<1>1. s \in Seq(S) BY DEF IsSeq
<1>2. /\ Len(s) \in Nat /\ DOMAIN s = 1..Len(s)
      /\ Append(s, e) \in Seq(S) /\ Len(Append(s, e)) = Len(s) + 1
      /\ Append(s, e)[Len(s) + 1] = e
      /\ \A i \in DOMAIN s : Append(s, e)[i] = s[i]
  <2> HIDE DEF S
  <2> e \in S BY DEF S
  <2> QED BY <1>1
<1>3. DOMAIN Append(s, e) = 1..(Len(s) + 1) BY <1>2
<1>4. IsSeq(Append(s, e))
  <2> HIDE DEF S
  <2> QED BY <1>2, IsSequence
<1> QED BY <1>2, <1>3, <1>4

(* The last element is taken off.                                          *)
LEMMA PopIs ==
  ASSUME NEW s, IsSeq(s), s # <<>>
  PROVE  /\ Len(s) \in Nat \ {0} /\ DOMAIN s = 1..Len(s)
         /\ IsSeq(SubSeq(s, 1, Len(s) - 1))
         /\ DOMAIN SubSeq(s, 1, Len(s) - 1) = 1..(Len(s) - 1)
         /\ \A i \in 1..(Len(s) - 1) : SubSeq(s, 1, Len(s) - 1)[i] = s[i]
<1> DEFINE S == {s[i] : i \in DOMAIN s}
           q == SubSeq(s, 1, Len(s) - 1)
<1>1. s \in Seq(S) BY DEF IsSeq
<1>2. Len(s) \in Nat \ {0} /\ DOMAIN s = 1..Len(s)
  <2> HIDE DEF S
  <2> QED BY <1>1
<1>3. /\ q \in Seq(S) /\ Len(q) = Len(s) - 1
      /\ DOMAIN q = 1..(Len(s) - 1)
      /\ \A i \in 1..(Len(s) - 1) : q[i] = s[i]
  <2> HIDE DEF S
  <2> QED BY <1>1, <1>2
<1>4. IsSeq(q)
  <2> HIDE DEF S, q
  <2> QED BY <1>3, IsSequence
<1> QED BY <1>2, <1>3, <1>4

(* Elements change, none comes or goes.                                    *)
LEMMA SameShape ==
  ASSUME NEW s, NEW t, IsSeq(s), DOMAIN t = DOMAIN s, t = [i \in DOMAIN t |-> t[i]]
  PROVE  IsSeq(t)
<1> DEFINE S == {s[i] : i \in DOMAIN s}
           T == {t[i] : i \in DOMAIN t}
<1>1. s \in Seq(S) BY DEF IsSeq
<1>2. Len(s) \in Nat /\ DOMAIN s = 1..Len(s)
  <2> HIDE DEF S
  <2> QED BY <1>1
<1>3. t \in [1..Len(s) -> T] BY <1>2
<1> HIDE DEF T, S
<1>4. t \in Seq(T) BY <1>2, <1>3
<1> QED BY <1>4 DEF T, IsSeq

(* The last element is replaced.                                           *)
LEMMA ReplaceIs ==
  ASSUME NEW s, IsSeq(s), s # <<>>, NEW e
  PROVE  LET t == Append(SubSeq(s, 1, Len(s) - 1), e) IN
         /\ IsSeq(t) /\ Len(s) \in DOMAIN s /\ DOMAIN t = DOMAIN s
         /\ t[Len(s)] = e /\ \A i \in DOMAIN s \ {Len(s)} : t[i] = s[i]
<1> DEFINE q == SubSeq(s, 1, Len(s) - 1)
<1>1. /\ Len(s) \in Nat \ {0} /\ DOMAIN s = 1..Len(s)
      /\ IsSeq(q) /\ DOMAIN q = 1..(Len(s) - 1)
      /\ \A i \in 1..(Len(s) - 1) : q[i] = s[i]
  BY PopIs
<1> HIDE DEF q
<1>2. /\ IsSeq(Append(q, e)) /\ Len(q) \in Nat /\ DOMAIN q = 1..Len(q)
      /\ DOMAIN Append(q, e) = 1..(Len(q) + 1)
      /\ Append(q, e)[Len(q) + 1] = e
      /\ \A i \in DOMAIN q : Append(q, e)[i] = q[i]
  <2>1. IsSeq(q) BY <1>1
  <2> QED BY <2>1, AppendIs
<1>3. Len(q) = Len(s) - 1
  <2>1. 1..Len(q) = 1..(Len(s) - 1) /\ Len(q) \in Nat /\ Len(s) - 1 \in Nat
    <3>1. Len(q) \in Nat BY <1>2
    <3>2. Len(s) - 1 \in Nat BY <1>1
    <3>3. DOMAIN q = 1..Len(q) BY <1>2
    <3>4. DOMAIN q = 1..(Len(s) - 1) BY <1>1
    <3>5. 1..Len(q) = 1..(Len(s) - 1) BY ONLY <3>3, <3>4
    <3> QED BY ONLY <3>1, <3>2, <3>5
  <2> DEFINE n == Len(s) - 1
             m == Len(q)
  <2>2. 1..m = 1..n /\ m \in Nat /\ n \in Nat BY <2>1
  <2> HIDE DEF m, n
  <2>3. m = n BY <2>2, SameLength
  <2> QED BY <2>3 DEF m, n
<1> QED BY <1>1, <1>2, <1>3 DEF q

(* A sequence that is not empty is its front and its last element.         *)
LEMMA SplitIs ==
  ASSUME NEW s, IsSeq(s), s # <<>>
  PROVE  s = Append(SubSeq(s, 1, Len(s) - 1), s[Len(s)])
<1> DEFINE S == {s[i] : i \in DOMAIN s}
<1>1. s \in Seq(S) BY DEF IsSeq
<1> HIDE DEF S
<1> QED BY <1>1

(* What was appended is taken off.                                         *)
LEMMA FrontOfAppend ==
  ASSUME NEW s, NEW e, IsSeq(s)
  PROVE  /\ SubSeq(Append(s, e), 1, Len(Append(s, e)) - 1) = s
         /\ Append(s, e) # <<>> /\ Append(s, e)[Len(Append(s, e))] = e
<1> DEFINE S == {s[i] : i \in DOMAIN s} \cup {e}
<1>1. s \in Seq(S) /\ e \in S BY DEF IsSeq
<1> HIDE DEF S
<1>2. Append(s, e) \in Seq(S) /\ Len(Append(s, e)) = Len(s) + 1 /\ Len(s) \in Nat BY <1>1
<1>3. SubSeq(Append(s, e), 1, Len(s)) = s BY <1>1, <1>2
<1> QED BY <1>1, <1>2, <1>3

-----------------------------------------------------------------------------
(* The collections that have a number.                                     *)
WeakOnes == {c \in DOMAIN colls : Weak(colls[c].kind)}
Entered(c) == {o \in Objects : colls[c].id \in DOMAIN weakRefs[o]}
CollShape(c) == DOMAIN colls[c] = {"kind", "entries", "id", "reached"}

WeakInv ==
  /\ IsSeq(colls) /\ \A c \in DOMAIN colls : CollShape(c)
  /\ IsSeq(added) /\ DOMAIN added = DOMAIN colls
  /\ DOMAIN weakRefs = Objects
  /\ \A c \in WeakOnes : colls[c].id \in 1..Cardinality(WeakOnes)
  /\ \A c, d \in WeakOnes : colls[c].id = colls[d].id => c = d
  /\ \A o \in Objects : \A n \in DOMAIN weakRefs[o] : \E c \in WeakOnes : colls[c].id = n
  /\ \A c \in WeakOnes : added[c] = {<<o, weakRefs[o][colls[c].id]>> : o \in Entered(c)}
  /\ \A c \in WeakOnes : colls[c].kind = "WeakSet" => \A o \in Entered(c) : weakRefs[o][colls[c].id] = "nil"

(* An iterator that has said that it is done has forgotten its entry.      *)
WalkOk(w) ==
  /\ DOMAIN w = {"c", "at", "kind", "nil", "over"}
  /\ w.nil \in BOOLEAN /\ w.over \in BOOLEAN
  /\ w.over => w.nil
WalkInv == IsSeq(walks) /\ \A i \in DOMAIN walks : WalkOk(walks[i])
AnswerInv == answer # <<>> => (answer[2] => answer[3] = <<>>)

-----------------------------------------------------------------------------
(* The calls in progress.                                                  *)

FrameFields == {"op", "c", "own", "src", "at", "pc", "in", "got", "failed", "how"}
SourceFields == {"kind", "items", "walk", "has", "state", "returns"}
FrameShape(f) == DOMAIN f = FrameFields /\ DOMAIN f.src = SourceFields

(* A source is open until the call that has it fails, and then closed once. *)
SourceOk(f) ==
  IF f.in = "return"
  THEN f.src.state = "closed" /\ f.src.returns = 1 /\ f.src.has /\ f.failed /\ f.how # "returned"
  ELSE f.src.state = "open" /\ f.src.returns = 0 /\ ~f.failed

FrameOk(f) ==
  /\ FrameShape(f) /\ SourceOk(f)
  /\ f.op \in {"construct", "forOf", "forEach"}
  /\ f.op = "forEach" => f.src.kind \in {"map", "set"}
  /\ f.own \in BOOLEAN /\ (~f.own => f.op = "construct")
  /\ f.in \in {"adder", "step", "callback"} => f.own
  /\ IsSeq(f.got)
  /\ ~f.own /\ (f.in = "item" \/ f.failed) => f.got # <<>>

(* What a constructor with the adder of the prototype has made so far.     *)
Fills(f) == f.op = "construct" /\ ~f.own
Living(k, v) == [key |-> k, value |-> v, live |-> TRUE]
Whole(entries) == IsSeq(entries) /\ \A e \in DOMAIN entries : entries[e] = Living(entries[e].key, entries[e].value)
PairsOf(f, kind) == [i \in DOMAIN Taken(f) |-> Entry(kind, Taken(f)[i])]
Filled(f, coll) ==
  ~coll.reached /\ (~Weak(coll.kind) => Whole(coll.entries) /\ MadeOf(coll.entries, PairsOf(f, coll.kind)))

FrameInv ==
  /\ IsSeq(go)
  /\ \A n \in DOMAIN go : FrameOk(go[n])
  /\ \A n \in DOMAIN go : go[n].op = "construct" => go[n].c \in DOMAIN colls
  /\ \A n \in DOMAIN go : Fills(go[n]) => Filled(go[n], colls[go[n].c])
  /\ \A m, n \in DOMAIN go : go[m].op = "construct" /\ go[n].op = "construct" /\ go[m].c = go[n].c => m = n

(* A call that has ended.                                                  *)
EndedOk(f, coll, how) ==
  /\ f.src.state # "misused"
  /\ Fills(f) /\ ~Weak(coll.kind) => MadeOf(coll.entries, PairsOf(f, coll.kind))
  /\ f.src.kind = "foreign" =>
       /\ f.src.returns = (IF f.failed /\ f.src.has THEN 1 ELSE 0)
       /\ how = "returned" => f.src.state = "ended" /\ ~f.failed
LastInv == last # <<>> => EndedOk(last[1], colls[last[1].c], last[2])

CInv == WeakInv /\ WalkInv /\ AnswerInv /\ FrameInv /\ LastInv
-----------------------------------------------------------------------------
(* Weak collections.                                                       *)

(* Steps that make no collection and no weak entry.                        *)
LEMMA WeakStays ==
  ASSUME WeakInv, UNCHANGED <<weakRefs, added>>, IsSeq(colls'), DOMAIN colls' = DOMAIN colls,
         \A c \in DOMAIN colls :
           CollShape(c)' /\ colls'[c].kind = colls[c].kind /\ colls'[c].id = colls[c].id
  PROVE  WeakInv'
<1>1. IsSeq(colls)' BY DEF IsSeq
<1>2. WeakOnes' = WeakOnes BY DEF WeakOnes
<1>3. \A c \in WeakOnes : colls'[c].id = colls[c].id /\ colls'[c].kind = colls[c].kind BY DEF WeakOnes
<1>4. \A c \in WeakOnes : Entered(c)' = Entered(c) BY <1>3 DEF Entered
<1>5. IsSeq(added)' BY DEF WeakInv, IsSeq
<1>6. \A c \in WeakOnes : {<<o, weakRefs'[o][colls'[c].id]>> : o \in Entered(c)'} = {<<o, weakRefs[o][colls[c].id]>> : o \in Entered(c)}
  BY <1>3, <1>4
<1> QED BY <1>1, <1>2, <1>3, <1>4, <1>5, <1>6 DEF WeakInv

(* set and add, also in the constructors.                                  *)
LEMMA WeakAttaches ==
  ASSUME WeakInv, UNCHANGED colls, NEW c \in WeakOnes, NEW k \in Objects, NEW v,
         colls[c].kind = "WeakSet" => v = "nil",
         weakRefs' = Attach(weakRefs, colls[c].id, k, v),
         added' = [added EXCEPT ![c] = Without(added[c], k) \cup {<<k, v>>}]
  PROVE  WeakInv'
<1> DEFINE id == colls[c].id
<1>1. /\ DOMAIN weakRefs' = Objects
      /\ DOMAIN weakRefs'[k] = DOMAIN weakRefs[k] \cup {id}
      /\ weakRefs'[k][id] = v
      /\ \A i \in DOMAIN weakRefs[k] \ {id} : weakRefs'[k][i] = weakRefs[k][i]
      /\ \A o \in Objects \ {k} : weakRefs'[o] = weakRefs[o]
  BY DEF Attach, WeakInv
<1>2. WeakOnes' = WeakOnes BY DEF WeakOnes
<1>3. c \in DOMAIN added /\ c \in DOMAIN colls BY DEF WeakInv, WeakOnes
<1>4. /\ DOMAIN added' = DOMAIN added /\ added'[c] = Without(added[c], k) \cup {<<k, v>>}
      /\ \A d \in DOMAIN added \ {c} : added'[d] = added[d]
  BY <1>3
<1>5. IsSeq(added)'
  <2>1. added' = [i \in DOMAIN added' |-> added'[i]] OBVIOUS
  <2>2. IsSeq(added) BY DEF WeakInv
  <2>3. IsSeq(added') BY <1>4, <2>1, <2>2, SameShape
  <2> QED BY <2>3 DEF IsSeq
<1>6. \A d \in WeakOnes \ {c} : colls[d].id # id BY DEF WeakInv
<1>7. Entered(c)' = Entered(c) \cup {k} BY <1>1 DEF Entered
<1>8. \A d \in WeakOnes \ {c} : Entered(d)' = Entered(d) BY <1>1, <1>6 DEF Entered
<1> HIDE DEF id
<1>9. added'[c] = {<<o, weakRefs'[o][id]>> : o \in Entered(c)'}
  <2>1. added[c] = {<<o, weakRefs[o][id]>> : o \in Entered(c)} BY DEF WeakInv, id
  <2>2. \A o \in Entered(c) \ {k} : weakRefs'[o][id] = weakRefs[o][id] BY <1>1 DEF Entered
  <2>3. \A o \in Entered(c) : <<o, weakRefs[o][id]>>[1] = o OBVIOUS
  <2>4. Without(added[c], k) = {<<o, weakRefs[o][id]>> : o \in Entered(c) \ {k}} BY <2>1, <2>3 DEF Without
  <2>5. {<<o, weakRefs[o][id]>> : o \in Entered(c) \ {k}} = {<<o, weakRefs'[o][id]>> : o \in Entered(c) \ {k}} BY <2>2
  <2>6. {<<o, weakRefs'[o][id]>> : o \in Entered(c)'} = {<<o, weakRefs'[o][id]>> : o \in Entered(c) \ {k}} \cup {<<k, v>>} BY <1>1, <1>7
  <2> QED BY <1>4, <2>4, <2>5, <2>6
<1>10. ASSUME NEW d \in WeakOnes, d # c
       PROVE  added'[d] = {<<o, weakRefs'[o][colls[d].id]>> : o \in Entered(d)'}
  <2>1. added[d] = {<<o, weakRefs[o][colls[d].id]>> : o \in Entered(d)} BY DEF WeakInv
  <2>2. \A o \in Entered(d) : weakRefs'[o][colls[d].id] = weakRefs[o][colls[d].id] BY <1>1, <1>6, <1>10 DEF Entered
  <2>3. d \in DOMAIN added BY DEF WeakInv, WeakOnes
  <2> QED BY <1>4, <1>8, <1>10, <2>1, <2>2, <2>3
<1>11. \A d \in WeakOnes : added'[d] = {<<o, weakRefs'[o][colls'[d].id]>> : o \in Entered(d)'} BY <1>9, <1>10 DEF id
<1>12. ASSUME NEW d \in WeakOnes, colls[d].kind = "WeakSet", NEW o \in Entered(d)' PROVE weakRefs'[o][colls[d].id] = "nil"
  <2>1. o \in Objects BY DEF Entered
  <2>2. CASE d = c /\ o = k BY <1>1, <1>12, <2>2 DEF id
  <2>3. CASE d = c /\ o # k BY <1>1, <1>7, <1>12, <2>1, <2>3 DEF WeakInv, id
  <2>4. CASE d # c
    <3>1. o \in Entered(d) /\ colls[d].id # id BY <1>6, <1>8, <1>12, <2>4
    <3>2. weakRefs'[o][colls[d].id] = weakRefs[o][colls[d].id] BY <1>1, <2>1, <3>1 DEF Entered
    <3> QED BY <1>12, <3>1, <3>2 DEF WeakInv
  <2> QED BY <2>2, <2>3, <2>4
<1>13. \A o \in Objects : \A n \in DOMAIN weakRefs'[o] : \E d \in WeakOnes : colls[d].id = n
  BY <1>1 DEF WeakInv, id
<1>14. IsSeq(colls)' /\ \A d \in DOMAIN colls : CollShape(d)' BY DEF WeakInv, IsSeq, CollShape
<1> QED BY <1>1, <1>2, <1>4, <1>5, <1>11, <1>12, <1>13, <1>14 DEF WeakInv
(* delete                                                                  *)
LEMMA WeakDetaches ==
  ASSUME WeakInv, UNCHANGED colls, NEW c \in WeakOnes, NEW k \in Objects,
         weakRefs' = Detach(weakRefs, colls[c].id, k),
         added' = [added EXCEPT ![c] = Without(added[c], k)]
  PROVE  WeakInv'
<1> DEFINE id == colls[c].id
<1>1. /\ DOMAIN weakRefs' = Objects
      /\ DOMAIN weakRefs'[k] = DOMAIN weakRefs[k] \ {id}
      /\ \A i \in DOMAIN weakRefs[k] \ {id} : weakRefs'[k][i] = weakRefs[k][i]
      /\ \A o \in Objects \ {k} : weakRefs'[o] = weakRefs[o]
  BY DEF Detach, Restrict, WeakInv
<1>2. WeakOnes' = WeakOnes BY DEF WeakOnes
<1>3. c \in DOMAIN added /\ c \in DOMAIN colls BY DEF WeakInv, WeakOnes
<1>4. /\ DOMAIN added' = DOMAIN added /\ added'[c] = Without(added[c], k)
      /\ \A d \in DOMAIN added \ {c} : added'[d] = added[d]
  BY <1>3
<1>5. IsSeq(added)'
  <2>1. added' = [i \in DOMAIN added' |-> added'[i]] OBVIOUS
  <2>2. IsSeq(added) BY DEF WeakInv
  <2>3. IsSeq(added') BY <1>4, <2>1, <2>2, SameShape
  <2> QED BY <2>3 DEF IsSeq
<1>6. \A d \in WeakOnes \ {c} : colls[d].id # id BY DEF WeakInv
<1>7. Entered(c)' = Entered(c) \ {k} BY <1>1 DEF Entered
<1>8. \A d \in WeakOnes \ {c} : Entered(d)' = Entered(d) BY <1>1, <1>6 DEF Entered
<1> HIDE DEF id
<1>9. added'[c] = {<<o, weakRefs'[o][id]>> : o \in Entered(c)'}
  <2>1. added[c] = {<<o, weakRefs[o][id]>> : o \in Entered(c)} BY DEF WeakInv, id
  <2>2. \A o \in Entered(c) \ {k} : weakRefs'[o][id] = weakRefs[o][id] BY <1>1 DEF Entered
  <2>3. \A o \in Entered(c) : <<o, weakRefs[o][id]>>[1] = o OBVIOUS
  <2>4. Without(added[c], k) = {<<o, weakRefs[o][id]>> : o \in Entered(c) \ {k}} BY <2>1, <2>3 DEF Without
  <2>5. {<<o, weakRefs[o][id]>> : o \in Entered(c) \ {k}} = {<<o, weakRefs'[o][id]>> : o \in Entered(c) \ {k}} BY <2>2
  <2> QED BY <1>4, <1>7, <2>4, <2>5
<1>10. ASSUME NEW d \in WeakOnes, d # c
       PROVE  added'[d] = {<<o, weakRefs'[o][colls[d].id]>> : o \in Entered(d)'}
  <2>1. added[d] = {<<o, weakRefs[o][colls[d].id]>> : o \in Entered(d)} BY DEF WeakInv
  <2>2. \A o \in Entered(d) : weakRefs'[o][colls[d].id] = weakRefs[o][colls[d].id] BY <1>1, <1>6, <1>10 DEF Entered
  <2>3. d \in DOMAIN added BY DEF WeakInv, WeakOnes
  <2> QED BY <1>4, <1>8, <1>10, <2>1, <2>2, <2>3
<1>11. \A d \in WeakOnes : added'[d] = {<<o, weakRefs'[o][colls'[d].id]>> : o \in Entered(d)'} BY <1>9, <1>10 DEF id
<1>12. ASSUME NEW d \in WeakOnes, colls[d].kind = "WeakSet", NEW o \in Entered(d)' PROVE weakRefs'[o][colls[d].id] = "nil"
  <2>1. o \in Entered(d) BY <1>7, <1>8
  <2>2. weakRefs'[o][colls[d].id] = weakRefs[o][colls[d].id] BY <1>1, <1>7, <2>1 DEF Entered, id
  <2> QED BY <1>12, <2>1, <2>2 DEF WeakInv
<1>13. \A o \in Objects : \A n \in DOMAIN weakRefs'[o] : \E d \in WeakOnes : colls[d].id = n
  BY <1>1 DEF WeakInv
<1>14. IsSeq(colls)' /\ \A d \in DOMAIN colls : CollShape(d)' BY DEF WeakInv, IsSeq, CollShape
<1> QED BY <1>1, <1>2, <1>4, <1>5, <1>11, <1>12, <1>13, <1>14 DEF WeakInv

(* A constructor: the number of a weak collection has not been given.      *)
Made(kind) == [kind |-> kind, entries |-> <<>>, id |-> IF Weak(kind) THEN Number(kind) ELSE 0, reached |-> FALSE]
MadeAt(kind, n) ==
  /\ n \notin DOMAIN colls /\ DOMAIN colls' = DOMAIN colls \cup {n}
  /\ colls'[n] = Made(kind) /\ \A c \in DOMAIN colls : colls'[c] = colls[c]

LEMMA Numbers ==
  ASSUME IsSeq(colls), NEW kind
  PROVE  IsFiniteSet(WeakOnes) /\ Cardinality(WeakOnes) \in Nat /\ Number(kind) = Cardinality(WeakOnes) + 1
<1> DEFINE l == Len(colls)
<1>1. l \in Int /\ 1 \in Int /\ DOMAIN colls = 1..l BY AppendIs
<1> HIDE DEF l
<1>2. IsFiniteSet(1..l) BY ONLY <1>1, FS_Interval
<1>3. IsFiniteSet(WeakOnes) BY <1>1, <1>2, FS_Subset DEF WeakOnes
<1>4. Number(kind) = Cardinality(WeakOnes) + 1 BY DEF Number, WeakOnes
<1> QED BY <1>3, <1>4, FS_CardinalityType

LEMMA MakesAt ==
  ASSUME IsSeq(colls), NEW kind, colls' = Append(colls, Made(kind))
  PROVE  IsSeq(colls)' /\ MadeAt(kind, Len(colls) + 1)
<1>1. /\ IsSeq(colls') /\ Len(colls) \in Nat /\ DOMAIN colls = 1..Len(colls) /\ DOMAIN colls' = 1..(Len(colls) + 1)
      /\ colls'[Len(colls) + 1] = Made(kind) /\ \A c \in DOMAIN colls : colls'[c] = colls[c]
  BY AppendIs
<1> DEFINE l == Len(colls)
<1>2. l + 1 \notin DOMAIN colls /\ DOMAIN colls' = DOMAIN colls \cup {l + 1}
  <2>1. l \in Nat /\ DOMAIN colls = 1..l /\ DOMAIN colls' = 1..(l + 1) BY <1>1
  <2> HIDE DEF l
  <2> QED BY ONLY <2>1
<1> QED BY <1>1, <1>2 DEF MadeAt, IsSeq

(* Numbers up to w, and the next one.                                      *)
LEMMA NextNumber ==
  ASSUME NEW S, NEW n, n \notin S, NEW f, NEW w \in Nat,
         \A c \in S : f[c] \in 1..w, \A c, d \in S : f[c] = f[d] => c = d, f[n] = w + 1
  PROVE  /\ \A c \in S \cup {n} : f[c] \in 1..(w + 1)
         /\ \A c, d \in S \cup {n} : f[c] = f[d] => c = d
<1>1. \A c \in S : f[c] \in 1..(w + 1) /\ f[c] # w + 1 OBVIOUS
<1>2. w + 1 \in 1..(w + 1) OBVIOUS
<1> QED BY <1>1, <1>2

LEMMA WeakMade ==
  ASSUME WeakInv, NEW kind, colls' = Append(colls, Made(kind)), added' = Append(added, {}), UNCHANGED weakRefs
  PROVE  WeakInv' /\ MadeAt(kind, Len(colls) + 1)
<1> SUFFICES ASSUME NEW n, n = Len(colls) + 1 PROVE WeakInv' /\ MadeAt(kind, n)
  OBVIOUS
<1>1. IsSeq(colls)' /\ MadeAt(kind, n) BY MakesAt DEF WeakInv
<1>2. IsSeq(added)' /\ DOMAIN added' = DOMAIN colls' /\ added'[n] = {} /\ \A c \in DOMAIN colls : added'[c] = added[c]
  <2>1. IsSeq(added) /\ DOMAIN added = DOMAIN colls /\ IsSeq(colls) BY DEF WeakInv
  <2> DEFINE a == Len(added)
             l == Len(colls)
  <2>2. /\ IsSeq(added') /\ a \in Nat /\ DOMAIN added = 1..a /\ DOMAIN added' = 1..(a + 1)
        /\ added'[a + 1] = {} /\ \A c \in DOMAIN added : added'[c] = added[c]
    BY <2>1, AppendIs
  <2>3. l \in Nat /\ DOMAIN colls = 1..l /\ DOMAIN colls' = 1..(l + 1) BY <2>1, AppendIs
  <2>4. a = l
    <3> HIDE DEF a, l
    <3> QED BY <2>1, <2>2, <2>3, SameLength
  <2> QED BY <2>1, <2>2, <2>3, <2>4 DEF IsSeq
<1>3. /\ n \notin DOMAIN colls /\ DOMAIN colls' = DOMAIN colls \cup {n}
      /\ colls'[n] = Made(kind) /\ \A c \in DOMAIN colls : colls'[c] = colls[c]
  BY <1>1 DEF MadeAt
<1>4. \A c \in DOMAIN colls' : CollShape(c)'
  <2>1. CollShape(n)' BY <1>3, Zenon DEF CollShape, Made
  <2>2. \A c \in DOMAIN colls : CollShape(c)' BY <1>3 DEF WeakInv, CollShape
  <2> QED BY <1>3, <2>1, <2>2
<1>5. IsFiniteSet(WeakOnes) /\ Cardinality(WeakOnes) \in Nat /\ Number(kind) = Cardinality(WeakOnes) + 1 BY Numbers DEF WeakInv
<1>6. \A c \in WeakOnes : c \in DOMAIN colls /\ colls'[c] = colls[c] /\ added'[c] = added[c] /\ Entered(c)' = Entered(c)
  BY <1>2, <1>3 DEF WeakOnes, Entered
<1>7. \A c \in WeakOnes : added'[c] = {<<o, weakRefs'[o][colls'[c].id]>> : o \in Entered(c)'}
  <2> TAKE c \in WeakOnes
  <2>1. added[c] = {<<o, weakRefs[o][colls[c].id]>> : o \in Entered(c)} BY DEF WeakInv
  <2> QED BY <1>6, <2>1
<1>8. \A c \in WeakOnes : colls'[c].kind = "WeakSet" => \A o \in Entered(c)' : weakRefs'[o][colls'[c].id] = "nil"
  BY <1>6 DEF WeakInv
<1>9. \A o \in Objects : \A i \in DOMAIN weakRefs'[o] : \E c \in WeakOnes : colls'[c].id = i BY <1>6 DEF WeakInv
<1>10. DOMAIN weakRefs' = Objects BY DEF WeakInv
<1>11. CASE ~Weak(kind)
  <2>1. colls'[n].kind = kind BY <1>3 DEF Made
  <2>2. WeakOnes' = WeakOnes BY <1>3, <1>11, <2>1 DEF WeakOnes
  <2>3. \A c \in WeakOnes : colls'[c].id \in 1..Cardinality(WeakOnes) BY <1>6 DEF WeakInv
  <2>4. \A c, d \in WeakOnes : colls'[c].id = colls'[d].id => c = d BY <1>6 DEF WeakInv
  <2> QED BY <1>1, <1>2, <1>4, <1>7, <1>8, <1>9, <1>10, <2>2, <2>3, <2>4 DEF WeakInv
<1>12. CASE Weak(kind)
  <2>1. colls'[n].kind = kind /\ colls'[n].id = Cardinality(WeakOnes) + 1 BY <1>3, <1>5, <1>12 DEF Made
  <2>2. WeakOnes' = WeakOnes \cup {n} /\ n \notin WeakOnes BY <1>3, <1>12, <2>1 DEF WeakOnes
  <2>3. Cardinality(WeakOnes') = Cardinality(WeakOnes) + 1 BY <1>5, <2>2, FS_AddElement
  <2>4. /\ \A c \in WeakOnes' : colls'[c].id \in 1..Cardinality(WeakOnes')
        /\ \A c, d \in WeakOnes' : colls'[c].id = colls'[d].id => c = d
        /\ \A c \in WeakOnes : colls'[c].id # colls'[n].id
    <3> DEFINE f == [c \in WeakOnes' |-> colls'[c].id]
               w == Cardinality(WeakOnes)
               W == WeakOnes
               X == WeakOnes'
    <3>1. \A c \in X : f[c] = colls'[c].id OBVIOUS
    <3>2. X = W \cup {n} /\ n \notin W /\ Cardinality(X) = w + 1 /\ w \in Nat BY <1>5, <2>2, <2>3
    <3>3. \A c \in W : colls'[c].id \in 1..w BY <1>6 DEF WeakInv
    <3>4. \A c, d \in W : colls'[c].id = colls'[d].id => c = d BY <1>6 DEF WeakInv
    <3>5. colls'[n].id = w + 1 BY <2>1
    <3> HIDE DEF f, w, W, X
    <3>6. \A c \in W : f[c] \in 1..w BY <3>1, <3>2, <3>3
    <3>7. \A c, d \in W : f[c] = f[d] => c = d BY <3>1, <3>2, <3>4
    <3>8. f[n] = w + 1 BY <3>1, <3>2, <3>5
    <3>9. /\ \A c \in W \cup {n} : f[c] \in 1..(w + 1)
          /\ \A c, d \in W \cup {n} : f[c] = f[d] => c = d
      BY ONLY <3>2, <3>6, <3>7, <3>8, NextNumber
    <3>10. \A c \in X : colls'[c].id \in 1..Cardinality(X) BY ONLY <3>1, <3>2, <3>9
    <3>11. \A c, d \in X : colls'[c].id = colls'[d].id => c = d BY ONLY <3>1, <3>2, <3>9
    <3>12. \A c \in W : colls'[c].id # colls'[n].id BY ONLY <3>2, <3>11
    <3> QED BY <3>10, <3>11, <3>12 DEF W, X
  <2>5. Entered(n)' = {}
    <3> SUFFICES ASSUME NEW o \in Objects, colls'[n].id \in DOMAIN weakRefs'[o] PROVE FALSE BY DEF Entered
    <3>1. PICK c \in WeakOnes : colls'[c].id = colls'[n].id BY <1>9
    <3> QED BY <2>4, <3>1
  <2>6. added'[n] = {<<o, weakRefs'[o][colls'[n].id]>> : o \in Entered(n)'} BY <1>2, <2>5
  <2>7. \A c \in WeakOnes' : added'[c] = {<<o, weakRefs'[o][colls'[c].id]>> : o \in Entered(c)'}
    <3> TAKE c \in WeakOnes'
    <3>1. CASE c = n BY <2>6, <3>1
    <3>2. CASE c # n BY <1>7, <2>2, <3>2
    <3> QED BY <3>1, <3>2
  <2>8. \A c \in WeakOnes' : colls'[c].kind = "WeakSet" => \A o \in Entered(c)' : weakRefs'[o][colls'[c].id] = "nil"
    <3> TAKE c \in WeakOnes'
    <3>1. CASE c = n BY <2>5, <3>1
    <3>2. CASE c # n BY <1>8, <2>2, <3>2
    <3> QED BY <3>1, <3>2
  <2>9. \A o \in Objects : \A i \in DOMAIN weakRefs'[o] : \E c \in WeakOnes' : colls'[c].id = i BY <1>9, <2>2
  <2> QED BY <1>1, <1>2, <1>4, <1>10, <2>4, <2>7, <2>8, <2>9 DEF WeakInv
<1> QED BY <1>11, <1>12-----------------------------------------------------------------------------
(* The pairs a source gave, and the entries they make.                     *)

LEMMA LivingIs ==
  /\ \A k, v : Living(k, v).key = k
  /\ \A k, v : Living(k, v).value = v
  /\ \A k, v : Living(k, v).live
  /\ \A k, v, w : [Living(k, v) EXCEPT !.value = w] = Living(k, w)
<1>1. \A k, v, w : [Living(k, v) EXCEPT !.value = w] = Living(k, w)
  <2> TAKE k, v, w
  <2> DEFINE x == [key |-> k, value |-> v, live |-> TRUE]
             y == [x EXCEPT !.value = w]
             z == [key |-> k, value |-> w, live |-> TRUE]
  <2>1. DOMAIN y = {"key", "value", "live"} /\ y = [i \in DOMAIN y |-> y[i]] OBVIOUS
  <2>2. DOMAIN z = {"key", "value", "live"} /\ z = [i \in DOMAIN z |-> z[i]] OBVIOUS
  <2>3. y.key = z.key /\ y.value = z.value /\ y.live = z.live OBVIOUS
  <2>4. y = z
    <3> HIDE DEF x, y, z
    <3> QED BY <2>1, <2>2, <2>3
  <2> QED BY <2>4 DEF Living
<1>2. \A k, v : Living(k, v).key = k /\ Living(k, v).value = v /\ Living(k, v).live BY DEF Living
<1> QED BY <1>1, <1>2

LEMMA WholeLives ==
  ASSUME NEW E, Whole(E)
  PROVE  Alive(E) = DOMAIN E
<1>1. \A e \in DOMAIN E : E[e] = Living(E[e].key, E[e].value) BY DEF Whole
<1>2. \A e \in DOMAIN E : E[e].live BY <1>1, LivingIs
<1> QED BY <1>2 DEF Alive

(* MadeOf with the sets it ranges over.                                    *)
MadeIn(E, D, P, I) ==
  /\ \A i \in I : \E e \in D : E[e].key = P[i][1]
  /\ \A e \in D : \E i \in I : P[i][1] = E[e].key /\ P[i][2] = E[e].value /\ \A j \in I : i < j => P[j][1] # E[e].key
  /\ \A d, e \in D : d < e => \E i \in I : P[i][1] = E[d].key /\ \A j \in I : j <= i => P[j][1] # E[e].key
LEMMA MadeOfIn ==
  ASSUME NEW E, NEW P
  PROVE  MadeOf(E, P) <=> MadeIn(E, Alive(E), P, DOMAIN P)
BY Zenon DEF MadeOf, MadeIn

(* One more pair is set: its key is new, or has an entry already.          *)
LEMMA MadeOfMore ==
  ASSUME NEW E, Whole(E), NEW P, NEW m \in Nat, DOMAIN P = 1..m, MadeOf(E, P), NEW Q, DOMAIN Q = 1..(m + 1),
         \A i \in 1..m : Q[i] = P[i], NEW k, NEW v, Q[m + 1][1] = k, Q[m + 1][2] = v
  PROVE  Whole(Set(E, k, v)) /\ MadeOf(Set(E, k, v), Q)
<1> DEFINE D == DOMAIN E
           S == Set(E, k, v)
<1>1. IsSeq(E) /\ Alive(E) = D /\ Having(E, k) = {i \in D : E[i].key = k} BY WholeLives DEF Whole, Having
<1>2. /\ \A i \in 1..m : \E e \in D : E[e].key = P[i][1]
      /\ \A e \in D : \E i \in 1..m : P[i][1] = E[e].key /\ P[i][2] = E[e].value /\ \A j \in 1..m : i < j => P[j][1] # E[e].key
      /\ \A d, e \in D : d < e => \E i \in 1..m : P[i][1] = E[d].key /\ \A j \in 1..m : j <= i => P[j][1] # E[e].key
  <2>1. MadeIn(E, Alive(E), P, DOMAIN P) BY MadeOfIn
  <2>2. MadeIn(E, D, P, 1..m) BY <1>1, <2>1
  <2> HIDE DEF D
  <2> QED BY <2>2 DEF MadeIn
<1>3. ASSUME NEW e \in D, E[e].key # k
      PROVE  \E i \in 1..(m + 1) : Q[i][1] = E[e].key /\ Q[i][2] = E[e].value /\ \A j \in 1..(m + 1) : i < j => Q[j][1] # E[e].key
  <2>1. PICK i \in 1..m : P[i][1] = E[e].key /\ P[i][2] = E[e].value /\ \A j \in 1..m : i < j => P[j][1] # E[e].key BY <1>2
  <2>2. \A j \in 1..(m + 1) : i < j => Q[j][1] # E[e].key
    <3> TAKE j \in 1..(m + 1)
    <3>1. CASE j \in 1..m BY <2>1, <3>1
    <3>2. CASE j = m + 1 BY <1>3, <3>2
    <3> QED BY <3>1, <3>2
  <2>3. i \in 1..(m + 1) /\ Q[i] = P[i] OBVIOUS
  <2> QED BY <2>1, <2>2, <2>3
<1>4. ASSUME NEW d \in D, NEW e \in D, d < e
      PROVE  \E i \in 1..(m + 1) : Q[i][1] = E[d].key /\ \A j \in 1..(m + 1) : j <= i => Q[j][1] # E[e].key
  <2>1. PICK i \in 1..m : P[i][1] = E[d].key /\ \A j \in 1..m : j <= i => P[j][1] # E[e].key BY <1>2, <1>4
  <2>2. \A j \in 1..(m + 1) : j <= i => j \in 1..m OBVIOUS
  <2>3. i \in 1..(m + 1) OBVIOUS
  <2> QED BY <2>1, <2>2, <2>3
<1>5. m + 1 \in 1..(m + 1) /\ \A j \in 1..(m + 1) : ~(m + 1 < j) OBVIOUS
<1>6. CASE Having(E, k) = {}
  <2> DEFINE n == Len(E) + 1
             r == Living(k, v)
  <2>1. S = Append(E, r) BY <1>6 DEF Set, Living
  <2>2. /\ IsSeq(S) /\ Len(E) \in Nat /\ D = 1..Len(E) /\ DOMAIN S = 1..n
        /\ S[n] = r /\ \A e \in D : S[e] = E[e]
    <3>1. /\ IsSeq(Append(E, r)) /\ Len(E) \in Nat /\ DOMAIN E = 1..Len(E)
          /\ DOMAIN Append(E, r) = 1..(Len(E) + 1)
          /\ Append(E, r)[Len(E) + 1] = r
          /\ \A i \in DOMAIN E : Append(E, r)[i] = E[i]
      <4> HIDE DEF r
      <4> QED BY <1>1, AppendIs
    <3> HIDE DEF S, r
    <3> QED BY <2>1, <3>1
  <2>3. n \notin D /\ DOMAIN S = D \cup {n} /\ \A e \in D : e < n
    <3> DEFINE l == Len(E)
    <3>1. l \in Nat /\ D = 1..l /\ DOMAIN S = 1..(l + 1) BY <2>2
    <3> HIDE DEF l, D, S
    <3>2. l + 1 \notin D /\ DOMAIN S = D \cup {l + 1} /\ \A e \in D : e < l + 1 BY ONLY <3>1
    <3> QED BY <3>2 DEF l
  <2>4. n \in Int /\ \A e \in D : e \in Int BY <2>2
  <2> HIDE DEF S, n
  <2>5. S[n].key = k /\ S[n].value = v BY <2>2, LivingIs
  <2> HIDE DEF r
  <2>6. \A e \in D : E[e].key # k BY <1>1, <1>6
  <2>7. Whole(S)
    <3>1. S[n] = Living(S[n].key, S[n].value) BY <2>2, <2>5 DEF r
    <3>2. \A e \in D : S[e] = Living(S[e].key, S[e].value) BY <2>2 DEF Whole
    <3> QED BY <2>2, <2>3, <3>1, <3>2 DEF Whole
  <2>8. Alive(S) = D \cup {n} BY <2>3, <2>7, WholeLives
  <2>9. \A i \in 1..(m + 1) : \E e \in Alive(S) : S[e].key = Q[i][1]
    <3> TAKE i \in 1..(m + 1)
    <3>1. CASE i \in 1..m
      <4>1. PICK e \in D : E[e].key = P[i][1] BY <1>2, <3>1
      <4> QED BY <2>2, <2>8, <3>1, <4>1
    <3>2. CASE i = m + 1 BY <2>5, <2>8, <3>2
    <3> QED BY <3>1, <3>2
  <2>10. \A e \in Alive(S) : \E i \in 1..(m + 1) :
           Q[i][1] = S[e].key /\ Q[i][2] = S[e].value /\ \A j \in 1..(m + 1) : i < j => Q[j][1] # S[e].key
    <3> TAKE e \in Alive(S)
    <3>1. CASE e \in D BY <1>3, <2>2, <2>6, <3>1
    <3>2. CASE e = n BY <1>5, <2>5, <3>2
    <3> QED BY <2>8, <3>1, <3>2
  <2>11. \A d, e \in Alive(S) : d < e =>
           \E i \in 1..(m + 1) : Q[i][1] = S[d].key /\ \A j \in 1..(m + 1) : j <= i => Q[j][1] # S[e].key
    <3> SUFFICES ASSUME NEW d \in Alive(S), NEW e \in Alive(S), d < e
                 PROVE  \E i \in 1..(m + 1) : Q[i][1] = S[d].key /\ \A j \in 1..(m + 1) : j <= i => Q[j][1] # S[e].key
      OBVIOUS
    <3>1. d \in D
      <4>1. ~(n < n) /\ \A x \in D : ~(n < x) BY <2>3, <2>4
      <4> QED BY <2>8, <4>1
    <3>2. CASE e \in D BY <1>4, <2>2, <3>1, <3>2
    <3>3. CASE e = n
      <4>1. PICK i \in 1..m : P[i][1] = E[d].key BY <1>2, <3>1
      <4>2. \A j \in 1..m : Q[j][1] # k BY <1>2, <2>6
      <4>3. \A j \in 1..(m + 1) : j <= i => j \in 1..m OBVIOUS
      <4>4. i \in 1..(m + 1) /\ Q[i][1] = S[d].key BY <2>2, <3>1, <4>1
      <4> QED BY <2>5, <3>3, <4>2, <4>3, <4>4
    <3> QED BY <2>8, <3>2, <3>3
  <2>12. MadeIn(S, Alive(S), Q, 1..(m + 1)) BY <2>9, <2>10, <2>11 DEF MadeIn
  <2> QED BY <2>7, <2>12, MadeOfIn DEF S
<1>7. CASE Having(E, k) # {}
  <2>1. S = [i \in D |-> IF i \in Having(E, k) THEN [E[i] EXCEPT !.value = v] ELSE E[i]] BY <1>7 DEF Set
  <2>2. DOMAIN S = D /\ S = [i \in D |-> S[i]] BY <2>1
  <2>3. \A e \in D : E[e] = Living(E[e].key, E[e].value) BY DEF Whole
  <2>4. \A e \in D : S[e] = Living(E[e].key, IF E[e].key = k THEN v ELSE E[e].value)
    <3> TAKE e \in D
    <3>1. S[e] = IF E[e].key = k THEN [E[e] EXCEPT !.value = v] ELSE E[e] BY <1>1, <2>1
    <3>2. [Living(E[e].key, E[e].value) EXCEPT !.value = v] = Living(E[e].key, v) BY LivingIs
    <3> HIDE DEF S
    <3> QED BY <2>3, <3>1, <3>2
  <2> HIDE DEF S
  <2>5. \A e \in D : S[e].key = E[e].key /\ S[e].live = TRUE /\ S[e].value = IF E[e].key = k THEN v ELSE E[e].value BY <2>4, LivingIs
  <2>6. IsSeq(S) BY <1>1, <2>2, SameShape
  <2>7. Whole(S)
    <3>1. \A e \in DOMAIN S : S[e] = Living(S[e].key, S[e].value) BY <2>2, <2>4, <2>5
    <3> QED BY <2>6, <3>1 DEF Whole
  <2>8. Alive(S) = D BY <2>2, <2>7, WholeLives
  <2>9. \A i \in 1..(m + 1) : \E e \in D : S[e].key = Q[i][1]
    <3> TAKE i \in 1..(m + 1)
    <3>1. CASE i \in 1..m
      <4>1. PICK e \in D : E[e].key = P[i][1] BY <1>2, <3>1
      <4> QED BY <2>5, <3>1, <4>1
    <3>2. CASE i = m + 1
      <4>1. PICK e \in D : E[e].key = k BY <1>1, <1>7
      <4> QED BY <2>5, <3>2, <4>1
    <3> QED BY <3>1, <3>2
  <2>10. \A e \in D : \E i \in 1..(m + 1) :
           Q[i][1] = S[e].key /\ Q[i][2] = S[e].value /\ \A j \in 1..(m + 1) : i < j => Q[j][1] # S[e].key
    <3> TAKE e \in D
    <3>1. CASE E[e].key # k BY <1>3, <2>5, <3>1
    <3>2. CASE E[e].key = k BY <1>5, <2>5, <3>2
    <3> QED BY <3>1, <3>2
  <2>11. \A d, e \in D : d < e =>
           \E i \in 1..(m + 1) : Q[i][1] = S[d].key /\ \A j \in 1..(m + 1) : j <= i => Q[j][1] # S[e].key
    BY <1>4, <2>5
  <2>12. MadeIn(S, D, Q, 1..(m + 1))
    <3> HIDE DEF D
    <3> QED BY <2>9, <2>10, <2>11 DEF MadeIn
  <2> QED BY <2>7, <2>8, <2>12, MadeOfIn DEF S
<1> QED BY <1>6, <1>7
(* The pairs of a frame, one at a time.                                    *)
LEMMA PairsMore ==
  ASSUME NEW f, NEW g, NEW kind, NEW E, Whole(E), MadeOf(E, PairsOf(f, kind)),
         NEW q, IsSeq(q), NEW item, Taken(f) = q, Taken(g) = Append(q, item),
         NEW k, NEW v, Entry(kind, item)[1] = k, Entry(kind, item)[2] = v
  PROVE  Whole(Set(E, k, v)) /\ MadeOf(Set(E, k, v), PairsOf(g, kind))
<1> DEFINE P == PairsOf(f, kind)
           Q == PairsOf(g, kind)
           a == Append(q, item)
           m == Len(q)
<1>1. /\ m \in Nat /\ DOMAIN q = 1..m /\ DOMAIN a = 1..(m + 1)
      /\ a[m + 1] = item /\ \A i \in DOMAIN q : a[i] = q[i]
  BY AppendIs
<1>2. P = [i \in DOMAIN q |-> Entry(kind, q[i])] BY DEF PairsOf
<1>3. Q = [i \in DOMAIN a |-> Entry(kind, a[i])] BY DEF PairsOf
<1>4. MadeOf(E, P) OBVIOUS
<1> HIDE DEF P, Q, a, m
<1>5. DOMAIN P = 1..m /\ DOMAIN Q = 1..(m + 1) BY <1>1, <1>2, <1>3
<1>6. \A i \in 1..m : i \in 1..(m + 1) BY <1>1
<1>7. \A i \in 1..m : Q[i] = P[i] BY <1>1, <1>2, <1>3, <1>6
<1>8. m + 1 \in 1..(m + 1) BY <1>1
<1>9. Q[m + 1] = Entry(kind, item) BY <1>1, <1>3, <1>8
<1>10. Q[m + 1][1] = k /\ Q[m + 1][2] = v BY <1>9
<1>11. Whole(Set(E, k, v)) /\ MadeOf(Set(E, k, v), Q) BY <1>1, <1>4, <1>5, <1>7, <1>10, MadeOfMore
<1> QED BY <1>11 DEF Q

-----------------------------------------------------------------------------
(* What a step makes of a frame.                                           *)

Like(g, f) ==
  /\ g.op = f.op /\ g.c = f.c /\ g.own = f.own
  /\ ~f.own => Taken(g) = Taken(f)

LEMMA GivesOk ==
  ASSUME NEW f, FrameOk(f), f.in = "next", NEW item,
         NEW g, g = To([f EXCEPT !.at = @ + 1, !.got = Append(IF f.own THEN <<>> ELSE @, item)], "native", "item")
  PROVE  FrameOk(g) /\ Like(g, f)
<1> DEFINE q == IF f.own THEN <<>> ELSE f.got
<1>1. FrameShape(f) /\ SourceOk(f) /\ IsSeq(f.got) BY DEF FrameOk
<1>2. FrameShape(g) /\ g.in = "item" /\ g.got = Append(q, item) /\ g.op = f.op /\ g.c = f.c /\ g.own = f.own /\ g.src = f.src /\ g.failed = f.failed
  BY <1>1 DEF FrameShape, FrameFields, To
<1>3. IsSeq(<<>>)
  <2>1. <<>> \in Seq({}) OBVIOUS
  <2> QED BY <2>1, IsSequence
<1>4. IsSeq(q) BY <1>1, <1>3
<1> HIDE DEF q
<1>5. IsSeq(g.got) /\ g.got # <<>> /\ Front(g.got) = q
  <2>1. IsSeq(Append(q, item)) BY <1>4, AppendIs
  <2>2. Front(Append(q, item)) = q /\ Append(q, item) # <<>> BY <1>4, FrontOfAppend DEF Front
  <2> QED BY <1>2, <2>1, <2>2
<1>6. FrameOk(g)
  <2>1. SourceOk(g) BY <1>1, <1>2 DEF SourceOk
  <2> QED BY <1>2, <1>5, <2>1 DEF FrameOk
<1>7. ~f.own => Taken(g) = Taken(f) BY <1>1, <1>2, <1>5 DEF Taken, SourceOk, q
<1> QED BY <1>2, <1>6, <1>7 DEF Like

(* A call of code of the user, or its return.                              *)
LEMMA ToOk ==
  ASSUME NEW f, FrameOk(f), f.in # "return", NEW pc, NEW in, in \notin {"return", "item"}, f.in # "item" \/ f.own,
         in \in {"adder", "step", "callback"} => f.own
  PROVE  FrameOk(To(f, pc, in)) /\ Like(To(f, pc, in), f)
<1> DEFINE g == To(f, pc, in)
<1>1. FrameShape(f) /\ SourceOk(f) BY DEF FrameOk
<1>2. FrameShape(g) /\ g.in = in /\ g.got = f.got /\ g.op = f.op /\ g.c = f.c /\ g.own = f.own /\ g.src = f.src /\ g.failed = f.failed
  BY <1>1 DEF FrameShape, FrameFields, To
<1> HIDE DEF g
<1>3. SourceOk(g) BY <1>1, <1>2 DEF SourceOk
<1>4. ~f.failed BY <1>1 DEF SourceOk
<1>5. FrameOk(g) BY <1>2, <1>3, <1>4 DEF FrameOk
<1>6. Like(g, f) BY <1>2, <1>4 DEF Like, Taken
<1> QED BY <1>5, <1>6 DEF g

LEMMA ReturnsOk ==
  ASSUME NEW f, FrameOk(f), f.own, f.in # "return", NEW g, g = [To(f, "native", "next") EXCEPT !.got = IF f.own THEN <<>> ELSE @]
  PROVE  FrameOk(g) /\ Like(g, f)
<1>1. FrameShape(f) /\ SourceOk(f) BY DEF FrameOk
<1>2. FrameShape(g) /\ g.in = "next" /\ g.got = <<>> /\ g.op = f.op /\ g.c = f.c /\ g.own = f.own /\ g.src = f.src /\ g.failed = f.failed
  BY <1>1 DEF FrameShape, FrameFields, To
<1>3. IsSeq(<<>>)
  <2>1. <<>> \in Seq({}) OBVIOUS
  <2> QED BY <2>1, IsSequence
<1>4. SourceOk(g) BY <1>1, <1>2 DEF SourceOk
<1>5. FrameOk(g) BY <1>2, <1>3, <1>4 DEF FrameOk
<1> QED BY <1>2, <1>5 DEF Like

(* A step that fails or stops closes the source.                           *)
Closing(f, how) ==
  LET g == [f EXCEPT !.failed = TRUE, !.how = how]
  IN [To(g, "user", "return") EXCEPT !.src.returns = @ + 1, !.src.state = IF @ = "open" THEN "closed" ELSE "misused"]
LEMMA ClosesOk ==
  ASSUME NEW f, FrameOk(f), f.in # "return", f.in = "item" \/ f.own, f.src.has, NEW how, how # "returned"
  PROVE  FrameOk(Closing(f, how)) /\ Like(Closing(f, how), f)
<1> DEFINE g == Closing(f, how)
<1>1. FrameShape(f) /\ SourceOk(f) BY DEF FrameOk
<1>2. FrameShape(g) /\ g.in = "return" /\ g.got = f.got /\ g.op = f.op /\ g.c = f.c /\ g.own = f.own /\ g.failed = TRUE /\ g.how = how
  BY <1>1 DEF FrameShape, FrameFields, SourceFields, To, Closing
<1>3. g.src.has = f.src.has /\ g.src.kind = f.src.kind /\ g.src.returns = f.src.returns + 1 /\ g.src.state = IF f.src.state = "open" THEN "closed" ELSE "misused"
  BY <1>1 DEF FrameShape, FrameFields, SourceFields, To, Closing
<1> HIDE DEF g
<1>4. f.src.state = "open" /\ f.src.returns = 0 /\ ~f.failed BY <1>1 DEF SourceOk
<1>5. SourceOk(g) BY <1>2, <1>3, <1>4 DEF SourceOk
<1>6. ~f.own => f.in = "item" OBVIOUS
<1>7. FrameOk(g) BY <1>2, <1>3, <1>5, <1>6 DEF FrameOk
<1>8. Like(g, f) BY <1>2, <1>4, <1>6 DEF Like, Taken
<1> QED BY <1>7, <1>8 DEF g
-----------------------------------------------------------------------------
(* What a step makes of the calls in progress.                             *)

(* The collections that the other calls fill do not change.                *)
Others ==
  /\ DOMAIN colls' = DOMAIN colls
  /\ \A n \in DOMAIN go \ {Len(go)} : Fills(go[n]) => colls'[go[n].c] = colls[go[n].c]

LEMMA TopIs ==
  ASSUME FrameInv, go # <<>>
  PROVE  /\ Len(go) \in DOMAIN go /\ F = go[Len(go)] /\ FrameOk(F)
         /\ F.op = "construct" => F.c \in DOMAIN colls
         /\ Fills(F) => Filled(F, colls[F.c])
<1>1. Len(go) \in Nat \ {0} /\ DOMAIN go = 1..Len(go) BY PopIs DEF FrameInv
<1>2. Len(go) \in DOMAIN go /\ F = go[Len(go)] BY <1>1 DEF F, Last
<1> QED BY <1>2 DEF FrameInv

(* Steps of this call leave the collections alone, or change its own.      *)
LEMMA OthersStay ==
  ASSUME FrameInv, go # <<>>, DOMAIN colls' = DOMAIN colls,
         \A c \in DOMAIN colls : c # F.c \/ F.op # "construct" => colls'[c] = colls[c]
  PROVE  Others
<1>1. Len(go) \in DOMAIN go /\ F = go[Len(go)] BY TopIs
<1> SUFFICES ASSUME NEW n \in DOMAIN go \ {Len(go)}, Fills(go[n]) PROVE colls'[go[n].c] = colls[go[n].c]
  BY DEF Others
<1>2. go[n].op = "construct" /\ go[n].c \in DOMAIN colls BY DEF FrameInv, Fills
<1>3. F.op = "construct" => go[n].c # F.c BY <1>1, <1>2 DEF FrameInv
<1> QED BY <1>2, <1>3

LEMMA FramesPut ==
  ASSUME FrameInv, go # <<>>, Others, NEW g, go' = Append(Front(go), g), FrameOk(g), g.op = F.op, g.c = F.c,
         Fills(g) => Filled(g, colls'[g.c])
  PROVE  FrameInv'
<1> DEFINE l == Len(go)
<1>1. l \in DOMAIN go /\ F = go[l] /\ (F.op = "construct" => F.c \in DOMAIN colls) BY TopIs
<1>2. IsSeq(go') /\ DOMAIN go' = DOMAIN go /\ go'[l] = g /\ \A n \in DOMAIN go \ {l} : go'[n] = go[n]
  <2>1. IsSeq(go) BY DEF FrameInv
  <2>2. go' = Append(SubSeq(go, 1, Len(go) - 1), g) BY DEF Front
  <2> DEFINE t == Append(SubSeq(go, 1, Len(go) - 1), g)
  <2>3. IsSeq(t) /\ Len(go) \in DOMAIN go /\ DOMAIN t = DOMAIN go /\ t[Len(go)] = g /\ \A i \in DOMAIN go \ {Len(go)} : t[i] = go[i]
    BY ONLY <2>1, go # <<>>, ReplaceIs
  <2> QED BY <2>2, <2>3
<1> HIDE DEF l
<1>3. \A n \in DOMAIN go' : FrameOk(go'[n]) BY <1>2 DEF FrameInv
<1>4. \A n \in DOMAIN go' : go'[n].op = go[n].op /\ go'[n].c = go[n].c BY <1>1, <1>2
<1>5. DOMAIN colls' = DOMAIN colls BY DEF Others
<1>6. \A n \in DOMAIN go' : go'[n].op = "construct" => go'[n].c \in DOMAIN colls' BY <1>2, <1>4, <1>5 DEF FrameInv
<1>7. \A n \in DOMAIN go' : Fills(go'[n]) => Filled(go'[n], colls'[go'[n].c])
  <2> SUFFICES ASSUME NEW n \in DOMAIN go', Fills(go'[n]) PROVE Filled(go'[n], colls'[go'[n].c])
    OBVIOUS
  <2>1. CASE n = l BY <1>2, <2>1
  <2>2. CASE n # l
    <3>1. n \in DOMAIN go \ {l} /\ go'[n] = go[n] BY <1>2, <2>2
    <3>2. colls'[go[n].c] = colls[go[n].c] BY <3>1 DEF Others, l
    <3>3. Filled(go[n], colls[go[n].c]) BY <3>1 DEF FrameInv
    <3> QED BY <3>1, <3>2, <3>3
  <2> QED BY <2>1, <2>2
<1>8. \A m, n \in DOMAIN go' : go'[m].op = "construct" /\ go'[n].op = "construct" /\ go'[m].c = go'[n].c => m = n
  BY <1>2, <1>4 DEF FrameInv
<1>9. IsSeq(go)' BY <1>2 DEF IsSeq
<1> QED BY <1>3, <1>6, <1>7, <1>8, <1>9 DEF FrameInv

LEMMA FramesPop ==
  ASSUME FrameInv, go # <<>>, Others, go' = Front(go)
  PROVE  FrameInv'
<1>1. /\ Len(go) \in Nat \ {0} /\ DOMAIN go = 1..Len(go)
      /\ IsSeq(go') /\ DOMAIN go' = 1..(Len(go) - 1) /\ \A n \in 1..(Len(go) - 1) : go'[n] = go[n]
  BY PopIs DEF FrameInv, Front
<1>2. \A n \in DOMAIN go' : n \in DOMAIN go \ {Len(go)} /\ go'[n] = go[n]
  <2> DEFINE l == Len(go)
  <2>1. l \in Nat \ {0} /\ DOMAIN go = 1..l /\ DOMAIN go' = 1..(l - 1) /\ \A n \in 1..(l - 1) : go'[n] = go[n] BY <1>1
  <2> HIDE DEF l
  <2>2. \A n \in 1..(l - 1) : n \in 1..l /\ n # l BY ONLY <2>1
  <2> QED BY <2>1, <2>2 DEF l
<1>3. \A n \in DOMAIN go' : FrameOk(go'[n]) BY <1>2 DEF FrameInv
<1>4. \A n \in DOMAIN go' : go'[n].op = "construct" => go'[n].c \in DOMAIN colls' BY <1>2 DEF FrameInv, Others
<1>5. \A n \in DOMAIN go' : Fills(go'[n]) => Filled(go'[n], colls'[go'[n].c])
  <2> SUFFICES ASSUME NEW n \in DOMAIN go', Fills(go'[n]) PROVE Filled(go'[n], colls'[go'[n].c])
    OBVIOUS
  <2>1. n \in DOMAIN go \ {Len(go)} /\ go'[n] = go[n] BY <1>2
  <2>2. colls'[go[n].c] = colls[go[n].c] BY <2>1 DEF Others
  <2>3. Filled(go[n], colls[go[n].c]) BY <2>1 DEF FrameInv
  <2> QED BY <2>1, <2>2, <2>3
<1>6. \A m, n \in DOMAIN go' : go'[m].op = "construct" /\ go'[n].op = "construct" /\ go'[m].c = go'[n].c => m = n
  BY <1>2 DEF FrameInv
<1>7. IsSeq(go)' BY <1>1 DEF IsSeq
<1> QED BY <1>3, <1>4, <1>5, <1>6, <1>7 DEF FrameInv

(* A call begins; a constructor makes a collection that no other call has. *)
LEMMA FramesPush ==
  ASSUME FrameInv, NEW g, go' = Append(go, g), FrameOk(g),
         \A c \in DOMAIN colls : c \in DOMAIN colls' /\ colls'[c] = colls[c],
         g.op = "construct" => g.c \in DOMAIN colls' \ DOMAIN colls, Fills(g) => Filled(g, colls'[g.c])
  PROVE  FrameInv'
<1> SUFFICES ASSUME NEW l, l = Len(go) + 1 PROVE FrameInv'
  OBVIOUS
<1>1. IsSeq(go') /\ DOMAIN go' = DOMAIN go \cup {l} /\ l \notin DOMAIN go /\ go'[l] = g /\ \A n \in DOMAIN go : go'[n] = go[n]
  <2> DEFINE k == Len(go)
  <2>1. IsSeq(go') /\ k \in Nat /\ DOMAIN go = 1..k /\ DOMAIN go' = 1..(k + 1) /\ go'[l] = g /\ \A n \in DOMAIN go : go'[n] = go[n]
    BY AppendIs DEF FrameInv
  <2>2. l = k + 1 OBVIOUS
  <2> HIDE DEF k
  <2>3. 1..(k + 1) = (1..k) \cup {k + 1} /\ k + 1 \notin 1..k BY ONLY <2>1
  <2> QED BY <2>1, <2>2, <2>3
<1>2. \A n \in DOMAIN go' : FrameOk(go'[n]) BY <1>1 DEF FrameInv
<1>3. \A n \in DOMAIN go' : go'[n].op = "construct" => go'[n].c \in DOMAIN colls' BY <1>1 DEF FrameInv
<1>4. \A n \in DOMAIN go' : Fills(go'[n]) => Filled(go'[n], colls'[go'[n].c])
  <2> SUFFICES ASSUME NEW n \in DOMAIN go', Fills(go'[n]) PROVE Filled(go'[n], colls'[go'[n].c])
    OBVIOUS
  <2>1. CASE n = l BY <1>1, <2>1
  <2>2. CASE n # l
    <3>1. n \in DOMAIN go /\ go'[n] = go[n] BY <1>1, <2>2
    <3>2. go[n].c \in DOMAIN colls BY <3>1 DEF FrameInv, Fills
    <3>3. Filled(go[n], colls[go[n].c]) BY <3>1 DEF FrameInv
    <3> QED BY <3>1, <3>2, <3>3
  <2> QED BY <2>1, <2>2
<1>5. \A m, n \in DOMAIN go' : go'[m].op = "construct" /\ go'[n].op = "construct" /\ go'[m].c = go'[n].c => m = n
  <2>1. \A n \in DOMAIN go : go[n].op = "construct" => go[n].c \in DOMAIN colls BY DEF FrameInv
  <2>2. \A m, n \in DOMAIN go : go[m].op = "construct" /\ go[n].op = "construct" /\ go[m].c = go[n].c => m = n BY DEF FrameInv
  <2> QED BY <1>1, <2>1, <2>2
<1>6. IsSeq(go)' BY <1>1 DEF IsSeq
<1> QED BY <1>2, <1>3, <1>4, <1>5, <1>6 DEF FrameInv

(* Code of the user calls methods: it has not the collections being filled. *)
LEMMA FramesStay ==
  ASSUME FrameInv, UNCHANGED go, \A c \in DOMAIN colls : c \in DOMAIN colls' /\ (~colls[c].reached => colls'[c] = colls[c])
  PROVE  FrameInv'
<1>1. \A n \in DOMAIN go : Fills(go[n]) => go[n].c \in DOMAIN colls /\ colls'[go[n].c] = colls[go[n].c]
  BY DEF FrameInv, Fills, Filled
<1>2. \A n \in DOMAIN go : Fills(go[n]) => Filled(go[n], colls'[go[n].c]) BY <1>1 DEF FrameInv
<1>3. \A n \in DOMAIN go : go[n].op = "construct" => go[n].c \in DOMAIN colls' BY DEF FrameInv
<1>4. IsSeq(go)' BY DEF FrameInv, IsSeq
<1> QED BY <1>2, <1>3, <1>4 DEF FrameInv
-----------------------------------------------------------------------------
(* Iterators.                                                              *)

(* What next does: it says that it is done, or moves on and gives an item. *)
LEMMA NextsOk ==
  ASSUME NEW w, WalkOk(w)
  PROVE  WalkOk(Said(Nexts(w))) /\ (w.over => Nexts(w).item = <<>>)
<1> DEFINE r == Nexts(w)
           at == Behind(colls[w.c].entries, w.at)
<1>1. \/ w.nil /\ r = Done(w)
      \/ ~w.nil /\ r = Done([w EXCEPT !.nil = TRUE])
      \/ ~w.nil /\ \E item : item # <<>> /\ r = Advance(w, at, item)
  <2>1. w.nil \in BOOLEAN BY DEF WalkOk
  <2> DEFINE e == colls[w.c].entries[at]
             mapItem == CASE w.kind = "key" -> <<e.key>> [] w.kind = "value" -> <<e.value>> [] OTHER -> <<e.key, e.value>>
             setItem == IF w.kind = "value" THEN <<e.key>> ELSE <<e.key, e.key>>
  <2>2. mapItem # <<>> /\ setItem # <<>>
    <3> HIDE DEF e
    <3> QED OBVIOUS
  <2>3. r = IF colls[w.c].kind = "Map" THEN mapNext(w) ELSE setNext(w) BY DEF Nexts
  <2>4. mapNext(w) = CASE w.nil -> Done(w) [] ~w.nil /\ at = 0 -> Done([w EXCEPT !.nil = TRUE]) [] OTHER -> Advance(w, at, mapItem) BY DEF mapNext
  <2>5. setNext(w) = CASE w.nil -> Done(w) [] ~w.nil /\ at = 0 -> Done([w EXCEPT !.nil = TRUE]) [] OTHER -> Advance(w, at, setItem) BY DEF setNext
  <2> HIDE DEF mapItem, setItem, r, at
  <2>6. CASE w.nil BY <2>3, <2>4, <2>5, <2>6
  <2>7. CASE ~w.nil /\ at = 0 BY <2>3, <2>4, <2>5, <2>7
  <2>8. CASE ~w.nil /\ at # 0 BY <2>2, <2>3, <2>4, <2>5, <2>8
  <2> QED BY <2>1, <2>6, <2>7, <2>8
<1> HIDE DEF r, at
<1>2. /\ DOMAIN w = {"c", "at", "kind", "nil", "over"}
      /\ w.nil \in BOOLEAN /\ w.over \in BOOLEAN /\ (w.over => w.nil)
  BY DEF WalkOk
<1> DEFINE s == Said(r)
<1>3. CASE w.nil /\ r = Done(w)
  <2>1. r.item = <<>> /\ r.walk = w BY <1>3 DEF Done
  <2>2. DOMAIN s = DOMAIN w /\ s.nil = w.nil /\ s.over = TRUE BY <1>2, <2>1 DEF Said
  <2> HIDE DEF s
  <2>3. WalkOk(s) BY <1>2, <1>3, <2>2 DEF WalkOk
  <2> QED BY <2>1, <2>3 DEF r, s
<1>4. CASE ~w.nil /\ r = Done([w EXCEPT !.nil = TRUE])
  <2>1. r.item = <<>> /\ r.walk = [w EXCEPT !.nil = TRUE] BY <1>4 DEF Done
  <2>2. DOMAIN s = DOMAIN w /\ s.nil = TRUE /\ s.over = TRUE BY <1>2, <2>1 DEF Said
  <2> HIDE DEF s
  <2>3. WalkOk(s) BY <1>2, <2>2 DEF WalkOk
  <2> QED BY <2>1, <2>3 DEF r, s
<1>5. CASE ~w.nil /\ \E item : item # <<>> /\ r = Advance(w, at, item)
  <2>1. PICK item : item # <<>> /\ r = Advance(w, at, item) BY <1>5
  <2>2. r.item = item /\ r.walk = [w EXCEPT !.at = at] BY <2>1 DEF Advance
  <2>3. w.over = FALSE BY <1>2, <1>5
  <2>4. DOMAIN s = DOMAIN w /\ s.nil = w.nil /\ s.over = FALSE BY <1>2, <2>1, <2>2, <2>3 DEF Said
  <2> HIDE DEF s
  <2>5. WalkOk(s) BY <1>2, <2>4 DEF WalkOk
  <2> QED BY <2>3, <2>5 DEF r, s
<1> QED BY <1>1, <1>3, <1>4, <1>5

LEMMA WalksAdvance ==
  ASSUME WalkInv, NEW i, walks' = [walks EXCEPT ![i] = Said(Nexts(walks[i]))]
  PROVE  WalkInv'
<1>1. DOMAIN walks' = DOMAIN walks /\ walks' = [j \in DOMAIN walks' |-> walks'[j]] OBVIOUS
<1>2. IsSeq(walks') BY <1>1, SameShape DEF WalkInv
<1>3. \A j \in DOMAIN walks : WalkOk(walks'[j])
  <2> TAKE j \in DOMAIN walks
  <2>1. WalkOk(walks[j]) BY DEF WalkInv
  <2>2. CASE j = i
    <3>1. WalkOk(Said(Nexts(walks[i]))) BY <2>1, <2>2, NextsOk
    <3> QED BY <2>2, <3>1
  <2>3. CASE j # i BY <2>1, <2>3
  <2> QED BY <2>2, <2>3
<1>4. IsSeq(walks)' BY <1>2 DEF IsSeq
<1> QED BY <1>1, <1>3, <1>4 DEF WalkInv

LEMMA WalksAppend ==
  ASSUME WalkInv, NEW c, NEW kind, walks' = Append(walks, Walk(c, kind))
  PROVE  WalkInv'
<1> SUFFICES ASSUME NEW w, w = Walk(c, kind) PROVE WalkInv'
  OBVIOUS
<1>1. WalkOk(w) BY DEF WalkOk, Walk
<1> SUFFICES ASSUME NEW l, l = Len(walks) PROVE WalkInv'
  OBVIOUS
<1>2. IsSeq(walks') /\ l \in Nat /\ DOMAIN walks = 1..l /\ DOMAIN walks' = 1..(l + 1) /\ walks'[l + 1] = w /\ \A i \in DOMAIN walks : walks'[i] = walks[i]
  BY AppendIs DEF WalkInv
<1>3. \A i \in DOMAIN walks' : i \in DOMAIN walks \/ i = l + 1
  <2>1. \A i \in 1..(l + 1) : i \in 1..l \/ i = l + 1 BY <1>2
  <2> QED BY <1>2, <2>1
<1>4. \A i \in DOMAIN walks' : WalkOk(walks'[i]) BY <1>1, <1>2, <1>3 DEF WalkInv
<1>5. IsSeq(walks)' BY <1>2 DEF IsSeq
<1> QED BY <1>4, <1>5 DEF WalkInv
-----------------------------------------------------------------------------
(* The actions.                                                            *)

(* A step that leaves the weak collections alone, and of the others         *)
(* changes only entries and what the user has reached.                     *)
Contents ==
  /\ DOMAIN colls' = DOMAIN colls /\ IsSeq(colls')
  /\ \A c \in DOMAIN colls : CollShape(c)' /\ colls'[c].kind = colls[c].kind /\ colls'[c].id = colls[c].id

LEMMA ContentsWeak ==
  ASSUME CInv, Contents, UNCHANGED <<weakRefs, added>>
  PROVE  WeakInv'
BY WeakStays DEF CInv, Contents

LEMMA SameContents ==
  ASSUME CInv, UNCHANGED colls
  PROVE  Contents
BY DEF CInv, WeakInv, Contents, CollShape

(* The entries of one collection change.                                   *)
LEMMA EntriesChange ==
  ASSUME CInv, NEW c \in DOMAIN colls, NEW e, colls' = [colls EXCEPT ![c].entries = e]
  PROVE  /\ Contents
         /\ colls'[c].entries = e /\ colls'[c].reached = colls[c].reached
         /\ \A d \in DOMAIN colls \ {c} : colls'[d] = colls[d]
<1>1. IsSeq(colls) /\ \A d \in DOMAIN colls : CollShape(d) BY DEF CInv, WeakInv
<1>2. DOMAIN colls' = DOMAIN colls /\ colls' = [d \in DOMAIN colls' |-> colls'[d]] OBVIOUS
<1>3. IsSeq(colls') BY <1>1, <1>2, SameShape
<1>4. colls'[c] = [colls[c] EXCEPT !.entries = e] /\ \A d \in DOMAIN colls \ {c} : colls'[d] = colls[d] OBVIOUS
<1>5. DOMAIN colls[c] = {"kind", "entries", "id", "reached"} BY <1>1 DEF CollShape
<1> SUFFICES ASSUME NEW x, x = colls'[c] PROVE Contents /\ x.entries = e /\ x.reached = colls[c].reached
  BY <1>4
<1>6. DOMAIN x = {"kind", "entries", "id", "reached"} /\ x.entries = e /\ x.reached = colls[c].reached /\ x.kind = colls[c].kind /\ x.id = colls[c].id
  BY <1>4, <1>5
<1>7. \A d \in DOMAIN colls : DOMAIN colls'[d] = {"kind", "entries", "id", "reached"} /\ colls'[d].kind = colls[d].kind /\ colls'[d].id = colls[d].id
  BY <1>1, <1>4, <1>6 DEF CollShape
<1> QED BY <1>2, <1>3, <1>6, <1>7 DEF Contents, CollShape

(* A collection is given to the user.                                      *)
LEMMA ReachedChanges ==
  ASSUME CInv, NEW c, colls' = [colls EXCEPT ![c].reached = TRUE]
  PROVE  /\ Contents
         /\ \A d \in DOMAIN colls : colls'[d].entries = colls[d].entries
         /\ \A d \in DOMAIN colls \ {c} : colls'[d] = colls[d]
<1>1. IsSeq(colls) /\ \A d \in DOMAIN colls : CollShape(d) BY DEF CInv, WeakInv
<1>2. DOMAIN colls' = DOMAIN colls /\ colls' = [d \in DOMAIN colls' |-> colls'[d]] OBVIOUS
<1>3. IsSeq(colls') BY <1>1, <1>2, SameShape
<1>4. \A d \in DOMAIN colls \ {c} : colls'[d] = colls[d] OBVIOUS
<1>5. \A d \in DOMAIN colls : /\ DOMAIN colls'[d] = {"kind", "entries", "id", "reached"}
                              /\ colls'[d].kind = colls[d].kind /\ colls'[d].id = colls[d].id /\ colls'[d].entries = colls[d].entries
  <2> TAKE d \in DOMAIN colls
  <2>1. DOMAIN colls[d] = {"kind", "entries", "id", "reached"} BY <1>1 DEF CollShape
  <2>2. CASE d # c BY <1>4, <2>1, <2>2
  <2>3. CASE d = c
    <3>1. colls'[d] = [colls[d] EXCEPT !.reached = TRUE] BY <2>3
    <3> SUFFICES ASSUME NEW x, x = colls'[d]
                 PROVE  /\ DOMAIN x = {"kind", "entries", "id", "reached"}
                        /\ x.kind = colls[d].kind /\ x.id = colls[d].id /\ x.entries = colls[d].entries
      OBVIOUS
    <3> QED BY <2>1, <3>1
  <2> QED BY <2>2, <2>3
<1> QED BY <1>2, <1>3, <1>4, <1>5 DEF Contents, CollShape

(* Nothing has ended and no iterator has answered.                         *)
LEMMA QuietHolds ==
  ASSUME Quiet
  PROVE  AnswerInv' /\ LastInv'
BY DEF Quiet, AnswerInv, LastInv

LEMMA WalksStay ==
  ASSUME CInv, UNCHANGED walks
  PROVE  WalkInv'
BY DEF CInv, WalkInv, IsSeq, WalkOk

(* The frame of a call changes, or the call ends: what it says of its pairs *)
(* and collection stays.                                                   *)
Puts(g) ==
  /\ go # <<>> /\ Others /\ Contents
  /\ Fills(F) => colls'[F.c] = colls[F.c]
  /\ FrameOk(g) /\ Like(g, F) /\ Put(g)

LEMMA LikePairs ==
  ASSUME NEW f, NEW g, Like(g, f), Fills(f) \/ Fills(g), NEW kind
  PROVE  Fills(f) /\ Fills(g) /\ PairsOf(g, kind) = PairsOf(f, kind)
BY DEF Like, Fills, PairsOf

LEMMA PutsHolds ==
  ASSUME CInv, NEW g, Puts(g)
  PROVE  FrameInv' /\ LastInv' /\ AnswerInv'
<1>1. FrameInv /\ go # <<>> /\ Others /\ FrameOk(g) /\ Like(g, F) BY DEF CInv, Puts
<1>2. go' = Append(Front(go), g) /\ Quiet BY DEF Puts, Put
<1>3. g.op = F.op /\ g.c = F.c BY <1>1 DEF Like
<1>4. Fills(g) => Filled(g, colls'[g.c])
  <2> SUFFICES ASSUME Fills(g) PROVE Filled(g, colls'[g.c])
    OBVIOUS
  <2>1. Fills(F) BY <1>1, LikePairs
  <2>2. \A kind : PairsOf(g, kind) = PairsOf(F, kind) BY <1>1, LikePairs
  <2>3. Filled(F, colls[F.c]) BY <1>1, <2>1, TopIs
  <2>4. colls'[F.c] = colls[F.c] BY <2>1 DEF Puts, Fills
  <2> QED BY <1>3, <2>2, <2>3, <2>4 DEF Filled
<1>5. FrameInv' BY <1>1, <1>2, <1>3, <1>4, FramesPut
<1> QED BY <1>2, <1>5, QuietHolds

EndsWell(f, how) ==
  /\ f.src.state # "misused"
  /\ f.src.kind = "foreign" =>
       /\ f.src.returns = (IF f.failed /\ f.src.has THEN 1 ELSE 0)
       /\ how = "returned" => f.src.state = "ended" /\ ~f.failed
LEMMA EndsHolds ==
  ASSUME CInv, go # <<>>, Others, Contents, F.op = "construct" => colls'[F.c].entries = colls[F.c].entries,
         NEW f, NEW how, Like(f, F), EndsWell(f, how), Ends(f, how)
  PROVE  FrameInv' /\ LastInv' /\ AnswerInv'
<1>1. FrameInv BY DEF CInv
<1>2. go' = Front(go) /\ last' = <<f, how>> /\ answer' = <<>> BY DEF Ends
<1>3. FrameInv' BY <1>1, <1>2, FramesPop
<1>4. AnswerInv' BY <1>2 DEF AnswerInv
<1>5. EndedOk(f, colls'[f.c], how)
  <2>1. Fills(f) /\ ~Weak(colls'[f.c].kind) => MadeOf(colls'[f.c].entries, PairsOf(f, colls'[f.c].kind))
    <3> SUFFICES ASSUME Fills(f), ~Weak(colls'[f.c].kind) PROVE MadeOf(colls'[f.c].entries, PairsOf(f, colls'[f.c].kind))
      OBVIOUS
    <3>1. Fills(F) /\ \A kind : PairsOf(f, kind) = PairsOf(F, kind) BY LikePairs
    <3>2. F.op = "construct" /\ f.c = F.c BY <3>1 DEF Fills, Like
    <3>3. F.c \in DOMAIN colls /\ Filled(F, colls[F.c]) BY <1>1, <3>1, <3>2, TopIs
    <3>4. colls'[F.c].kind = colls[F.c].kind /\ colls'[F.c].entries = colls[F.c].entries BY <3>2, <3>3 DEF Contents
    <3> QED BY <3>1, <3>2, <3>3, <3>4 DEF Filled
  <2> QED BY <2>1 DEF EndedOk, EndsWell
<1>6. last' # <<>> => EndedOk(last'[1], colls'[last'[1].c], last'[2]) BY <1>2, <1>5
<1> QED BY <1>3, <1>4, <1>6 DEF LastInv
(* Methods.                                                                *)
LEMMA CallsEntries ==
  ASSUME CInv, NEW c \in DOMAIN colls, colls[c].reached, NEW r, CallEntries(c, r)
  PROVE  CInv'
<1>1. colls' = [colls EXCEPT ![c].entries = r.entries] /\ Quiet /\ UNCHANGED <<weakRefs, walks, go, added>> BY DEF CallEntries
<1>2. Contents /\ \A d \in DOMAIN colls \ {c} : colls'[d] = colls[d]
  <2> SUFFICES ASSUME NEW e, e = r.entries PROVE Contents /\ \A d \in DOMAIN colls \ {c} : colls'[d] = colls[d]
    OBVIOUS
  <2>1. colls' = [colls EXCEPT ![c].entries = e] BY <1>1
  <2> QED BY <2>1, EntriesChange
<1>3. WeakInv' BY <1>1, <1>2, ContentsWeak
<1>4. \A d \in DOMAIN colls : d \in DOMAIN colls' /\ (~colls[d].reached => colls'[d] = colls[d]) BY <1>2 DEF Contents
<1>5. FrameInv' BY <1>1, <1>4, FramesStay DEF CInv
<1> QED BY <1>1, <1>3, <1>5, WalksStay, QuietHolds DEF CInv

LEMMA WithoutNone ==
  ASSUME CInv, NEW c \in WeakOnes, NEW k, k \notin Objects
  PROVE  Without(added[c], k) = added[c]
<1>1. added[c] = {<<o, weakRefs[o][colls[c].id]>> : o \in Entered(c)} BY DEF CInv, WeakInv
<1>2. \A e \in added[c] : e[1] # k BY <1>1 DEF Entered
<1> QED BY <1>2 DEF Without

LEMMA AddedSame ==
  ASSUME CInv, NEW c, added' = [added EXCEPT ![c] = added[c]]
  PROVE  added' = added
<1>1. added \in Seq({added[i] : i \in DOMAIN added}) BY DEF CInv, WeakInv, IsSeq
<1>2. added = [i \in 1..Len(added) |-> added[i]] /\ DOMAIN added = 1..Len(added)
  <2> DEFINE S == {added[i] : i \in DOMAIN added}
  <2>1. added \in Seq(S) BY <1>1
  <2> HIDE DEF S
  <2> QED BY <2>1
<1>3. added = [i \in DOMAIN added |-> added[i]] BY <1>2
<1>4. added' = [i \in DOMAIN added |-> added[i]]
  <2>1. DOMAIN added' = DOMAIN added /\ \A i \in DOMAIN added : added'[i] = added[i] OBVIOUS
  <2>2. added' = [i \in DOMAIN added' |-> added'[i]] OBVIOUS
  <2> QED BY <2>1, <2>2
<1> QED BY <1>3, <1>4

(* set and add of a weak collection, delete, and what changes nothing.     *)
WeakSets(c) ==
  \/ \E k \in Objects : \E v : /\ (colls[c].kind = "WeakSet" => v = "nil")
                               /\ weakRefs' = Attach(weakRefs, colls[c].id, k, v)
                               /\ added' = [added EXCEPT ![c] = Without(added[c], k) \cup {<<k, v>>}]
  \/ \E k \in Objects : /\ weakRefs' = Detach(weakRefs, colls[c].id, k)
                        /\ added' = [added EXCEPT ![c] = Without(added[c], k)]
  \/ weakRefs' = weakRefs /\ added' = added

LEMMA WeakSetsHolds ==
  ASSUME CInv, NEW c \in WeakOnes, WeakSets(c), UNCHANGED <<colls, walks, go>>, Quiet
  PROVE  CInv'
<1>1. WeakInv'
  <2>1. WeakInv BY DEF CInv
  <2>2. CASE \E k \in Objects : \E v : /\ (colls[c].kind = "WeakSet" => v = "nil")
                                       /\ weakRefs' = Attach(weakRefs, colls[c].id, k, v)
                                       /\ added' = [added EXCEPT ![c] = Without(added[c], k) \cup {<<k, v>>}]
    BY <2>1, <2>2, WeakAttaches
  <2>3. CASE \E k \in Objects : /\ weakRefs' = Detach(weakRefs, colls[c].id, k)
                                /\ added' = [added EXCEPT ![c] = Without(added[c], k)]
    BY <2>1, <2>3, WeakDetaches
  <2>4. CASE weakRefs' = weakRefs /\ added' = added BY <2>4, SameContents, ContentsWeak
  <2> QED BY <2>2, <2>3, <2>4 DEF WeakSets
<1>2. FrameInv' BY FramesStay DEF CInv
<1> QED BY <1>1, <1>2, WalksStay, QuietHolds DEF CInv

LEMMA CallWeakMapHolds ==
  ASSUME CInv, CallWeakMap
  PROVE  CInv'
<1>1. PICK c \in Reached("WeakMap"), name \in {"set", "delete"}, k \in Keys, v \in Values :
        CallWeak(c, WeakMapMethod(colls[c].id, name, k, v), AfterWeak(added[c], name, k, v))
  BY DEF CallWeakMap
<1>2. c \in WeakOnes /\ colls[c].kind = "WeakMap" BY DEF Reached, WeakOnes, Weak
<1>3. /\ weakRefs' = WeakMapMethod(colls[c].id, name, k, v).refs
      /\ added' = [added EXCEPT ![c] = AfterWeak(added[c], name, k, v)]
      /\ UNCHANGED <<colls, walks, go>> /\ Quiet
  BY <1>1 DEF CallWeak
<1>4. CASE name = "set" /\ k \in Objects
  <2>1. weakRefs' = Attach(weakRefs, colls[c].id, k, v) BY <1>3, <1>4 DEF WeakMapMethod, WeakReturns
  <2>2. added' = [added EXCEPT ![c] = Without(added[c], k) \cup {<<k, v>>}] BY <1>3, <1>4 DEF AfterWeak
  <2>3. WeakSets(c) BY <1>2, <1>4, <2>1, <2>2 DEF WeakSets
  <2> QED BY <1>2, <1>3, <2>3, WeakSetsHolds
<1>5. CASE name = "delete" /\ k \in Objects
  <2>1. weakRefs' = Detach(weakRefs, colls[c].id, k) BY <1>3, <1>5 DEF WeakMapMethod, WeakReturns
  <2>2. added' = [added EXCEPT ![c] = Without(added[c], k)] BY <1>3, <1>5 DEF AfterWeak
  <2>3. WeakSets(c) BY <1>5, <2>1, <2>2 DEF WeakSets
  <2> QED BY <1>2, <1>3, <2>3, WeakSetsHolds
<1>6. CASE k \notin Objects
  <2>1. weakRefs' = weakRefs BY <1>3, <1>6 DEF WeakMapMethod, WeakReturns
  <2>2. AfterWeak(added[c], name, k, v) = added[c]
    <3>1. Without(added[c], k) = added[c] BY <1>2, <1>6, WithoutNone
    <3> QED BY <1>6, <3>1 DEF AfterWeak
  <2>3. added' = added BY <1>3, <2>2, AddedSame
  <2>4. WeakSets(c) BY <2>1, <2>3 DEF WeakSets
  <2> QED BY <1>2, <1>3, <2>4, WeakSetsHolds
<1> QED BY <1>4, <1>5, <1>6

LEMMA CallWeakSetHolds ==
  ASSUME CInv, CallWeakSet
  PROVE  CInv'
<1>1. PICK c \in Reached("WeakSet"), name \in {"add", "delete"}, k \in Keys :
        CallWeak(c, WeakSetMethod(colls[c].id, name, k), AfterWeak(added[c], name, k, "nil"))
  BY DEF CallWeakSet
<1>2. c \in WeakOnes /\ colls[c].kind = "WeakSet" BY DEF Reached, WeakOnes, Weak
<1>3. /\ weakRefs' = WeakSetMethod(colls[c].id, name, k).refs
      /\ added' = [added EXCEPT ![c] = AfterWeak(added[c], name, k, "nil")]
      /\ UNCHANGED <<colls, walks, go>> /\ Quiet
  BY <1>1 DEF CallWeak
<1>4. CASE name = "add" /\ k \in Objects
  <2>1. weakRefs' = Attach(weakRefs, colls[c].id, k, "nil") BY <1>3, <1>4 DEF WeakSetMethod, WeakReturns
  <2>2. added' = [added EXCEPT ![c] = Without(added[c], k) \cup {<<k, "nil">>}] BY <1>3, <1>4 DEF AfterWeak
  <2>3. WeakSets(c) BY <1>4, <2>1, <2>2 DEF WeakSets
  <2> QED BY <1>2, <1>3, <2>3, WeakSetsHolds
<1>5. CASE name = "delete" /\ k \in Objects
  <2>1. weakRefs' = Detach(weakRefs, colls[c].id, k) BY <1>3, <1>5 DEF WeakSetMethod, WeakReturns
  <2>2. added' = [added EXCEPT ![c] = Without(added[c], k)] BY <1>3, <1>5 DEF AfterWeak
  <2>3. WeakSets(c) BY <1>5, <2>1, <2>2 DEF WeakSets
  <2> QED BY <1>2, <1>3, <2>3, WeakSetsHolds
<1>6. CASE k \notin Objects
  <2>1. weakRefs' = weakRefs BY <1>3, <1>6 DEF WeakSetMethod, WeakReturns
  <2>2. AfterWeak(added[c], name, k, "nil") = added[c]
    <3>1. Without(added[c], k) = added[c] BY <1>2, <1>6, WithoutNone
    <3> QED BY <1>6, <3>1 DEF AfterWeak
  <2>3. added' = added BY <1>3, <2>2, AddedSame
  <2>4. WeakSets(c) BY <2>1, <2>3 DEF WeakSets
  <2> QED BY <1>2, <1>3, <2>4, WeakSetsHolds
<1> QED BY <1>4, <1>5, <1>6

LEMMA MethodsHold ==
  ASSUME CInv, CallMap \/ CallSet
  PROVE  CInv'
<1>1. PICK c \in DOMAIN colls : colls[c].reached /\ \E r : CallEntries(c, r) BY DEF CallMap, CallSet, Reached
<1> QED BY <1>1, CallsEntries

LEMMA IteratesHolds ==
  ASSUME CInv, Iterates
  PROVE  CInv'
<1>1. Quiet /\ UNCHANGED <<colls, weakRefs, go, added>> BY DEF Iterates
<1>2. \E c, kind : walks' = Append(walks, Walk(c, kind)) BY DEF Iterates, createMapIterator, createSetIterator
<1>3. WalkInv' BY <1>2, WalksAppend DEF CInv
<1>4. WeakInv' BY <1>1, SameContents, ContentsWeak
<1>5. FrameInv' BY <1>1, FramesStay DEF CInv
<1> QED BY <1>1, <1>3, <1>4, <1>5, QuietHolds DEF CInv

LEMMA CallNextHolds ==
  ASSUME CInv, CallNext
  PROVE  CInv'
<1>1. last' = <<>> /\ UNCHANGED <<colls, weakRefs, go, added>> BY DEF CallNext
<1>2. PICK i \in DOMAIN walks : walks' = [walks EXCEPT ![i] = Said(Nexts(walks[i]))] /\ answer' = <<i, walks[i].over, Nexts(walks[i]).item>>
  BY DEF CallNext
<1>3. WalkOk(walks[i]) BY DEF CInv, WalkInv
<1>4. walks[i].over => Nexts(walks[i]).item = <<>> BY <1>3, NextsOk
<1>5. AnswerInv' BY <1>2, <1>4 DEF AnswerInv
<1>6. WalkInv' BY <1>2, WalksAdvance DEF CInv
<1>7. WeakInv' BY <1>1, SameContents, ContentsWeak
<1>8. FrameInv' BY <1>1, FramesStay DEF CInv
<1>9. LastInv' BY <1>1 DEF LastInv
<1> QED BY <1>5, <1>6, <1>7, <1>8, <1>9 DEF CInv
(* Calls that begin.                                                       *)
LEMMA EmptyIs == IsSeq(<<>>) /\ DOMAIN <<>> = {}
<1>1. <<>> \in Seq({}) OBVIOUS
<1>2. IsSeq(<<>>) BY <1>1, IsSequence
<1>3. DOMAIN <<>> = {} OBVIOUS
<1> QED BY <1>2, <1>3

LEMMA ConstructBegins ==
  ASSUME NEW c, NEW own \in BOOLEAN, NEW src, DOMAIN src = SourceFields, src.state = "open", src.returns = 0,
         NEW g, g = Frame("construct", c, own, src)
  PROVE  FrameOk(g) /\ g.op = "construct" /\ g.c = c /\ g.own = own /\ Taken(g) = <<>>
<1>1. FrameShape(g) BY DEF Frame, FrameShape, FrameFields
<1>2. g.op = "construct" /\ g.c = c /\ g.own = own /\ g.src = src /\ g.in = "next" /\ g.got = <<>> /\ g.failed = FALSE BY DEF Frame
<1>3. SourceOk(g) BY <1>2 DEF SourceOk
<1>4. FrameOk(g) BY <1>1, <1>2, <1>3, EmptyIs DEF FrameOk
<1>5. Taken(g) = <<>> BY <1>2 DEF Taken
<1> QED BY <1>2, <1>4, <1>5

LEMMA CallBegins ==
  ASSUME NEW op \in {"forOf", "forEach"}, NEW c,
         NEW src, DOMAIN src = SourceFields, src.state = "open", src.returns = 0, op = "forEach" => src.kind \in {"map", "set"}
  PROVE  FrameOk(Frame(op, c, TRUE, src)) /\ Frame(op, c, TRUE, src).op = op
<1> DEFINE g == Frame(op, c, TRUE, src)
<1>1. FrameShape(g) BY DEF Frame, FrameShape, FrameFields
<1>2. g.op = op /\ g.own = TRUE /\ g.src = src /\ g.in = "next" /\ g.got = <<>> /\ g.failed = FALSE BY DEF Frame
<1> HIDE DEF g
<1>3. SourceOk(g) BY <1>2 DEF SourceOk
<1>4. FrameOk(g) BY <1>1, <1>2, <1>3, EmptyIs DEF FrameOk
<1> QED BY <1>2, <1>4 DEF g

LEMMA SourceIs ==
  ASSUME NEW kind, NEW items, NEW walk, NEW has
  PROVE  LET src == Source(kind, items, walk, has)
         IN DOMAIN src = SourceFields /\ src.state = "open" /\ src.returns = 0 /\ src.kind = kind
BY DEF Source, SourceFields

LEMMA SourcesOpen ==
  ASSUME NEW src \in Sources
  PROVE  DOMAIN src = SourceFields /\ src.state = "open" /\ src.returns = 0
<1>1. \E kind, items, walk, has : src = Source(kind, items, walk, has) BY DEF Sources
<1> QED BY <1>1, SourceIs

LEMMA ConstructsHolds ==
  ASSUME CInv, NEW kind, NEW own \in BOOLEAN, NEW src \in Sources, Constructs(kind, own, src), Quiet, UNCHANGED <<weakRefs, walks>>
  PROVE  CInv'
<1> SUFFICES ASSUME NEW n, n = Len(colls) + 1, NEW g, g = Frame("construct", n, own, src) PROVE CInv'
  OBVIOUS
<1>1. colls' = Append(colls, Made(kind)) /\ added' = Append(added, {}) /\ go' = Append(go, g) BY DEF Constructs, Made
<1>2. WeakInv' /\ MadeAt(kind, n) BY <1>1, WeakMade DEF CInv
<1>3. FrameOk(g) /\ g.op = "construct" /\ g.c = n /\ g.own = own /\ Taken(g) = <<>> BY SourcesOpen, ConstructBegins
<1>4. colls'[n] = Made(kind) /\ n \in DOMAIN colls' \ DOMAIN colls /\ \A c \in DOMAIN colls : c \in DOMAIN colls' /\ colls'[c] = colls[c]
  BY <1>2 DEF MadeAt
<1>5. Filled(g, Made(kind))
  <2>1. Made(kind).reached = FALSE /\ Made(kind).entries = <<>> BY DEF Made
  <2>2. Whole(<<>>) BY EmptyIs DEF Whole
  <2>3. Alive(<<>>) = {} BY EmptyIs DEF Alive
  <2>4. DOMAIN PairsOf(g, Made(kind).kind) = {} BY <1>3, EmptyIs DEF PairsOf
  <2>5. MadeOf(<<>>, PairsOf(g, Made(kind).kind)) BY <2>3, <2>4 DEF MadeOf
  <2> QED BY <2>1, <2>2, <2>5 DEF Filled
<1>6. FrameInv' BY <1>1, <1>3, <1>4, <1>5, FramesPush DEF CInv
<1> QED BY <1>2, <1>6, WalksStay, QuietHolds DEF CInv

LEMMA NewHolds ==
  ASSUME CInv, New
  PROVE  CInv'
<1> DEFINE kind == cast.kinds[Len(colls) + 1]
<1>1. PICK own \in BOOLEAN, src \in Fitting(kind) : Constructs(kind, own, src)
  BY DEF New, NewMap, NewSet, NewWeakMap, NewWeakSet
<1>2. src \in Sources BY DEF Fitting
<1> HIDE DEF kind
<1>3. Quiet /\ UNCHANGED <<weakRefs, walks>> BY DEF New
<1> SUFFICES ASSUME NEW k, k = kind PROVE CInv'
  OBVIOUS
<1>4. Constructs(k, own, src) BY <1>1
<1> QED BY <1>2, <1>3, <1>4, ConstructsHolds

LEMMA BeginsHolds ==
  ASSUME CInv, NEW g, FrameOk(g), g.op # "construct", go' = Append(go, g), Quiet, UNCHANGED <<colls, weakRefs, walks, added>>
  PROVE  CInv'
<1>1. ~Fills(g) BY DEF Fills
<1>2. FrameInv' BY <1>1, FramesPush DEF CInv
<1>3. WeakInv' BY SameContents, ContentsWeak
<1> QED BY <1>2, <1>3, WalksStay, QuietHolds DEF CInv

LEMMA GoForOfHolds ==
  ASSUME CInv, GoForOf
  PROVE  CInv'
<1>1. PICK src \in Sources : go' = Append(go, Frame("forOf", 0, TRUE, src)) BY DEF GoForOf
<1> SUFFICES ASSUME NEW g, g = Frame("forOf", 0, TRUE, src), go' = Append(go, g) PROVE CInv'
  BY <1>1
<1>2. FrameOk(g) /\ g.op = "forOf"
  <2>1. DOMAIN src = SourceFields /\ src.state = "open" /\ src.returns = 0 BY SourcesOpen
  <2> QED BY <2>1, CallBegins
<1>3. Quiet /\ UNCHANGED <<colls, weakRefs, walks, added>> BY DEF GoForOf
<1> QED BY <1>1, <1>2, <1>3, BeginsHolds

LEMMA ForEachHolds ==
  ASSUME CInv, ForEach
  PROVE  CInv'
<1>1. PICK kind \in {"map", "set"} : \E c : go' = Append(go, Frame("forEach", c, TRUE, Source(kind, <<>>, 0, FALSE)))
  BY DEF ForEach, mapForEach, setForEach
<1>2. PICK c : go' = Append(go, Frame("forEach", c, TRUE, Source(kind, <<>>, 0, FALSE))) BY <1>1
<1> SUFFICES ASSUME NEW src, src = Source(kind, <<>>, 0, FALSE) PROVE CInv'
  OBVIOUS
<1>3. DOMAIN src = SourceFields /\ src.state = "open" /\ src.returns = 0 /\ src.kind = kind BY DEF Source, SourceFields
<1> SUFFICES ASSUME NEW g, g = Frame("forEach", c, TRUE, src), go' = Append(go, g) PROVE CInv'
  BY <1>2
<1>4. FrameOk(g) /\ g.op = "forEach" BY <1>3, CallBegins
<1>5. Quiet /\ UNCHANGED <<colls, weakRefs, walks, added>> BY DEF ForEach
<1> QED BY <1>2, <1>4, <1>5, BeginsHolds
(* Calls that go on.                                                       *)
LEMMA Unchanging ==
  ASSUME CInv, go # <<>>, UNCHANGED colls
  PROVE  Others /\ Contents /\ (F.op = "construct" => colls'[F.c].entries = colls[F.c].entries)
<1>1. Contents BY SameContents
<1>2. Others BY DEF Others
<1> QED BY <1>1, <1>2

LEMMA PutsUnchanging ==
  ASSUME CInv, go # <<>>, UNCHANGED <<colls, weakRefs, walks, added>>, NEW g, FrameOk(g), Like(g, F), Put(g)
  PROVE  CInv'
<1>1. Others /\ Contents BY Unchanging
<1>2. Puts(g) BY <1>1 DEF Puts
<1>3. FrameInv' /\ LastInv' /\ AnswerInv' BY <1>2, PutsHolds
<1>4. WeakInv' BY <1>1, ContentsWeak
<1> QED BY <1>3, <1>4, WalksStay DEF CInv

LEMMA EndsUnchanging ==
  ASSUME CInv, go # <<>>, UNCHANGED <<colls, weakRefs, walks, added>>, NEW f, NEW how, Like(f, F), EndsWell(f, how), Ends(f, how)
  PROVE  CInv'
<1>1. Others /\ Contents /\ (F.op = "construct" => colls'[F.c].entries = colls[F.c].entries) BY Unchanging
<1>2. FrameInv' /\ LastInv' /\ AnswerInv' BY <1>1, EndsHolds
<1>3. WeakInv' BY <1>1, ContentsWeak
<1> QED BY <1>2, <1>3, WalksStay DEF CInv

LEMMA TopOk ==
  ASSUME CInv, go # <<>>
  PROVE  FrameOk(F) /\ FrameShape(F) /\ SourceOk(F)
<1>1. FrameOk(F) BY TopIs DEF CInv
<1> QED BY <1>1 DEF FrameOk

(* A step fails or stops.                                                  *)
LEMMA returnIterHolds ==
  ASSUME CInv, go # <<>>, UNCHANGED <<colls, weakRefs, walks, added>>, NEW how, how # "returned",
         F.in # "return", F.in = "item" \/ F.own, returnIter(F, how)
  PROVE  CInv'
<1>1. FrameOk(F) /\ FrameShape(F) /\ SourceOk(F) BY TopOk
<1> SUFFICES ASSUME NEW f, f = F PROVE CInv'
  OBVIOUS
<1>3. CASE f.src.has
  <2>1. FrameOk(Closing(f, how)) /\ Like(Closing(f, how), f) BY <1>1, <1>3, ClosesOk
  <2>2. Put(Closing(f, how)) BY <1>3 DEF returnIter, Closing
  <2> QED BY <2>1, <2>2, PutsUnchanging
<1>4. CASE ~f.src.has
  <2> SUFFICES ASSUME NEW g, g = [f EXCEPT !.failed = TRUE, !.how = how] PROVE CInv'
    OBVIOUS
  <2>1. Ends(g, how) BY <1>4 DEF returnIter
  <2>2. /\ g.op = f.op /\ g.c = f.c /\ g.own = f.own /\ g.src = f.src /\ g.failed = TRUE /\ g.got = f.got /\ g.in = f.in
    BY <1>1 DEF FrameShape, FrameFields
  <2>3. f.src.state = "open" /\ f.src.returns = 0 BY <1>1 DEF SourceOk
  <2>4. ~f.own => f.in = "item" OBVIOUS
  <2>5. Like(g, f) BY <2>2, <2>4 DEF Like, Taken
  <2>6. EndsWell(g, how) BY <1>4, <2>2, <2>3 DEF EndsWell
  <2> QED BY <2>1, <2>5, <2>6, EndsUnchanging
<1> QED BY <1>3, <1>4

(* The source says that it is done; a constructor gives its object.        *)
LEMMA ExhaustedHolds ==
  ASSUME CInv, go # <<>>, F.in = "next", Exhausted(F), Reaching, UNCHANGED <<weakRefs, added>>
  PROVE  WeakInv' /\ FrameInv' /\ LastInv' /\ AnswerInv'
<1>1. FrameOk(F) /\ FrameShape(F) /\ SourceOk(F) BY TopOk
<1> SUFFICES ASSUME NEW f, f = F, NEW g, g = [f EXCEPT !.src.state = "ended"]
             PROVE  WeakInv' /\ FrameInv' /\ LastInv' /\ AnswerInv'
  OBVIOUS
<1>2. Ends(g, "returned") BY DEF Exhausted
<1>3. /\ g.op = f.op /\ g.c = f.c /\ g.own = f.own /\ g.failed = f.failed /\ g.got = f.got /\ g.in = f.in
      /\ g.src.state = "ended" /\ g.src.returns = f.src.returns
  BY <1>1 DEF FrameShape, FrameFields, SourceFields
<1>4. ~f.failed /\ f.src.returns = 0 BY <1>1 DEF SourceOk
<1>5. Like(g, f) BY <1>3 DEF Like, Taken
<1>6. EndsWell(g, "returned") BY <1>3, <1>4 DEF EndsWell
<1>7. last' # <<>> /\ last'[2] = "returned" BY <1>2 DEF Ends
<1>8. colls' = IF F.op = "construct" THEN [colls EXCEPT ![F.c].reached = TRUE] ELSE colls BY <1>7 DEF Reaching
<1>9. Others /\ Contents /\ (F.op = "construct" => colls'[F.c].entries = colls[F.c].entries)
  <2>1. CASE F.op # "construct"
    <3>1. UNCHANGED colls BY <1>8, <2>1
    <3> QED BY <3>1, Unchanging
  <2>2. CASE F.op = "construct"
    <3> SUFFICES ASSUME NEW c, c = F.c PROVE Others /\ Contents /\ colls'[c].entries = colls[c].entries
      OBVIOUS
    <3>1. colls' = [colls EXCEPT ![c].reached = TRUE] BY <1>8, <2>2
    <3>2. /\ Contents
          /\ \A d \in DOMAIN colls : colls'[d].entries = colls[d].entries
          /\ \A d \in DOMAIN colls \ {c} : colls'[d] = colls[d]
      BY <3>1, ReachedChanges
    <3>3. c \in DOMAIN colls BY <2>2, TopIs DEF CInv
    <3>4. DOMAIN colls' = DOMAIN colls BY <3>2 DEF Contents
    <3>5. FrameInv BY DEF CInv
    <3>6. \A d \in DOMAIN colls : d # F.c \/ F.op # "construct" => colls'[d] = colls[d] BY <2>2, <3>2
    <3>7. Others BY <3>4, <3>5, <3>6, OthersStay
    <3> QED BY <3>2, <3>3, <3>7
  <2> QED BY <2>1, <2>2
<1>10. FrameInv' /\ LastInv' /\ AnswerInv' BY <1>2, <1>5, <1>6, <1>9, EndsHolds
<1> QED BY <1>9, <1>10, ContentsWeak

LEMMA ReachingNot ==
  ASSUME Reaching, last' = <<>> \/ last'[2] # "returned"
  PROVE  UNCHANGED colls
BY DEF Reaching

(* The source has an item.                                                 *)
LEMMA GivesHolds ==
  ASSUME CInv, go # <<>>, F.in = "next", NEW item, Gives(F, item), Reaching, UNCHANGED <<weakRefs, added>>
  PROVE  WeakInv' /\ FrameInv' /\ LastInv' /\ AnswerInv'
<1>1. FrameOk(F) BY TopOk
<1> SUFFICES ASSUME NEW f, f = F, NEW g, g = To([f EXCEPT !.at = @ + 1, !.got = Append(IF f.own THEN <<>> ELSE @, item)], "native", "item")
             PROVE  WeakInv' /\ FrameInv' /\ LastInv' /\ AnswerInv'
  OBVIOUS
<1>2. Put(g) BY DEF Gives
<1>3. FrameOk(g) /\ Like(g, f) BY <1>1, GivesOk
<1>4. last' = <<>> BY <1>2 DEF Put, Quiet
<1>5. UNCHANGED colls BY <1>4, ReachingNot
<1>6. Others /\ Contents BY <1>5, Unchanging
<1>7. Puts(g) BY <1>2, <1>3, <1>5, <1>6 DEF Puts
<1>8. FrameInv' /\ LastInv' /\ AnswerInv' BY <1>7, PutsHolds
<1> QED BY <1>6, <1>8, ContentsWeak
LEMMA AsksSourceHolds ==
  ASSUME CInv, AsksSource
  PROVE  CInv'
<1>1. go # <<>> /\ F.in = "next" /\ Reaching /\ UNCHANGED <<weakRefs, added>> BY DEF AsksSource, Native
<1>2. FrameOk(F) /\ FrameShape(F) /\ SourceOk(F) BY <1>1, TopOk
<1>3. F.src.state = "open" /\ F.src.returns = 0 /\ ~F.failed BY <1>1, <1>2 DEF SourceOk
<1>4. CASE F.src.kind = "foreign" /\ Put(Asks(F)) /\ UNCHANGED walks
  <2>1. Asks(F) = To(F, "user", "next") BY <1>3 DEF Asks
  <2> SUFFICES ASSUME NEW f, f = F, NEW g, g = To(f, "user", "next"), Put(g) PROVE CInv'
    BY <1>4, <2>1
  <2>2. FrameOk(g) /\ Like(g, f) BY <1>1, <1>2, ToOk
  <2>3. last' = <<>> BY DEF Put, Quiet
  <2>4. UNCHANGED colls BY <1>1, <2>3, ReachingNot
  <2> QED BY <1>1, <1>4, <2>2, <2>4, PutsUnchanging
<1>5. CASE F.src.kind = "nonext" /\ Ends(F, "threw") /\ UNCHANGED walks
  <2>1. last' # <<>> /\ last'[2] = "threw" BY <1>5 DEF Ends
  <2>2. UNCHANGED colls BY <1>1, <2>1, ReachingNot
  <2>3. Like(F, F) BY DEF Like
  <2>4. EndsWell(F, "threw") BY <1>3 DEF EndsWell
  <2> QED BY <1>1, <1>5, <2>2, <2>3, <2>4, EndsUnchanging
<1>6. CASE UNCHANGED walks /\ (Exhausted(F) \/ \E item : Gives(F, item))
  <2>1. WeakInv' /\ FrameInv' /\ LastInv' /\ AnswerInv' BY <1>1, <1>6, ExhaustedHolds, GivesHolds
  <2> QED BY <1>6, <2>1, WalksStay DEF CInv
<1>7. CASE /\ walks' = [walks EXCEPT ![F.src.walk] = Said(Nexts(walks[F.src.walk]))]
           /\ Exhausted(F) \/ \E item : Gives(F, item)
  <2>1. WeakInv' /\ FrameInv' /\ LastInv' /\ AnswerInv' BY <1>1, <1>7, ExhaustedHolds, GivesHolds
  <2> SUFFICES ASSUME NEW i, i = F.src.walk PROVE CInv'
    OBVIOUS
  <2>2. walks' = [walks EXCEPT ![i] = Said(Nexts(walks[i]))] BY <1>7
  <2>3. WalkInv' BY <2>2, WalksAdvance DEF CInv
  <2> QED BY <2>1, <2>3 DEF CInv
<1> QED BY <1>4, <1>5, <1>6, <1>7 DEF AsksSource

LEMMA SourceAnswersHolds ==
  ASSUME CInv, SourceAnswers
  PROVE  CInv'
<1>1. go # <<>> /\ F.in = "next" /\ Reaching /\ UNCHANGED <<weakRefs, walks, added>> BY DEF SourceAnswers, InUser
<1>2. FrameOk(F) /\ FrameShape(F) /\ SourceOk(F) BY <1>1, TopOk
<1>3. CASE Ends([F EXCEPT !.src.state = "ended"], "threw")
  <2> SUFFICES ASSUME NEW f, f = F, NEW g, g = [f EXCEPT !.src.state = "ended"], Ends(g, "threw") PROVE CInv'
    BY <1>3
  <2>1. /\ g.op = f.op /\ g.c = f.c /\ g.own = f.own /\ g.failed = f.failed /\ g.got = f.got /\ g.in = f.in
        /\ g.src.state = "ended" /\ g.src.returns = f.src.returns
    BY <1>2 DEF FrameShape, FrameFields, SourceFields
  <2>2. ~f.failed /\ f.src.returns = 0 BY <1>1, <1>2 DEF SourceOk
  <2>3. Like(g, f) BY <2>1 DEF Like, Taken
  <2>4. EndsWell(g, "threw") BY <2>1, <2>2 DEF EndsWell
  <2>5. last' # <<>> /\ last'[2] = "threw" BY DEF Ends
  <2>6. UNCHANGED colls BY <1>1, <2>5, ReachingNot
  <2> QED BY <1>1, <2>3, <2>4, <2>6, EndsUnchanging
<1>4. CASE Exhausted(F) \/ \E item : Gives(F, item)
  <2>1. WeakInv' /\ FrameInv' /\ LastInv' /\ AnswerInv' BY <1>1, <1>4, ExhaustedHolds, GivesHolds
  <2> QED BY <1>1, <2>1, WalksStay DEF CInv
<1> QED BY <1>3, <1>4 DEF SourceAnswers

(* A constructor with the adder of the prototype: what it adds is what its *)
(* source gave last.                                                       *)
LEMMA AddsItemHolds ==
  ASSUME CInv, AddsItem
  PROVE  CInv'
<1>1. go # <<>> /\ F.in = "item" /\ F.op = "construct" /\ ~F.own /\ UNCHANGED walks BY DEF AddsItem, Native
<1>2. FrameOk(F) /\ FrameShape(F) /\ SourceOk(F) BY <1>1, TopOk
<1>3. F.c \in DOMAIN colls /\ Fills(F) /\ Filled(F, colls[F.c]) BY <1>1, TopIs DEF CInv, Fills
<1>4. CASE Rejects /\ Threw /\ UNCHANGED <<colls, weakRefs, added>>
  <2>1. returnIter(F, "threw") BY <1>4 DEF Threw
  <2>2. "threw" # "returned" /\ F.in # "return" BY <1>1
  <2> QED BY <1>1, <1>4, <2>1, <2>2, returnIterHolds
<1>5. CASE ~Rejects /\ Put(To(F, "native", "next"))
  <2> SUFFICES ASSUME NEW f, f = F, NEW c, c = f.c, NEW g, g = To(f, "native", "next"), Put(g) PROVE CInv'
    BY <1>5
  <2>1. /\ FrameShape(g) /\ g.in = "next" /\ g.got = f.got /\ g.op = f.op /\ g.c = f.c /\ g.own = f.own /\ g.src = f.src /\ g.failed = f.failed
    BY <1>2 DEF FrameShape, FrameFields, To
  <2>2. ~f.failed BY <1>1, <1>2 DEF SourceOk
  <2>3. FrameOk(g)
    <3>1. SourceOk(g) BY <1>1, <1>2, <2>1 DEF SourceOk
    <3> QED BY <1>1, <1>2, <2>1, <2>2, <3>1 DEF FrameOk
  <2>4. IsSeq(f.got) /\ f.got # <<>> BY <1>1, <1>2 DEF FrameOk
  <2>5. Taken(f) = Front(f.got) /\ Taken(g) = f.got BY <1>1, <2>1, <2>2 DEF Taken
  <2>6. go' = Append(Front(go), g) /\ Quiet BY DEF Put
  <2>7. FrameInv BY DEF CInv
  <2>8. CASE Weak(Kind)
    <3>1. /\ weakRefs' = Attach(weakRefs, colls[c].id, Key, Value) /\ UNCHANGED colls
          /\ added' = [added EXCEPT ![c] = Without(added[c], Key) \cup {<<Key, Value>>}]
      BY <1>5, <2>8 DEF AddsItem
    <3>2. c \in WeakOnes BY <1>3, <2>8 DEF WeakOnes, Kind
    <3>3. Key \in Objects BY <1>5, <2>8 DEF Rejects, Weak
    <3>4. colls[c].kind = "WeakSet" => Value = "nil" BY DEF Value, Kind, Entry, Paired
    <3>5. WeakInv'
      <4> SUFFICES ASSUME NEW k \in Objects, k = Key, NEW v, v = Value PROVE WeakInv'
        BY <3>3
      <4>1. /\ weakRefs' = Attach(weakRefs, colls[c].id, k, v)
            /\ added' = [added EXCEPT ![c] = Without(added[c], k) \cup {<<k, v>>}]
        BY <3>1
      <4>2. WeakInv /\ UNCHANGED colls /\ (colls[c].kind = "WeakSet" => v = "nil") BY <3>1, <3>4 DEF CInv
      <4> QED BY ONLY <3>2, k \in Objects, <4>1, <4>2, WeakAttaches
    <3>6. Others BY <3>1, <1>1, Unchanging
    <3>7. Filled(g, colls'[g.c])
      <4>1. ~colls[c].reached /\ Weak(colls[c].kind) BY <1>3, <2>8 DEF Filled, Kind
      <4> QED BY <2>1, <3>1, <4>1 DEF Filled
    <3>8. FrameInv' BY <1>1, <2>1, <2>3, <2>6, <2>7, <3>6, <3>7, FramesPut
    <3> QED BY <1>1, <2>6, <3>5, <3>8, WalksStay, QuietHolds DEF CInv
  <2>9. CASE ~Weak(Kind)
    <3> SUFFICES ASSUME NEW E, E = colls[c].entries, NEW k, k = Key, NEW v, v = Value, NEW x, x = Set(E, k, v) PROVE CInv'
      OBVIOUS
    <3>1. colls' = [colls EXCEPT ![c].entries = x] /\ UNCHANGED <<weakRefs, added>> BY <1>5, <2>9 DEF AddsItem
    <3>2. /\ Contents /\ colls'[c].entries = x /\ colls'[c].reached = colls[c].reached
          /\ \A d \in DOMAIN colls \ {c} : colls'[d] = colls[d]
      <4>1. c \in DOMAIN colls BY <1>3
      <4>2. colls' = [colls EXCEPT ![c].entries = x] BY <3>1
      <4> QED BY ONLY CInv, <4>1, <4>2, EntriesChange
    <3>3. WeakInv' BY <3>1, <3>2, ContentsWeak
    <3>4. DOMAIN colls' = DOMAIN colls BY <3>2 DEF Contents
    <3>5. \A d \in DOMAIN colls : d # F.c \/ F.op # "construct" => colls'[d] = colls[d] BY <1>1, <3>2
    <3>6. Others BY <1>1, <2>7, <3>4, <3>5, OthersStay
    <3>7. Filled(g, colls'[g.c])
      <4> SUFFICES ASSUME NEW kind, kind = colls[c].kind PROVE Filled(g, colls'[g.c])
        OBVIOUS
      <4>1. ~colls[c].reached /\ Whole(E) /\ MadeOf(E, PairsOf(f, kind)) BY <1>3, <2>9 DEF Filled, Kind
      <4> SUFFICES ASSUME NEW item, item = Last(f.got), NEW q, q = Front(f.got) PROVE Filled(g, colls'[g.c])
        OBVIOUS
      <4>2. IsSeq(q) BY <2>4, PopIs DEF Front
      <4>3. f.got = Append(q, item) BY <2>4, SplitIs DEF Front, Last
      <4>4. Entry(kind, item)[1] = k /\ Entry(kind, item)[2] = v BY DEF Key, Value, Kind, Item
      <4>5. Taken(f) = q /\ Taken(g) = Append(q, item) BY <2>5, <4>3
      <4>6. Whole(x) /\ MadeOf(x, PairsOf(g, kind)) BY <4>1, <4>2, <4>4, <4>5, PairsMore
      <4>7. colls'[c].kind = kind BY <1>3, <3>2 DEF Contents
      <4> QED BY <2>1, <3>2, <4>1, <4>6, <4>7 DEF Filled
    <3>8. FrameInv' BY <1>1, <2>1, <2>3, <2>6, <2>7, <3>6, <3>7, FramesPut
    <3> QED BY <1>1, <2>6, <3>3, <3>8, WalksStay, QuietHolds DEF CInv
  <2> QED BY <2>8, <2>9
<1> QED BY <1>4, <1>5 DEF AddsItem
LEMMA CallsAdderHolds ==
  ASSUME CInv, CallsAdder
  PROVE  CInv'
<1>1. go # <<>> /\ F.in = "item" /\ F.op = "construct" /\ F.own /\ UNCHANGED <<weakRefs, walks, added>> BY DEF CallsAdder, Native
<1>2. FrameOk(F) BY <1>1, TopOk
<1>3. CASE Threw /\ UNCHANGED colls
  <2>1. returnIter(F, "threw") BY <1>3 DEF Threw
  <2>2. "threw" # "returned" /\ F.in # "return" BY <1>1
  <2> QED BY <1>1, <1>3, <2>1, <2>2, returnIterHolds
<1>4. CASE Put(To(F, "user", "adder")) /\ colls' = [colls EXCEPT ![F.c].reached = TRUE]
  <2> SUFFICES ASSUME NEW f, f = F, NEW c, c = f.c, NEW g, g = To(f, "user", "adder"), Put(g) PROVE CInv'
    BY <1>4
  <2>1. FrameOk(g) /\ Like(g, f)
    <3>1. "adder" \notin {"return", "item"} /\ f.in # "return" BY <1>1
    <3> QED BY <1>1, <1>2, <3>1, ToOk
  <2>2. colls' = [colls EXCEPT ![c].reached = TRUE] BY <1>4
  <2>3. Contents /\ \A d \in DOMAIN colls \ {c} : colls'[d] = colls[d] BY <2>2, ReachedChanges
  <2>4. DOMAIN colls' = DOMAIN colls BY <2>3 DEF Contents
  <2>5. \A d \in DOMAIN colls : d # F.c \/ F.op # "construct" => colls'[d] = colls[d] BY <1>1, <2>3
  <2>6. FrameInv BY DEF CInv
  <2>7. Others BY <1>1, <2>4, <2>5, <2>6, OthersStay
  <2>8. ~Fills(F) BY <1>1 DEF Fills
  <2>9. Puts(g) BY <1>1, <2>1, <2>3, <2>7, <2>8 DEF Puts
  <2>10. FrameInv' /\ LastInv' /\ AnswerInv' BY <2>9, PutsHolds
  <2>11. WeakInv' BY <1>1, <2>3, ContentsWeak
  <2> QED BY <1>1, <2>10, <2>11, WalksStay DEF CInv
<1> QED BY <1>3, <1>4 DEF CallsAdder

(* Steps of ForOf and of forEach, and what they and adders do in the end.  *)
LEMMA StepsHold ==
  ASSUME CInv, StepsForOf \/ StepReturns \/ StepThrows \/ StepStops
  PROVE  CInv'
<1>1. go # <<>> /\ UNCHANGED <<colls, weakRefs, walks, added>> BY DEF StepsForOf, StepReturns, StepThrows, StepStops, Native, InUser
<1>2. FrameOk(F) BY <1>1, TopOk
<1> SUFFICES ASSUME NEW f, f = F PROVE CInv'
  OBVIOUS
<1>3. CASE StepsForOf
  <2>1. f.in = "item" /\ f.op = "forOf" BY <1>3 DEF StepsForOf, Native
  <2>2. f.own BY <1>2, <2>1 DEF FrameOk
  <2> SUFFICES ASSUME NEW g, g = To(f, "user", "step"), Put(g) PROVE CInv'
    BY <1>3 DEF StepsForOf
  <2>3. FrameOk(g) /\ Like(g, f)
    <3>1. "step" \notin {"return", "item"} /\ f.in # "return" BY <2>1
    <3> QED BY <1>2, <2>2, <3>1, ToOk
  <2> QED BY <1>1, <2>3, PutsUnchanging
<1>4. CASE StepReturns
  <2>1. f.in \in {"adder", "step"} BY <1>4 DEF StepReturns, InUser
  <2>2. f.own BY <1>2, <2>1 DEF FrameOk
  <2> SUFFICES ASSUME NEW g, g = [To(f, "native", "next") EXCEPT !.got = IF f.own THEN <<>> ELSE @], Put(g) PROVE CInv'
    BY <1>4 DEF StepReturns
  <2>3. FrameOk(g) /\ Like(g, f) BY <1>2, <2>1, <2>2, ReturnsOk
  <2> QED BY <1>1, <2>3, PutsUnchanging
<1>5. CASE StepThrows
  <2>1. f.in \in {"adder", "step"} /\ returnIter(F, "threw") BY <1>5 DEF StepThrows, InUser, Threw
  <2>2. f.own BY <1>2, <2>1 DEF FrameOk
  <2>3. "threw" # "returned" /\ F.in # "return" BY <2>1
  <2> QED BY <1>1, <2>1, <2>2, <2>3, returnIterHolds
<1>6. CASE StepStops
  <2>1. f.in = "step" /\ returnIter(F, "stopped") BY <1>6 DEF StepStops, InUser
  <2>2. f.own BY <1>2, <2>1 DEF FrameOk
  <2>3. "stopped" # "returned" /\ F.in # "return" BY <2>1
  <2> QED BY <1>1, <2>1, <2>2, <2>3, returnIterHolds
<1> QED BY <1>3, <1>4, <1>5, <1>6

LEMMA SourceReturnsHolds ==
  ASSUME CInv, SourceReturns
  PROVE  CInv'
<1>1. go # <<>> /\ F.in = "return" /\ UNCHANGED <<colls, weakRefs, walks, added>> BY DEF SourceReturns, InUser
<1>2. SourceOk(F) BY <1>1, TopOk
<1>3. F.src.state = "closed" /\ F.src.returns = 1 /\ F.src.has /\ F.failed /\ F.how # "returned" BY <1>1, <1>2 DEF SourceOk
<1>4. Like(F, F) BY DEF Like
<1>5. PICK how : how # "returned" /\ Ends(F, how) BY <1>3 DEF SourceReturns
<1>6. EndsWell(F, how) BY <1>3, <1>5 DEF EndsWell
<1> QED BY <1>1, <1>4, <1>5, <1>6, EndsUnchanging

LEMMA EachHolds ==
  ASSUME CInv, Visits \/ CallbackReturns \/ CallbackThrows
  PROVE  CInv'
<1>1. go # <<>> /\ UNCHANGED <<colls, weakRefs, walks, added>> BY DEF Visits, CallbackReturns, CallbackThrows, Native, InUser
<1>2. FrameOk(F) /\ FrameShape(F) /\ SourceOk(F) BY <1>1, TopOk
<1> SUFFICES ASSUME NEW f, f = F PROVE CInv'
  OBVIOUS
<1>3. CASE Visits
  <2>1. f.in = "next" /\ f.op = "forEach" BY <1>3 DEF Visits, Native
  <2>2. f.src.kind # "foreign" /\ f.src.state = "open" /\ f.own BY <1>2, <2>1 DEF FrameOk, SourceOk
  <2>3. CASE Ends(f, "returned")
    <3>1. Like(f, f) BY DEF Like
    <3>2. EndsWell(f, "returned") BY <2>2 DEF EndsWell
    <3> QED BY <1>1, <2>3, <3>1, <3>2, EndsUnchanging
  <2>4. CASE \E at : Put(To([f EXCEPT !.at = at], "user", "callback"))
    <3>1. PICK at : Put(To([f EXCEPT !.at = at], "user", "callback")) BY <2>4
    <3> SUFFICES ASSUME NEW h, h = [f EXCEPT !.at = at], NEW g, g = To(h, "user", "callback"), Put(g) PROVE CInv'
      BY <3>1
    <3>2. /\ FrameShape(h) /\ h.in = f.in /\ h.got = f.got /\ h.op = f.op /\ h.c = f.c /\ h.own = f.own /\ h.src = f.src /\ h.failed = f.failed
      BY <1>2 DEF FrameShape, FrameFields
    <3>3. FrameOk(h)
      <4>1. SourceOk(h) BY <1>2, <2>1, <3>2 DEF SourceOk
      <4> QED BY <1>2, <2>1, <2>2, <3>2, <4>1 DEF FrameOk
    <3>4. FrameOk(g) /\ Like(g, h)
      <4>1. "callback" \notin {"return", "item"} /\ h.in # "return" /\ h.in # "item" /\ h.own BY <2>1, <2>2, <3>2
      <4> QED BY <3>3, <4>1, ToOk
    <3>5. Like(g, f) BY <2>2, <3>2, <3>4 DEF Like
    <3> QED BY <1>1, <3>4, <3>5, PutsUnchanging
  <2> QED BY <1>3, <2>3, <2>4 DEF Visits
<1>4. CASE CallbackReturns
  <2>1. f.in = "callback" BY <1>4 DEF CallbackReturns, InUser
  <2>2. f.own BY <1>2, <2>1 DEF FrameOk
  <2> SUFFICES ASSUME NEW g, g = To(f, "native", "next"), Put(g) PROVE CInv'
    BY <1>4 DEF CallbackReturns
  <2>3. FrameOk(g) /\ Like(g, f)
    <3>1. "next" \notin {"return", "item", "adder", "step", "callback"} /\ f.in # "return" BY <2>1
    <3> QED BY <1>2, <2>2, <3>1, ToOk
  <2> QED BY <1>1, <2>3, PutsUnchanging
<1>5. CASE CallbackThrows
  <2>1. f.in = "callback" /\ Ends(f, "threw") BY <1>5 DEF CallbackThrows, InUser
  <2>2. f.src.state = "open" /\ f.src.returns = 0 /\ ~f.failed BY <1>2, <2>1 DEF SourceOk
  <2>3. Like(f, f) BY DEF Like
  <2>4. EndsWell(f, "threw") BY <2>2 DEF EndsWell
  <2> QED BY <1>1, <2>1, <2>3, <2>4, EndsUnchanging
<1> QED BY <1>3, <1>4, <1>5
-----------------------------------------------------------------------------
(* The theorems.                                                           *)

LEMMA InitHolds ==
  ASSUME CollectionsInit
  PROVE  CInv
<1>1. /\ colls = <<>> /\ weakRefs = [o \in Objects |-> <<>>] /\ walks = <<>>
      /\ go = <<>> /\ last = <<>> /\ answer = <<>> /\ added = <<>>
  BY DEF CollectionsInit
<1>2. WeakOnes = {} BY <1>1, EmptyIs DEF WeakOnes
<1>3. WeakInv
  <2>1. \A o \in Objects : DOMAIN weakRefs[o] = {} BY <1>1, EmptyIs
  <2> QED BY <1>1, <1>2, <2>1, EmptyIs DEF WeakInv
<1>4. WalkInv BY <1>1, EmptyIs DEF WalkInv
<1>5. FrameInv BY <1>1, EmptyIs DEF FrameInv
<1> QED BY <1>1, <1>3, <1>4, <1>5 DEF CInv, AnswerInv, LastInv

LEMMA StepHolds ==
  ASSUME CInv, [CollectionsNext]_collectionVars
  PROVE  CInv'
<1>1. CASE UNCHANGED collectionVars
  <2>1. UNCHANGED <<colls, weakRefs, walks, go, last, answer, added>> BY <1>1 DEF collectionVars
  <2>2. WeakInv' BY <2>1, SameContents, ContentsWeak
  <2>3. FrameInv' BY <2>1, FramesStay DEF CInv
  <2>4. AnswerInv' /\ LastInv' BY <2>1 DEF CInv, AnswerInv, LastInv
  <2> QED BY <2>1, <2>2, <2>3, <2>4, WalksStay DEF CInv
<1>2. CASE CallMap \/ CallSet BY <1>2, MethodsHold
<1>3. CASE CallWeakMap BY <1>3, CallWeakMapHolds
<1>4. CASE CallWeakSet BY <1>4, CallWeakSetHolds
<1>5. CASE Iterates BY <1>5, IteratesHolds
<1>6. CASE CallNext BY <1>6, CallNextHolds
<1>7. CASE New BY <1>7, NewHolds
<1>8. CASE GoForOf BY <1>8, GoForOfHolds
<1>9. CASE AsksSource BY <1>9, AsksSourceHolds
<1>10. CASE SourceAnswers BY <1>10, SourceAnswersHolds
<1>11. CASE AddsItem BY <1>11, AddsItemHolds
<1>12. CASE CallsAdder BY <1>12, CallsAdderHolds
<1>13. CASE StepsForOf \/ StepReturns \/ StepThrows \/ StepStops BY <1>13, StepsHold
<1>14. CASE SourceReturns BY <1>14, SourceReturnsHolds
<1>15. CASE ForEach BY <1>15, ForEachHolds
<1>16. CASE Visits \/ CallbackReturns \/ CallbackThrows BY <1>16, EachHolds
<1> QED BY <1>1, <1>2, <1>3, <1>4, <1>5, <1>6, <1>7, <1>8, <1>9, <1>10, <1>11, <1>12, <1>13, <1>14, <1>15, <1>16 DEF CollectionsNext

(* The invariant of collections, iterators and the calls in progress.      *)
THEOREM CollectionsInvariant == CollectionsSpec => []CInv
<1>1. CollectionsInit => CInv BY InitHolds
<1>2. CInv /\ [CollectionsNext]_collectionVars => CInv' BY StepHolds
<1> QED BY <1>1, <1>2, PTL DEF CollectionsSpec

(* What the methods of a weak collection find is what it was given.        *)
LEMMA FoundIs ==
  ASSUME CInv, NEW c \in WeakOnes
  PROVE  Found(c) = added[c]
<1> SUFFICES ASSUME NEW id, id = colls[c].id PROVE Found(c) = added[c]
  OBVIOUS
<1>1. /\ added[c] = {<<o, weakRefs[o][id]>> : o \in Entered(c)}
      /\ colls[c].kind = "WeakSet" => \A o \in Entered(c) : weakRefs[o][id] = "nil"
  BY DEF CInv, WeakInv
<1>2. Entered(c) = {o \in Objects : WeakHas(id, o)} BY DEF Entered, WeakHas
<1>3. Objects \subseteq Keys BY DEF Keys
<1>4. CASE colls[c].kind = "WeakMap"
  <2>1. ASSUME NEW k PROVE WeakMapMethod(id, "has", k, "").answer[2] = (k \in Objects /\ WeakHas(id, k))
    BY DEF WeakMapMethod, WeakReturns
  <2>2. ASSUME NEW k \in Entered(c) PROVE WeakMapMethod(id, "get", k, "").answer[2] = weakRefs[k][id]
    BY <1>2 DEF WeakMapMethod, WeakReturns
  <2>3. {k \in Keys : WeakMapMethod(id, "has", k, "").answer[2]} = Entered(c) BY <1>2, <1>3, <2>1
  <2>4. Found(c) = {<<o, WeakMapMethod(id, "get", o, "").answer[2]>> : o \in Entered(c)} BY <1>4, <2>3 DEF Found
  <2>5. {<<o, WeakMapMethod(id, "get", o, "").answer[2]>> : o \in Entered(c)} = {<<o, weakRefs[o][id]>> : o \in Entered(c)} BY <2>2
  <2> QED BY <1>1, <2>4, <2>5
<1>5. CASE colls[c].kind # "WeakMap"
  <2>1. colls[c].kind = "WeakSet" BY <1>5 DEF WeakOnes, Weak
  <2>2. ASSUME NEW k PROVE WeakSetMethod(id, "has", k).answer[2] = (k \in Objects /\ WeakHas(id, k))
    BY DEF WeakSetMethod, WeakReturns
  <2>3. {k \in Keys : WeakSetMethod(id, "has", k).answer[2]} = Entered(c) BY <1>2, <1>3, <2>2
  <2>4. Found(c) = {<<o, "nil">> : o \in Entered(c)} BY <1>5, <2>3 DEF Found
  <2> QED BY <1>1, <2>1, <2>4
<1> QED BY <1>4, <1>5

(* Weak collections keep apart, for any number of them over any objects,   *)
(* and an iterator that has said that it is done says so for ever: the     *)
(* numbers of runtime.go weakMapSequence are different (WeakInv), and the  *)
(* iterator lets go of its entries (WalkInv, builtin_map.go next).         *)
THEOREM HandlesApartHold == CollectionsSpec => []HandlesApart
<1>1. CInv => HandlesApart
  <2> SUFFICES ASSUME CInv PROVE HandlesApart
    OBVIOUS
  <2>1. \A c \in DOMAIN colls : Weak(colls[c].kind) => Found(c) = added[c] BY FoundIs DEF WeakOnes
  <2>2. answer # <<>> /\ answer[2] => answer[3] = <<>> BY DEF CInv, AnswerInv
  <2> QED BY <2>1, <2>2 DEF HandlesApart
<1> QED BY <1>1, CollectionsInvariant, PTL

(* Sources are consumed and closed as runtime.go iterate and returnIter    *)
(* must, and a Map or Set is made of what its source gave, for sources of  *)
(* any length and any number of calls in progress (FrameInv, LastInv).     *)
THEOREM SourcesConsumedHold == CollectionsSpec => []SourcesConsumed
<1>1. CInv => SourcesConsumed
  <2> SUFFICES ASSUME CInv PROVE SourcesConsumed
    OBVIOUS
  <2>1. \A f : Pairs(f) = PairsOf(f, colls[f.c].kind) BY DEF Pairs, PairsOf
  <2>2. ASSUME NEW n \in DOMAIN go
        PROVE  /\ go[n].src.state # "misused"
               /\ go[n].op = "construct" /\ ~go[n].own /\ ~Weak(colls[go[n].c].kind) => MadeOf(colls[go[n].c].entries, Pairs(go[n]))
    <3>1. SourceOk(go[n]) /\ (Fills(go[n]) => Filled(go[n], colls[go[n].c])) BY DEF CInv, FrameInv, FrameOk
    <3>2. go[n].src.state # "misused" BY <3>1 DEF SourceOk
    <3> QED BY <2>1, <3>1, <3>2 DEF Filled, Fills
  <2>3. ASSUME last # <<>>
        PROVE  /\ last[1].src.state # "misused"
               /\ last[1].op = "construct" /\ ~last[1].own /\ ~Weak(colls[last[1].c].kind) => MadeOf(colls[last[1].c].entries, Pairs(last[1]))
               /\ last[1].src.kind = "foreign" =>
                    /\ last[1].src.returns = (IF last[1].failed /\ last[1].src.has THEN 1 ELSE 0)
                    /\ last[2] = "returned" => last[1].src.state = "ended" /\ ~last[1].failed
    BY <2>1, <2>3 DEF CInv, LastInv, EndedOk, Fills
  <2>4. \A f \in Frames : (\E n \in DOMAIN go : f = go[n]) \/ (last # <<>> /\ f = last[1]) BY DEF Frames, ToSet
  <2>5. \A f \in Frames : /\ f.src.state # "misused"
                          /\ f.op = "construct" /\ ~f.own /\ ~Weak(colls[f.c].kind) => MadeOf(colls[f.c].entries, Pairs(f))
    BY <2>2, <2>3, <2>4
  <2> QED BY <2>3, <2>5 DEF SourcesConsumed
<1> QED BY <1>1, CollectionsInvariant, PTL
============================================================================
