------------------------------ MODULE OrderedMap ------------------------------
(***************************************************************************)
(* orderedMap and orderedMapIter of map.go, the storage of Map and Set:    *)
(* a doubly linked list in insertion order, hash chains for lookup, and    *)
(* iterators that stay valid while the map changes under them.  Entries    *)
(* are numbered in the order of their allocation; 0 is Go's nil.  The      *)
(* loops (lookup, clear, the iterator's way back over deleted entries)     *)
(* take one step per turn.  One JavaScript call is under way at a time;    *)
(* between two calls any other may come, as in a forEach callback.         *)
(***************************************************************************)
EXTENDS Integers, FiniteSets

CONSTANTS
  Keys, Values, Iterators, NoKey, NoValue,
  Canon,       \* [Keys -> Keys]: -0 is kept as 0
  Buckets,
  Hash,        \* [Keys -> Buckets]: the hash of a key
  MaxEntries   \* bound: entries ever allocated

ASSUME OrderedMapAssumption ==
  /\ MaxEntries \in Nat /\ NoKey \notin Keys /\ NoValue \notin Values
  /\ Canon \in [Keys -> Keys] /\ Hash \in [Keys -> Buckets]

VARIABLES
  created,                     \* entries allocated so far
  key, value,                  \* key = NoKey: the entry was deleted
  iterPrev, iterNext, hNext,
  hashTable, iterFirst, iterLast, size,
  open, cur,                   \* per iterator: iter.m # nil, iter.cur
  pc, arg,                     \* the call under way and its arguments
  entry, hPrev,                \* the loop variables
  ret                          \* what the last call returned

list == <<iterPrev, iterNext, iterFirst, iterLast>>
chains == <<hNext, hashTable>>
content == <<created, key, value, size>>
iters == <<open, cur>>
callVars == <<pc, arg, entry, hPrev>>
vars == <<list, chains, content, iters, callVars, ret>>

Entries == 1..MaxEntries
Nil == 0
Pointers == Entries \cup {Nil}
Lookups == {"set", "get", "has", "remove"}
IterOps == {"newIter", "next"}

Result(found, k, v) == [found |-> found, key |-> k, value |-> v]
Missing == Result(FALSE, NoKey, NoValue)
NoArg == [key |-> NoKey, value |-> NoValue, iter |-> NoKey]
Results == [found : BOOLEAN, key : Keys \cup {NoKey}, value : Values \cup {NoValue}]

(* newOrderedMap.                                                          *)
Init ==
  /\ created = 0 /\ size = 0 /\ ret = Missing
  /\ key = [e \in Entries |-> NoKey] /\ value = [e \in Entries |-> NoValue]
  /\ iterPrev = [e \in Entries |-> Nil] /\ iterNext = [e \in Entries |-> Nil]
  /\ hNext = [e \in Entries |-> Nil] /\ hashTable = [h \in Buckets |-> Nil]
  /\ iterFirst = Nil /\ iterLast = Nil
  /\ open = [i \in Iterators |-> FALSE] /\ cur = [i \in Iterators |-> Nil]
  /\ pc = "idle" /\ arg = NoArg
  /\ entry = Nil /\ hPrev = Nil

-----------------------------------------------------------------------------
(* set, get, has and remove start with lookup ...                          *)
Call(op, k, v) ==
  /\ pc = "idle" /\ pc' = op
  /\ arg' = [key |-> k, value |-> v, iter |-> NoKey]
  /\ entry' = hashTable[Hash[Canon[k]]] /\ hPrev' = Nil
  /\ UNCHANGED <<list, chains, content, iters, ret>>

(* Definitions named Bug_... are slips that the properties below must      *)
(* catch; the specification does not use them.                             *)

(* ... which walks the chain of its key, ...                               *)
Bug_sought_anyKey == entry # Nil

sought == entry # Nil /\ key[entry] = Canon[arg.key]

Walk ==
  /\ pc \in Lookups /\ entry # Nil /\ ~sought
  /\ hPrev' = entry /\ entry' = hNext[entry]
  /\ UNCHANGED <<list, chains, content, iters, pc, arg, ret>>

found(op) == pc = op /\ sought
absent(op) == pc = op /\ entry = Nil

return ==
  pc' = "idle" /\ entry' = Nil /\ hPrev' = Nil /\ arg' = NoArg

(* ... then replace the value, ...                                         *)
SetFound ==
  /\ found("set") /\ return
  /\ value' = [value EXCEPT ![entry] = arg.value]
  /\ UNCHANGED <<list, chains, created, key, size, iters, ret>>

(* ... or append a new entry to the chain and to the list; ...             *)
chain(e) ==
  IF hPrev = Nil
  THEN hashTable' = [hashTable EXCEPT ![Hash[Canon[arg.key]]] = e] /\ UNCHANGED hNext
  ELSE hNext' = [hNext EXCEPT ![hPrev] = e] /\ UNCHANGED hashTable

link(e) ==
  /\ iterPrev' = [iterPrev EXCEPT ![e] = iterLast]
  /\ iterNext' = IF iterLast # Nil THEN [iterNext EXCEPT ![iterLast] = e] ELSE iterNext
  /\ iterFirst' = IF iterLast # Nil THEN iterFirst ELSE e
  /\ iterLast' = e

SetAbsent ==
  LET e == created + 1
  IN /\ absent("set") /\ created < MaxEntries /\ return
     /\ created' = e
     /\ key' = [key EXCEPT ![e] = Canon[arg.key]]
     /\ value' = [value EXCEPT ![e] = arg.value]
     /\ chain(e) /\ link(e)
     /\ size' = size + 1
     /\ UNCHANGED <<iters, ret>>

(* ... return the value, ...                                               *)
Get ==
  /\ \/ found("get") /\ ret' = Result(TRUE, NoKey, value[entry])
     \/ absent("get") /\ ret' = Missing
  /\ return
  /\ UNCHANGED <<list, chains, content, iters>>

(* ... or whether there is one, ...                                        *)
Has ==
  /\ found("has") \/ absent("has")
  /\ ret' = Result(entry # Nil, NoKey, NoValue)
  /\ return
  /\ UNCHANGED <<list, chains, content, iters>>

(* ... or take the entry out of list and chain.  The entry itself keeps    *)
(* its iterPrev, which iterators follow back.                              *)
unlink ==
  LET p == iterPrev[entry]
      n == iterNext[entry]
  IN /\ iterNext' = IF p # Nil THEN [iterNext EXCEPT ![p] = n] ELSE iterNext
     /\ iterFirst' = IF p # Nil THEN iterFirst ELSE n
     /\ iterPrev' = IF n # Nil THEN [iterPrev EXCEPT ![n] = p] ELSE iterPrev
     /\ iterLast' = IF n # Nil THEN iterLast ELSE p

unchain ==
  IF hPrev = Nil
  THEN /\ hashTable' = [hashTable EXCEPT ![Hash[Canon[arg.key]]] = hNext[entry]]
       /\ UNCHANGED hNext
  ELSE hNext' = [hNext EXCEPT ![hPrev] = hNext[entry]] /\ UNCHANGED hashTable

RemoveFound ==
  /\ found("remove") /\ return
  /\ key' = [key EXCEPT ![entry] = NoKey]
  /\ value' = [value EXCEPT ![entry] = NoValue]
  /\ unlink /\ unchain
  /\ size' = size - 1
  /\ ret' = Result(TRUE, NoKey, NoValue)
  /\ UNCHANGED <<created, iters>>

RemoveAbsent ==
  /\ absent("remove") /\ return /\ ret' = Missing
  /\ UNCHANGED <<list, chains, content, iters>>

-----------------------------------------------------------------------------
(* clear empties the entries one by one, so that iterators standing on     *)
(* them find their way back, and cuts the links forward.                   *)
Clear ==
  /\ pc = "idle" /\ pc' = "clear" /\ entry' = iterFirst
  /\ UNCHANGED <<list, chains, content, iters, arg, hPrev, ret>>

ClearItem ==
  /\ pc = "clear" /\ entry # Nil
  /\ key' = [key EXCEPT ![entry] = NoKey]
  /\ value' = [value EXCEPT ![entry] = NoValue]
  /\ iterNext' = IF iterPrev[entry] # Nil
                 THEN [iterNext EXCEPT ![iterPrev[entry]] = Nil] ELSE iterNext
  /\ entry' = iterNext[entry]
  /\ UNCHANGED <<iterPrev, iterFirst, iterLast, chains, created, size, iters,
                 pc, arg, hPrev, ret>>

reset(n, hs) ==
  /\ pc = "clear" /\ entry = Nil /\ pc' = "idle"
  /\ iterFirst' = Nil /\ iterLast' = Nil /\ size' = n
  /\ hashTable' = [h \in hs |-> Nil]
  /\ UNCHANGED <<iterPrev, iterNext, hNext, created, key, value, iters, arg,
                 entry, hPrev, ret>>

Bug_ClearDone_keepsSize == reset(size, Buckets)

ClearDone == reset(0, Buckets)

-----------------------------------------------------------------------------
(* newIter, by keys(), values(), entries(), forEach() or an export, and    *)
(* next of an iterator.                                                    *)
BeginIter(op, i) ==
  /\ pc = "idle" /\ pc' = op
  /\ arg' = [key |-> NoKey, value |-> NoValue, iter |-> i]
  /\ entry' = IF op = "next" THEN cur[i] ELSE Nil
  /\ UNCHANGED <<list, chains, content, iters, hPrev, ret>>

NewIter ==
  /\ pc = "newIter" /\ return
  /\ open' = [open EXCEPT ![arg.iter] = TRUE] /\ cur' = [cur EXCEPT ![arg.iter] = Nil]
  /\ UNCHANGED <<list, chains, content, ret>>

(* next of a closed iterator, ...                                          *)
NextClosed ==
  /\ pc = "next" /\ ~open[arg.iter] /\ return /\ ret' = Missing
  /\ UNCHANGED <<list, chains, content, iters>>

(* ... and of an open one: go back over deleted entries, ...               *)
deleted == entry # Nil /\ key[entry] = NoKey

Bug_TrackBack_stays ==
  /\ pc = "next" /\ open[arg.iter] /\ deleted
  /\ entry' = iterPrev[cur[arg.iter]]
  /\ UNCHANGED <<list, chains, content, iters, pc, arg, hPrev, ret>>

TrackBack ==
  /\ pc = "next" /\ open[arg.iter] /\ deleted
  /\ entry' = iterPrev[entry]
  /\ UNCHANGED <<list, chains, content, iters, pc, arg, hPrev, ret>>

(* ... then take the next one, or close.                                   *)
NextReturns ==
  LET n == IF entry # Nil THEN iterNext[entry] ELSE iterFirst
      i == arg.iter
  IN /\ pc = "next" /\ open[i] /\ ~deleted /\ return
     /\ \/ n # Nil /\ cur' = [cur EXCEPT ![i] = n] /\ UNCHANGED open
           /\ ret' = Result(TRUE, key[n], value[n])
        \/ n = Nil /\ cur' = [cur EXCEPT ![i] = Nil] /\ open' = [open EXCEPT ![i] = FALSE]
           /\ ret' = Missing
     /\ UNCHANGED <<list, chains, content>>

-----------------------------------------------------------------------------
Turn ==
  \/ Walk \/ SetFound \/ SetAbsent \/ Get \/ Has \/ RemoveFound \/ RemoveAbsent
  \/ ClearItem \/ ClearDone \/ NewIter \/ NextClosed \/ TrackBack \/ NextReturns

Begin ==
  \/ \E k \in Keys, v \in Values : created < MaxEntries /\ Call("set", k, v)
  \/ \E k \in Keys, op \in Lookups \ {"set"} : Call(op, k, NoValue)
  \/ Clear
  \/ \E i \in Iterators, op \in IterOps : BeginIter(op, i)

Next == Begin \/ Turn

Spec == Init /\ [][Next]_vars

(* A call that has begun goes on: nothing else runs on its goroutine.      *)
FairSpec == Spec /\ WF_vars(Turn)

-----------------------------------------------------------------------------
Present == {e \in Entries : key[e] # NoKey}

(* Every variable has its type.                                            *)
TypeOK ==
  /\ created \in 0..MaxEntries /\ size \in Int
  /\ key \in [Entries -> Keys \cup {NoKey}]
  /\ value \in [Entries -> Values \cup {NoValue}]
  /\ iterPrev \in [Entries -> Pointers] /\ iterNext \in [Entries -> Pointers]
  /\ hNext \in [Entries -> Pointers] /\ hashTable \in [Buckets -> Pointers]
  /\ iterFirst \in Pointers /\ iterLast \in Pointers
  /\ open \in [Iterators -> BOOLEAN] /\ cur \in [Iterators -> Pointers]
  /\ pc \in Lookups \cup IterOps \cup {"idle", "clear"}
  /\ arg \in [key : Keys \cup {NoKey}, value : Values \cup {NoValue},
              iter : Iterators \cup {NoKey}]
  /\ pc \in Lookups => arg.key \in Keys
  /\ pc = "set" => arg.value \in Values
  /\ pc \in IterOps => arg.iter \in Iterators
  /\ pc \in {"idle", "clear"} => arg = NoArg
  /\ entry \in Pointers /\ hPrev \in Pointers
  /\ ret \in Results

(* n is the first element of S after e, or nil; p the last before e.       *)
IsNext(S, e, n) ==
  \/ n \in S /\ e < n /\ \A d \in S : e < d => n <= d
  \/ n = Nil /\ \A d \in S : d <= e
IsPrev(S, e, p) ==
  \/ p \in S /\ p < e /\ \A d \in S : d < e => d <= p
  \/ p = Nil /\ \A d \in S : e <= d
IsLast(S, p) ==
  \/ p \in S /\ \A d \in S : d <= p
  \/ p = Nil /\ S = {}

(* Outside clear(), list and chains hold exactly the present entries, in   *)
(* the order of their insertion.                                           *)
ListExact ==
  pc # "clear" =>
    /\ IsNext(Present, Nil, iterFirst) /\ IsLast(Present, iterLast)
    /\ \A e \in Present : IsNext(Present, e, iterNext[e]) /\ IsPrev(Present, e, iterPrev[e])

Bucket(h) == {e \in Present : Hash[key[e]] = h}

ChainsExact ==
  pc # "clear" =>
    /\ \A h \in Buckets : IsNext(Bucket(h), Nil, hashTable[h])
    /\ \A e \in Present : IsNext(Bucket(Hash[key[e]]), e, hNext[e])

(* The way back of an iterator on a deleted entry never skips a present    *)
(* one and never ends in a loop.                                           *)
WayBack ==
  \A e \in 1..created \ Present :
    iterPrev[e] < e /\ \A d \in Present : ~(iterPrev[e] < d /\ d < e)

(* size, which size() reports and export() allocates by, is the number of  *)
(* entries.                                                                *)
SizeExact == pc # "clear" => size = Cardinality(Present)

(* The three structures of map.go that show the same entries, the list,    *)
(* the hash chains and the size, agree, and iterators find their way back. *)
LinksAgree == ListExact /\ ChainsExact /\ WayBack /\ SizeExact

-----------------------------------------------------------------------------
(* The abstract map sees the same calls, with the same arguments and the   *)
(* same results; clear() takes effect when it begins.                      *)
Shown(f, none) == IF pc = "clear" THEN [e \in Entries |-> none] ELSE f

Abstract == INSTANCE InsertionMap WITH
  key <- Shown(key, NoKey), value <- Shown(value, NoValue),
  reached <- [i \in Iterators |-> IF open[i] THEN cur[i] ELSE -1]

(* Map and Set behave as an insertion-ordered map whatever is added or     *)
(* deleted while iterators are under way: a call changes or reads the      *)
(* entry of its own key, however many keys share its chain, or moves its   *)
(* own iterator, and returns what the abstract map returns for it.         *)
ImplementsMap == Abstract!Spec

(* Every call returns: no loop over list or chain is endless.              *)
CallsReturn == (pc # "idle") ~> (pc = "idle")
=============================================================================
