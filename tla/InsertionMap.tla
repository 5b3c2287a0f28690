----------------------------- MODULE InsertionMap -----------------------------
(***************************************************************************)
(* What Map and Set promise, without pointers: entries are stamped in the  *)
(* order of their insertion, an iterator is the stamp it has reached, and  *)
(* it visits the next entry that is present when it is asked, skipping     *)
(* what was deleted and reaching what was added; once it has run off the   *)
(* end it stays there.                                                     *)
(* A call begins by naming its operation and its arguments, and takes      *)
(* effect, at one moment before it returns, on the entry of that key or on *)
(* that iterator; only clear() has its effect when it begins.              *)
(***************************************************************************)
EXTENDS Integers

CONSTANTS Keys, Values, Iterators, NoKey, NoValue,
          Canon,       \* the key a key is stored under
          MaxEntries   \* bound: entries ever created

VARIABLES
  created,    \* stamps handed out so far
  key, value, \* per stamp; NoKey: not in the map
  reached,    \* per iterator: the stamp returned last, -1 when it is over
  pc, arg,    \* the call under way, "idle" between two, and its arguments
  ret         \* what the last call that returns something returned

map == <<created, key, value>>
vars == <<map, reached, pc, arg, ret>>

Stamps == 1..MaxEntries
Present == {e \in Stamps : key[e] # NoKey}
At(k) == {e \in Present : key[e] = Canon[k]}

Result(found, k, v) == [found |-> found, key |-> k, value |-> v]
Missing == Result(FALSE, NoKey, NoValue)
NoArg == [key |-> NoKey, value |-> NoValue, iter |-> NoKey]

Init ==
  /\ created = 0 /\ ret = Missing
  /\ key = [e \in Stamps |-> NoKey] /\ value = [e \in Stamps |-> NoValue]
  /\ reached = [i \in Iterators |-> -1]
  /\ pc = "idle" /\ arg = NoArg

-----------------------------------------------------------------------------
Begin(op, a) == pc = "idle" /\ pc' = op /\ arg' = a /\ UNCHANGED <<reached, ret>>
Returns(op) == pc = op /\ pc' = "idle" /\ arg' = NoArg

BeginKey ==
  /\ UNCHANGED map
  /\ \/ \E k \in Keys, v \in Values :
          Begin("set", [key |-> k, value |-> v, iter |-> NoKey])
     \/ \E k \in Keys, op \in {"get", "has", "remove"} :
          Begin(op, [key |-> k, value |-> NoValue, iter |-> NoKey])

BeginIter ==
  /\ UNCHANGED map
  /\ \E i \in Iterators, op \in {"newIter", "next"} :
       Begin(op, [key |-> NoKey, value |-> NoValue, iter |-> i])

Replace ==
  /\ Returns("set")
  /\ \E e \in At(arg.key) : value' = [value EXCEPT ![e] = arg.value]
  /\ UNCHANGED <<created, key, reached, ret>>

Insert ==
  /\ Returns("set") /\ At(arg.key) = {} /\ created < MaxEntries
  /\ created' = created + 1
  /\ key' = [key EXCEPT ![created + 1] = Canon[arg.key]]
  /\ value' = [value EXCEPT ![created + 1] = arg.value]
  /\ UNCHANGED <<reached, ret>>

Lookup ==
  /\ Returns("get")
  /\ \/ \E e \in At(arg.key) : ret' = Result(TRUE, NoKey, value[e])
     \/ At(arg.key) = {} /\ ret' = Missing
  /\ UNCHANGED <<map, reached>>

Has ==
  /\ Returns("has") /\ ret' = Result(At(arg.key) # {}, NoKey, NoValue)
  /\ UNCHANGED <<map, reached>>

Remove ==
  /\ Returns("remove")
  /\ \/ \E e \in At(arg.key) :
          /\ key' = [key EXCEPT ![e] = NoKey] /\ value' = [value EXCEPT ![e] = NoValue]
          /\ ret' = Result(TRUE, NoKey, NoValue)
     \/ At(arg.key) = {} /\ ret' = Missing /\ UNCHANGED <<key, value>>
  /\ UNCHANGED <<created, reached>>

Clear ==
  /\ Begin("clear", NoArg)
  /\ key' = [e \in Stamps |-> NoKey] /\ value' = [e \in Stamps |-> NoValue]
  /\ UNCHANGED created

Cleared == Returns("clear") /\ UNCHANGED <<map, reached, ret>>

NewIter ==
  /\ Returns("newIter") /\ reached' = [reached EXCEPT ![arg.iter] = 0]
  /\ UNCHANGED <<map, ret>>

Later(i) == {e \in Present : reached[i] >= 0 /\ e > reached[i]}

Next ==
  /\ Returns("next")
  /\ \/ /\ Later(arg.iter) = {} /\ ret' = Missing
        /\ reached' = [reached EXCEPT ![arg.iter] = -1]
     \/ \E e \in Later(arg.iter) :
          /\ \A d \in Later(arg.iter) : e <= d
          /\ ret' = Result(TRUE, key[e], value[e])
          /\ reached' = [reached EXCEPT ![arg.iter] = e]
  /\ UNCHANGED map

Step ==
  \/ BeginKey \/ BeginIter \/ Clear \/ Cleared
  \/ Replace \/ Insert \/ Lookup \/ Has \/ Remove \/ NewIter \/ Next

Spec == Init /\ [][Step]_vars
=============================================================================
