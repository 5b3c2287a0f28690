------------------------------- MODULE Promises -------------------------------
(***************************************************************************)
(* Promises and the job queue: builtin_promise.go, with the leave(),       *)
(* leaveAbrupt(), runWrapped() and RunProgram() of runtime.go that run the *)
(* queue.                                                                  *)
(*                                                                         *)
(* rt is what the Runtime holds; native functions are operators from rt to *)
(* rt, and call each other as in the source.  User code is whatever calls  *)
(* it likes, one at a time, between the step that enters it and the step   *)
(* in which it returns or throws.  stack is the nesting of such code:      *)
(*   run      code called by the embedder (RunProgram or a Callable)       *)
(*   leave    the loop of leave(), with what is left of its batch          *)
(*   handler  user code called by a job                                    *)
(*   iterate  user code called by a combinator that walks its argument     *)
(* js says that the frame is on vm.callStack, prog that it belongs to      *)
(* RunProgram, which keeps an empty context there while it runs leave().   *)
(***************************************************************************)
EXTENDS Integers, Sequences, FiniteSets, SequencesExt

CONSTANTS
  NumPlain,     \* values without a then method: 1..NumPlain
  MaxPromises,  \* bound: promises at which user code stops creating more
  MaxPairs,     \* bound: pairs of resolving functions at which user code
                \* stops resolving with thenables
  MaxInputs,    \* bound: elements given to a combinator
  MaxCombs,     \* bound: calls of combinators
  MaxDepth,     \* bound: nesting of stack
  Handlers,     \* handlers given to then(): subset of {"none", "js", "go"}
  Thenables,    \* subset of {"thenable", "trap"}: objects with a then method
                \* of their own, objects whose then getter throws
  Combinators,  \* subset of {"all", "allSettled", "any", "race"}
  Entries,      \* how the embedder enters: TRUE by RunProgram, FALSE by
                \* a Callable; a subset of BOOLEAN
  UseFinally, AllowInterrupt, AllowReentry   \* features in the instance

ASSUME PromisesAssumption ==
  /\ NumPlain \in Nat /\ MaxPromises \in Nat /\ MaxPairs \in Nat
  /\ MaxInputs \in Nat /\ MaxCombs \in Nat /\ MaxDepth \in Nat
  /\ Handlers \subseteq {"none", "js", "go"} /\ Thenables \subseteq {"thenable", "trap"}
  /\ Combinators \subseteq {"all", "allSettled", "any", "race"}
  /\ Entries \cup {UseFinally, AllowInterrupt, AllowReentry} \subseteq BOOLEAN

VARIABLES
  rt,      \* promises, pairs of resolving functions, jobQueue, combinators,
           \* what the async context tracker has been told; history:
           \* derived, adopted, finals, lost
  held,    \* native functions that user code has got hold of
  known,   \* promises that user code has got hold of
  stack

vars == <<rt, held, known, stack>>

-----------------------------------------------------------------------------
(* Values and functions.                                                   *)
Val(t, n) == [t |-> t, n |-> n]
Undefined == Val("undefined", 0)
TypeError == Val("typeError", 0)
Plain == {Val("plain", n) : n \in 1..NumPlain}
PromiseVal(p) == Val("promise", p)

(* a: the pair of a resolving function, the combinator of an element       *)
(* function; b: its index; x: what a thunk returns or throws.              *)
Fn(f, a, b, x) == [f |-> f, a |-> a, b |-> b, x |-> x]
NoFn == Fn("none", 0, 0, Undefined)
UserFn(f) == Fn(f, 0, 0, Undefined)
ResolveFn(k) == Fn("resolve", k, 0, Undefined)
RejectFn(k) == Fn("reject", k, 0, Undefined)

(* Definitions named Bug_... are slips that the properties below must      *)
(* catch; the specification does not use them.                             *)

Promises == 1..Len(rt.promises)
NoPair == 0

Job(k, typ, cap, h, x) == [k |-> k, typ |-> typ, cap |-> cap, handler |-> h, arg |-> x]
NoJob == Job("none", "none", NoPair, NoFn, Undefined)

Frame(k, js, prog, batch, job, n) ==
  [k |-> k, js |-> js, prog |-> prog, batch |-> batch, job |-> job, n |-> n]

-----------------------------------------------------------------------------
(* Promise objects.                                                        *)

(* newPromise and createResolvingFunctions: the promise and its first pair.*)
newPair(r, p) == [r EXCEPT !.pairs = Append(@, [promise |-> p, alreadyResolved |-> FALSE])]

newPromise(r) ==
  newPair([r EXCEPT !.promises =
             Append(@, [state |-> "pending", result |-> Undefined,
                        fulfillReactions |-> <<>>, rejectReactions |-> <<>>,
                        handled |-> FALSE, tracked |-> "none"])],
          Len(r.promises) + 1)

enqueuePromiseJob(r, job) == [r EXCEPT !.jobQueue = Append(@, job)]

triggerPromiseReactions(r, reactions, typ, x) ==
  [r EXCEPT !.jobQueue = @ \o [i \in 1..Len(reactions) |->
     Job("reaction", typ, reactions[i].cap, reactions[i].handler, x)]]

(* What fulfill and reject make of a promise object.                       *)
settlement(q, st, x) ==
  [state |-> st, result |-> x, fulfillReactions |-> <<>>, rejectReactions |-> <<>>,
   handled |-> q.handled, tracked |-> q.tracked]

fulfill(r, p, x) ==
  triggerPromiseReactions(
    [r EXCEPT !.promises[p] = settlement(@, "fulfilled", x)],
    r.promises[p].fulfillReactions, "fulfill", x)

trackPromiseRejection(r, p, op) ==
  [r EXCEPT !.promises[p].tracked = IF r.promises[p].handled THEN @ ELSE op]

reject(r, p, x) ==
  triggerPromiseReactions(
    trackPromiseRejection([r EXCEPT !.promises[p] = settlement(@, "rejected", x)], p, "reject"),
    r.promises[p].rejectReactions, "reject", x)

(* The resolving functions, by what their pair has done already.           *)
resolution(r, p, x) ==
  CASE x = PromiseVal(p)                                   -> reject(r, p, TypeError)
    [] x.t = "trap"                                        -> reject(r, p, Val("plain", 1))
    [] x.t \in {"promise", "thenable"} /\ x # PromiseVal(p) ->
         enqueuePromiseJob([r EXCEPT !.adopted = @ \cup {<<p, x>>}],
                           Job("thenable", "none", p, NoFn, x))
    [] OTHER                           -> fulfill(r, p, x)

Bug_resolve_again(r, k, x) == resolution(r, r.pairs[k].promise, x)

resolve(r, k, x) ==
  IF r.pairs[k].alreadyResolved THEN r
  ELSE resolution([r EXCEPT !.pairs[k].alreadyResolved = TRUE], r.pairs[k].promise, x)

Bug_rejectBy_again(r, k, x) ==
  reject([r EXCEPT !.pairs[k].alreadyResolved = TRUE], r.pairs[k].promise, x)

rejectBy(r, k, x) ==
  IF r.pairs[k].alreadyResolved THEN r
  ELSE reject([r EXCEPT !.pairs[k].alreadyResolved = TRUE], r.pairs[k].promise, x)

(* addReactions asks the context tracker for one context for both.         *)
Bug_addReactions_noHandle(r, p, cap, onFulfilled, onRejected) ==
  LET q == r.promises[p]
      g == [r EXCEPT !.grabs = @ + 1, !.promises[p].handled = TRUE]
  IN CASE q.state = "pending" ->
            [g EXCEPT !.promises[p].fulfillReactions = Append(@, [cap |-> cap, handler |-> onFulfilled]),
                      !.promises[p].rejectReactions = Append(@, [cap |-> cap, handler |-> onRejected])]
       [] q.state = "fulfilled" ->
            enqueuePromiseJob(g, Job("reaction", "fulfill", cap, onFulfilled, q.result))
       [] OTHER ->
            enqueuePromiseJob(g, Job("reaction", "reject", cap, onRejected, q.result))

addReactions(r, p, cap, onFulfilled, onRejected) ==
  LET q == r.promises[p]
      g == [r EXCEPT !.grabs = @ + 1]
      done == CASE q.state = "pending" ->
                   [g EXCEPT
                     !.promises[p].fulfillReactions = Append(@, [cap |-> cap, handler |-> onFulfilled]),
                     !.promises[p].rejectReactions = Append(@, [cap |-> cap, handler |-> onRejected])]
                [] q.state = "fulfilled" ->
                   enqueuePromiseJob(g, Job("reaction", "fulfill", cap, onFulfilled, q.result))
                [] OTHER ->
                   enqueuePromiseJob(trackPromiseRejection(g, p, "handle"),
                                     Job("reaction", "reject", cap, onRejected, q.result))
  IN [done EXCEPT !.promises[p].handled = TRUE]

(* promiseProto_then: a new promise is the capability of the reactions.    *)
then(r, p, onFulfilled, onRejected) ==
  LET c == newPromise(r)
  IN [addReactions(c, p, Len(c.pairs), onFulfilled, onRejected)
        EXCEPT !.derived = Append(@, [from |-> p, pair |-> Len(c.pairs)])]

(* promiseResolve: a promise is returned as it is.                         *)
promiseResolve(r, x) ==
  IF x.t = "promise" THEN r
  ELSE LET c == newPromise(r) IN resolve(c, Len(c.pairs), x)

promiseOf(r, x) == IF x.t = "promise" THEN x.n ELSE Len(r.promises) + 1

-----------------------------------------------------------------------------
(* The combinators.  combs[c] is the closure of one call.                  *)
List(c) == Val("list", c)
AggregateError(c) == Val("aggregate", c)

finish(r, c) ==
  LET k == r.combs[c].cap
      op == IF r.combs[c].remaining = 0 THEN r.combs[c].op ELSE "waiting"
  IN CASE op \in {"all", "allSettled"} -> resolve(r, k, List(c))
       [] op = "any"                   -> rejectBy(r, k, AggregateError(c))
       [] OTHER                        -> r

Bug_element_uncalled(r, c, i, status, x) ==
  finish([r EXCEPT !.combs[c].values[i] = [status |-> status, value |-> x],
                   !.combs[c].called = @ \cup {i},
                   !.combs[c].remaining = @ - 1], c)

(* The function an element's then() is given.                              *)
element(r, c, i, status, x) ==
  IF i \in r.combs[c].called THEN r
  ELSE finish([r EXCEPT !.combs[c].values[i] = [status |-> status, value |-> x],
                        !.combs[c].called = @ \cup {i},
                        !.combs[c].remaining = @ - 1], c)

(* The functions given to then() of element i, by combinator.              *)
onFulfilled(r, c, i) ==
  IF r.combs[c].op \in {"all", "allSettled"} THEN Fn("fulfilled", c, i, Undefined)
  ELSE ResolveFn(r.combs[c].cap)
onRejected(r, c, i) ==
  IF r.combs[c].op \in {"any", "allSettled"} THEN Fn("rejected", c, i, Undefined)
  ELSE RejectFn(r.combs[c].cap)

combinator(r, op) ==
  LET n == newPromise(r)
  IN [n EXCEPT !.combs = Append(@, [op |-> op, cap |-> Len(n.pairs), values |-> <<>>,
                                    called |-> {}, remaining |-> 1, inputs |-> <<>>,
                                    over |-> FALSE])]

(* One turn of iterate: what the element is counted as before then().      *)
counted(r, c, p) ==
  [r EXCEPT !.combs[c].values = Append(@, [status |-> "none", value |-> Undefined]),
            !.combs[c].inputs = Append(@, p),
            !.combs[c].remaining = IF r.combs[c].op = "race" THEN @ ELSE @ + 1]

(* After the loop.                                                         *)
ended(r, c) ==
  finish([r EXCEPT !.combs[c].over = TRUE,
                   !.combs[c].remaining = IF r.combs[c].op = "race" THEN @ ELSE @ - 1], c)

(* Calling a native function.                                              *)
call(r, fn, x) ==
  CASE fn.f = "resolve"                  -> resolve(r, fn.a, x)
    [] fn.f = "reject"                   -> rejectBy(r, fn.a, x)
    [] fn.f \in {"fulfilled", "rejected"} -> element(r, fn.a, fn.b, fn.f, x)
    [] OTHER                             -> r

-----------------------------------------------------------------------------
(* Jobs.                                                                   *)
Top == stack[Len(stack)]
below == SubSeq(stack, 1, Len(stack) - 1)
On(k) == stack # <<>> /\ Top.k = k
push(f) == stack' = Append(stack, f)

(* The end of newPromiseReactionJob.                                       *)
settle(r, cap, ok, x) ==
  IF cap = NoPair THEN r
  ELSE IF ok THEN resolve(r, cap, x) ELSE rejectBy(r, cap, x)

resumed(r) == [r EXCEPT !.grabs = @ - 1, !.resumed = @ + 1]
exited(r) == [r EXCEPT !.resumed = @ - 1]

(* leave() takes the next job of its batch, ...                            *)
rest == [Top EXCEPT !.batch = Tail(@)]
Taking(kind) == On("leave") /\ Top.batch # <<>> /\ Head(Top.batch).k = kind

Internal == {"resolve", "reject", "fulfilled", "rejected", "thunk", "thrower"}

(* ... a reaction without a handler of the user's, ...                     *)
RunReaction ==
  LET job == Head(Top.batch)
      h == job.handler
  IN /\ Taking("reaction") /\ stack' = Append(below, rest)
     /\ \/ h.f = "none" /\ rt' = settle(rt, job.cap, job.typ = "fulfill", job.arg)
        \/ /\ h.f \in Internal
           /\ rt' = settle(exited(call(resumed(rt), h, job.arg)), job.cap, h.f # "thrower", h.x)
     /\ UNCHANGED <<held, known>>

(* ... one with such a handler, which begins to run, ...                   *)
BeginHandler ==
  LET job == Head(Top.batch)
      h == job.handler
  IN /\ Taking("reaction") /\ h.f \notin Internal \cup {"none"}
     /\ rt' = resumed(rt)
     /\ stack' = below \o <<rest, Frame("handler", h.f # "go", FALSE, <<>>, job, 0)>>
     /\ UNCHANGED <<held, known>>

(* ... or a thenable, whose then() gets a new pair of functions.           *)

RunThenable ==
  LET job == Head(Top.batch)
      r == newPair(rt, job.cap)
      k == Len(r.pairs)
  IN /\ Taking("thenable") /\ UNCHANGED known
     /\ \/ /\ job.arg.t = "promise" /\ stack' = Append(below, rest)
           /\ rt' = then(r, job.arg.n, ResolveFn(k), RejectFn(k))
           /\ UNCHANGED held
        \/ /\ job.arg.t = "thenable" /\ rt' = r
           /\ held' = held \cup {ResolveFn(k), RejectFn(k)}
           /\ stack' = below \o <<rest, Frame("handler", TRUE, FALSE, <<>>, job, k)>>

(* thenFinally and catchFinally after onFinally has returned x.            *)
finallyResult(r, job, x) ==
  LET q == promiseResolve(r, x)
      f == IF job.handler.f = "finThen" THEN "thunk" ELSE "thrower"
      t == then(q, promiseOf(r, x), Fn(f, 0, 0, job.arg), NoFn)
  IN [r |-> [t EXCEPT !.finals[job.handler.a].via = x], x |-> PromiseVal(Len(t.promises))]

HandlerReturns(x) ==
  LET job == Top.job
      fin == finallyResult(rt, job, x)
  IN /\ On("handler") /\ stack' = below
     /\ rt' = IF job.k = "thenable" THEN rt
              ELSE IF job.handler.f \in {"finThen", "finCatch"}
                   THEN settle(exited(fin.r), job.cap, TRUE, fin.x)
                   ELSE settle(exited(rt), job.cap, TRUE, x)
     /\ UNCHANGED <<held, known>>

HandlerThrows(x) ==
  LET job == Top.job
      r == IF job.handler.f \in {"finThen", "finCatch"}
           THEN [rt EXCEPT !.finals[job.handler.a].via = x,
                           !.finals[job.handler.a].threw = TRUE]
           ELSE rt
  IN /\ On("handler") /\ stack' = below
     /\ rt' = IF job.k = "thenable" THEN rejectBy(rt, Top.n, x)
              ELSE settle(exited(r), job.cap, FALSE, x)
     /\ UNCHANGED <<held, known>>

-----------------------------------------------------------------------------
(* User code.                                                              *)

(* A Go handler runs with an empty vm.callStack unless RunProgram is below *)
(* it; the Callables it calls then run inside it, otherwise they are calls *)
(* from outside (Reentry).                                                 *)
EmptyCallStack == \A i \in 1..Len(stack) : ~stack[i].js /\ ~stack[i].prog
Running == stack # <<>> /\ (Top.js \/ (Top.k = "handler" /\ ~EmptyCallStack))

Args == Plain \cup {PromiseVal(p) : p \in known}
          \cup {Val(t, 0) : t \in IF Len(rt.pairs) < MaxPairs THEN Thenables ELSE {}}
room == Len(rt.promises) < MaxPromises
learn == known' = known \cup {Len(rt'.promises)}

(* new Promise(executor), with the executor's calls to follow.             *)
NewPromise ==
  /\ Running /\ room
  /\ rt' = newPromise(rt)
  /\ held' = held \cup {ResolveFn(Len(rt'.pairs)), RejectFn(Len(rt'.pairs))}
  /\ learn /\ UNCHANGED stack

Then(p, f, g) ==
  /\ Running /\ room
  /\ rt' = then(rt, p, UserFn(f), UserFn(g))
  /\ learn /\ UNCHANGED <<held, stack>>

Finally(p) ==
  LET n == Len(rt.finals) + 1
      t == then(rt, p, Fn("finThen", n, 0, Undefined), Fn("finCatch", n, 0, Undefined))
  IN /\ Running /\ room /\ UseFinally
     /\ rt' = [t EXCEPT !.finals = Append(@, [from |-> p, pair |-> Len(t.pairs),
                                              via |-> Undefined, threw |-> FALSE])]
     /\ learn /\ UNCHANGED <<held, stack>>

(* Promise.resolve(x) and Promise.reject(x).                               *)
StaticResolve(x) ==
  /\ Running /\ room /\ rt' = promiseResolve(rt, x)
  /\ known' = known \cup {promiseOf(rt, x)} /\ UNCHANGED <<held, stack>>

StaticReject(x) ==
  LET n == newPromise(rt)
  IN /\ Running /\ room /\ rt' = rejectBy(n, Len(n.pairs), x)
     /\ learn /\ UNCHANGED <<held, stack>>

CallHeld(f, x) ==
  /\ Running /\ rt' = call(rt, f, x) /\ UNCHANGED <<held, known, stack>>

(* Promise.all and its kin: the loop over the argument, ...                *)
Combine(op) ==
  /\ Running /\ room /\ Len(rt.combs) < MaxCombs /\ Len(stack) < MaxDepth
  /\ rt' = combinator(rt, op)
  /\ push(Frame("iterate", TRUE, FALSE, <<>>, NoJob, Len(rt'.combs)))
  /\ UNCHANGED <<held, known>>

More == On("iterate") /\ Len(rt.combs[Top.n].inputs) < MaxInputs

(* ... with elements whose then() is the built-in one ...                  *)
IterNext(x) ==
  LET c == Top.n
      q == promiseResolve(rt, x)
      p == promiseOf(rt, x)
      r == counted(q, c, p)
      i == Len(r.combs[c].inputs)
  IN /\ More
     /\ rt' = then(r, p, onFulfilled(r, c, i), onRejected(r, c, i))
     /\ UNCHANGED <<held, known, stack>>

(* ... or, where resolve() is overridden, user code that may call what it  *)
(* is given at once, later, more than once or never, ...                   *)
IterWild ==
  LET c == Top.n
      r == counted(rt, c, 0)
      i == Len(r.combs[c].inputs)
  IN /\ More /\ rt' = r
     /\ held' = held \cup {onFulfilled(r, c, i), onRejected(r, c, i)}
     /\ UNCHANGED <<known, stack>>

(* ... and its end, when user code gets the promise.                       *)
IterDone ==
  /\ On("iterate") /\ stack' = below /\ UNCHANGED held
  /\ known' = known \cup {rt.pairs[rt.combs[Top.n].cap].promise}

IterEnd == IterDone /\ rt' = ended(rt, Top.n)
IterThrows(x) == IterDone /\ rt' = rejectBy(rt, rt.combs[Top.n].cap, x)

-----------------------------------------------------------------------------
(* The embedder, and Go handlers that call back.                           *)
InGo == \/ stack = <<>>
        \/ AllowReentry /\ On("handler") /\ EmptyCallStack /\ Len(stack) < MaxDepth

(* RunProgram, or a Callable for a function of the script.                 *)
Enter(prog) ==
  /\ InGo /\ push(Frame("run", TRUE, prog, <<>>, NoJob, 0)) /\ UNCHANGED <<rt, held, known>>

(* A Callable for a native function, such as the resolve of NewPromise().  *)
HostCall(f, x) ==
  /\ InGo /\ rt' = call(rt, f, x)
  /\ push(Frame("leave", FALSE, FALSE, <<>>, NoJob, 0)) /\ UNCHANGED <<held, known>>

Return ==
  /\ On("run")
  /\ stack' = Append(below, Frame("leave", FALSE, Top.prog, <<>>, NoJob, 0))
  /\ UNCHANGED <<rt, held, known>>

Bug_NextBatch_eager ==
  /\ On("leave") /\ rt.jobQueue # <<>>
  /\ stack' = Append(below, [Top EXCEPT !.batch = rt.jobQueue \o @])
  /\ rt' = [rt EXCEPT !.jobQueue = <<>>] /\ UNCHANGED <<held, known>>

NextBatch ==
  /\ On("leave") /\ Top.batch = <<>> /\ rt.jobQueue # <<>>
  /\ stack' = Append(below, [Top EXCEPT !.batch = rt.jobQueue])
  /\ rt' = [rt EXCEPT !.jobQueue = <<>>] /\ UNCHANGED <<held, known>>

Left ==
  /\ On("leave") /\ Top.batch = <<>> /\ rt.jobQueue = <<>>
  /\ stack' = below /\ UNCHANGED <<rt, held, known>>

(* An interrupt panics through jobs and leave() to the nearest call of the *)
(* embedder, whose leaveAbrupt() drops the queue.                          *)
Caught == Max({i \in 1..Len(stack) : stack[i].k \in {"run", "leave"}})

(* The jobs in the queue, and those waiting or running in frames b and up. *)
jobsFrom(b) ==
  ToSet(rt.jobQueue)
    \cup (UNION {ToSet(stack[i].batch) : i \in b..Len(stack)})
    \cup {stack[i].job : i \in {i \in b..Len(stack) : stack[i].k = "handler"}}

Bug_Interrupt_outermost ==
  /\ AllowInterrupt /\ stack # <<>> /\ Top.js /\ stack' = <<>>
  /\ rt' = [rt EXCEPT !.jobQueue = <<>>, !.lost = @ \cup jobsFrom(Caught)]
  /\ UNCHANGED <<held, known>>

Interrupt ==
  /\ AllowInterrupt /\ stack # <<>> /\ Top.js
  /\ stack' = SubSeq(stack, 1, Caught - 1)
  /\ rt' = [rt EXCEPT !.jobQueue = <<>>, !.lost = @ \cup jobsFrom(Caught)]
  /\ UNCHANGED <<held, known>>

-----------------------------------------------------------------------------
Init ==
  /\ rt = [promises |-> <<>>, pairs |-> <<>>, jobQueue |-> <<>>, combs |-> <<>>,
           derived |-> <<>>, adopted |-> {}, finals |-> <<>>, grabs |-> 0, resumed |-> 0,
           lost |-> {}]
  /\ held = {} /\ known = {} /\ stack = <<>>

Script ==
  \/ NewPromise
  \/ \E p \in known, f, g \in Handlers : Then(p, f, g)
  \/ \E p \in known : Finally(p)
  \/ \E x \in Args : StaticResolve(x) \/ StaticReject(x)
  \/ \E f \in held, x \in Args : CallHeld(f, x)
  \/ \E op \in Combinators : Combine(op)

Iterate ==
  \/ \E x \in Args : IterNext(x)
  \/ \E x \in Plain : IterThrows(x)
  \/ IterWild \/ IterEnd

Jobs ==
  \/ RunReaction \/ BeginHandler \/ RunThenable
  \/ \E x \in Args : HandlerReturns(x)
  \/ \E x \in Plain : HandlerThrows(x)
  \/ NextBatch \/ Left

Embedder ==
  \/ \E prog \in Entries : Enter(prog)
  \/ \E f \in held, x \in Args : HostCall(f, x)
  \/ Return \/ Interrupt

Next == Script \/ Iterate \/ Jobs \/ Embedder

Spec == Init /\ [][Next]_vars

-----------------------------------------------------------------------------
State(p) == rt.promises[p].state
Outcome(p) == <<State(p), rt.promises[p].result>>
Settled(p) == State(p) # "pending"
Owner(k) == rt.pairs[k].promise
Idle == stack = <<>>

ValOK(x) == x.t \in {"undefined", "typeError", "plain", "promise", "thenable", "trap",
                      "list", "aggregate"} /\ x.n \in Nat

(* Every variable has its type.                                            *)
TypeOK ==
  /\ \A p \in Promises :
       LET q == rt.promises[p]
       IN /\ q.state \in {"pending", "fulfilled", "rejected"} /\ ValOK(q.result)
          /\ q.handled \in BOOLEAN /\ q.tracked \in {"none", "reject", "handle"}
          /\ \A i \in 1..Len(q.rejectReactions) : q.rejectReactions[i].cap \in 0..Len(rt.pairs)
          /\ Len(q.fulfillReactions) = Len(q.rejectReactions)
  /\ \A k \in 1..Len(rt.pairs) : Owner(k) \in Promises
  /\ rt.resumed \in Nat /\ rt.grabs \in Nat
  /\ \A i \in 1..Len(stack) : stack[i].k \in {"run", "leave", "handler", "iterate"}

(* A promise settles once, whoever holds its resolving functions and       *)
(* however often a thenable calls those it was given.                      *)
SettledForever ==
  [][\A p \in Promises : Settled(p) => Outcome(p)' = Outcome(p)]_vars

(* A promise has at most one pair of functions that can still decide it,   *)
(* and none once it is settled.                                            *)
OneDecider ==
  \A p \in Promises :
    Cardinality({k \in 1..Len(rt.pairs) : Owner(k) = p /\ ~rt.pairs[k].alreadyResolved})
      <= IF Settled(p) THEN 0 ELSE 1

(* A rejection is reported when nobody has reacted to the promise, and     *)
(* taken back when somebody does.                                          *)
RejectionsTracked ==
  \A p \in Promises :
    LET q == rt.promises[p]
    IN /\ q.tracked = "reject" <=> q.state = "rejected" /\ ~q.handled
       /\ q.tracked = "handle" => q.state = "rejected" /\ q.handled

(* An interrupt has dropped a job that was to decide p: the reaction p was *)
(* derived for, or one that passes on to it the outcome of another.        *)
Severed(p) ==
  \E job \in rt.lost :
    IF job.k = "thenable" THEN job.cap = p
    ELSE \/ Owner(job.cap) = p
         \/ job.handler.f \in {"resolve", "reject"} /\ Owner(job.handler.a) = p

(* When control is outside the runtime, every promise derived by then()    *)
(* from a settled promise has been decided: no reaction is lost but those  *)
(* that were queued, in the batch or running when an interrupt came.       *)
NoReactionLost ==
  Idle => \A i \in 1..Len(rt.derived) :
            LET d == rt.derived[i]
            IN Settled(d.from) /\ ~Severed(Owner(d.pair)) => rt.pairs[d.pair].alreadyResolved

(* A promise resolved with another ends up as the other did.               *)
Adoption ==
  Idle => \A a \in rt.adopted :
            a[2].t = "promise" /\ Settled(a[2].n) /\ ~Severed(a[1]) => Outcome(a[1]) = Outcome(a[2].n)

(* A promise is decided once and tells whoever waits for it: OneDecider,   *)
(* NoReactionLost and Adoption.                                            *)
Decided == TypeOK /\ OneDecider /\ NoReactionLost /\ Adoption

(* What is left of the batch that leave() works on, then the queue.        *)
batches == IF \E i \in 1..Len(stack) : stack[i].k = "leave"
           THEN stack[Max({i \in 1..Len(stack) : stack[i].k = "leave"})].batch ELSE <<>>
Pending == batches \o rt.jobQueue

(* Jobs run in the order in which they were enqueued, across batches and   *)
(* whatever the jobs enqueue: they leave at the head, arrive at the tail.  *)
JobsInOrder ==
  [][\/ IsPrefix(Pending, Pending') \/ (Pending # <<>> /\ IsPrefix(Tail(Pending), Pending'))]_vars

(* finally() passes on the outcome of its promise unless its callback      *)
(* throws or returns a promise that is rejected or pending.                *)
Unbroken(d) ==
  ~Severed(d) /\ \A a \in rt.adopted : a[1] = d /\ a[2].t = "promise" => ~Severed(a[2].n)

FinallyPasses ==
  Idle => \A i \in 1..Len(rt.finals) :
    LET f == rt.finals[i]
        d == Owner(f.pair)
    IN Settled(f.from) /\ Unbroken(d) =>
         CASE f.threw -> Outcome(d) = <<"rejected", f.via>>
           [] ~f.threw /\ f.via.t = "promise" ->
                CASE ~Settled(f.via.n)           -> ~Settled(d)
                  [] State(f.via.n) = "rejected" -> Outcome(d) = Outcome(f.via.n)
                  [] OTHER                       -> Outcome(d) = Outcome(f.from)
           [] ~f.threw /\ f.via.t = "plain" -> Outcome(d) = Outcome(f.from)
           [] OTHER -> TRUE

(* Go handlers that start a nested leave() lose no reaction and no outcome *)
(* of finally(), and an interrupt loses no more than what it unwinds       *)
(* through: what was listed, and what outer batches hold, is run as ever,  *)
(* and adopts and passes on as ever.                                       *)
ControlKeeps == NoReactionLost /\ Adoption /\ FinallyPasses

(* The counter of a combinator is the number of elements it waits for,     *)
(* plus one until its loop has ended.                                      *)
RemainingExact ==
  \A c \in 1..Len(rt.combs) :
    LET m == rt.combs[c]
    IN m.op # "race" =>
         m.remaining = Len(m.inputs) - Cardinality(m.called) + (IF m.over THEN 0 ELSE 1)

(* The elements of a combinator, and what it should make of them.          *)
In(c, st) == {p \in ToSet(rt.combs[c].inputs) : p # 0 /\ State(p) = st}
Tame(c) == /\ rt.combs[c].over
           /\ \A i \in 1..Len(rt.combs[c].inputs) :
                rt.combs[c].inputs[i] # 0 /\ Settled(rt.combs[c].inputs[i])
Results(c) == [i \in 1..Len(rt.combs[c].inputs) |->
                 LET p == rt.combs[c].inputs[i]
                 IN [status |-> State(p), value |-> rt.promises[p].result]]
First(c, st) == {<<st, rt.promises[p].result>> : p \in In(c, st)}

(* The result of all, any, allSettled and race over built-in promises,     *)
(* once they are all settled, control is outside and no interrupt came.    *)
CombinatorResults ==
  Idle /\ rt.lost = {} => \A c \in 1..Len(rt.combs) :
    LET m == rt.combs[c]
        out == Outcome(Owner(m.cap))
    IN Tame(c) =>
      CASE m.op = "all" ->
             IF In(c, "rejected") = {}
             THEN out = <<"fulfilled", List(c)>> /\ m.values = Results(c)
             ELSE out \in First(c, "rejected")
        [] m.op = "any" ->
             IF In(c, "fulfilled") = {}
             THEN out = <<"rejected", AggregateError(c)>> /\ m.values = Results(c)
             ELSE out \in First(c, "fulfilled")
        [] m.op = "allSettled" ->
             out = <<"fulfilled", List(c)>> /\ m.values = Results(c)
        [] OTHER ->
             IF m.inputs = <<>> THEN out[1] = "pending"
             ELSE out \in First(c, "fulfilled") \cup First(c, "rejected")

(* Combinators count and settle: RemainingExact and CombinatorResults.     *)
CombinatorsExact == RemainingExact /\ CombinatorResults

-----------------------------------------------------------------------------
(* What the documentation of AsyncContextTracker promises.                 *)

(* "for each invocation of the Grab method there will be exactly one       *)
(* subsequent invocation of Resumed and then Exited methods (assuming the  *)
(* Promise is fulfilled or rejected)".                                     *)
GrabsResumed ==
  Idle /\ (\A p \in Promises : Settled(p)) => rt.grabs = 0 /\ rt.resumed = 0
=============================================================================
