# A TLA+ verification of goja

goja is an ECMAScript engine in pure Go: a parser and compiler that produce bytecode for a stack machine, the
objects and built-ins of the language, and under `nodejs/` the helpers an embedder needs to run Node-style
scripts, above all an event loop. This directory models its parts in TLA+, checks small instances with TLC and
proves theorems about them with TLAPS. `PROJECT.json` lists the components, runs, theorems, hazards and
findings, and gives for each definition the source lines it stands for.

## 1. Inventory

### The parts, their state and operations

| Part | State | Operations | Interacts with |
|---|---|---|---|
| Event loop (`nodejs/eventloop`) | `running`, `canRun`, `terminated`; `auxJobs`; the table `jobs` with `job.idx`; `jobCount`; one-slot `wakeupChan`; unbuffered `jobChan` | `Start`, `StartInForeground`, `Run`, `Stop`, `StopNoWait`, `Terminate`, `SetTimeout`, ..., `RunOnLoop`, the script's `setTimeout`, ... | goroutines of timers and tickers, client goroutines; calls into the runtime |
| Ordered map (`map.go`) | hash chains `hNext`, list `iterPrev`/`iterNext`, `size` | `set`, `get`, `has`, `remove`, `clear`, `newIter`, `next` | Map, Set, proxies' ownKeys |
| Promises (`builtin_promise.go`) | `state`, `result`, reactions, `handled`; `alreadyResolved` of each pair of functions; closures of combinators | `then`, `catch`, `finally`, `resolve`, `reject`, `all`, `allSettled`, `any`, `race`, Go's `NewPromise` | job queue, rejection tracker, async context tracker |
| Job queue and entry to the runtime (`runtime.go`) | `jobQueue`, `vm.callStack` | `RunProgram`, `AssertFunction`'s Callables, `runWrapped`, `leave`, `leaveAbrupt` | everything that runs script |
| Sampling profiler (`profiler.go`) | request word, `running`, trackers' samples | `start`, `stop`, `registerVm`, sampling goroutine | VM loop polls it |
| VM control (`vm.go`) | `callStack`, `tryStack`, `iterStack`, `refStack`, operand stack, `interrupted` | `run`, `try`, `handleThrow`, `pushTryFrame`, `Interrupt` | any goroutine may interrupt |
| Generators, async functions (`func.go`) | `state`, saved stacks | `next`, `return`, `throw`, `yield`, `await` | promises, VM |
| Objects, arrays, proxies, typed arrays | property tables, dense/sparse elements, handlers, buffers | define/get/set/delete, representation switch, traps, detach | user callbacks in the middle of each |
| Compiler, parser | scopes, bindings, tokens | compile, parse | none at run time |
| CommonJS (`nodejs/require`) | module caches | `require`, resolution | runs scripts recursively |
| Text, numbers, dates, regular expressions, JSON, URL, Buffer | none of their own (`lastIndex` apart) | pure algorithms | |

### Where the difficulty is

* **Concurrency.** The event loop is the one component with several goroutines that share state under locks,
  channels and a condition variable. Interrupt and the profiler touch the VM from other goroutines.
* **Re-entrancy.** Almost every built-in can call user code in its middle (getters, `then` methods, iterators,
  callbacks, Go functions that call back); what was read before the call may be stale after it.
* **Ordering.** The job queue must run reactions in order whatever they enqueue; a map's iterator must see
  every entry once although entries come and go.
* **Failure.** Exceptions and interrupts are Go panics that unwind through half-done operations.
* **Linked data.** The ordered map threads two kinds of links through its entries, and deleted entries remain
  reachable from iterators.

The hazards that follow from this are listed, each at its line, in `PROJECT.json`.

### What makes the parts correct

* Event loop: callbacks run one at a time, a one-shot job at most once, none after it was cleared; no
  submitted job, stop request or waiting `Stop()` is forgotten; `Run` returns when nothing is left, `Stop` and
  `Terminate` return.
* Ordered map: it is a map with insertion order, and live iterators see exactly the entries that an ECMAScript
  iterator must see.
* Promises: one decision per promise, whoever holds its functions; jobs in order, none lost; unhandled
  rejections reported exactly; combinators give their result.
* Profiler: requests are neither lost nor answered twice; `stop` ends the goroutine.
* VM control: after a throw every stack has the height recorded in the frame that catches it; an interrupt is
  delivered once and clears.
* Generators: a body runs once at a time and a finished one stays so; a call of a running generator is
  refused, but not while it delegates, opens or gives up an iterator: then the code resumes the body (section
  13).

## 2. Plan

The order went from what is concurrent or re-entrant to what is sequential and pure.

| # | Modules | Abstract or reference specification | Proofs |
|---|---|---|---|
| 1 | `EventLoop` | `LoopContract` | `EventLoopProofs` |
| 2 | `OrderedMap` | `InsertionMap` | `OrderedMapProofs` |
| 3 | `Promises` | a reaction runs once, an adopted promise ends alike | `PromisesProofs`, `PromiseLinks`, `PromiseOutcomes` |
| 4 | `Profiler` | - | `ProfilerProofs` |
| 5 | `Statements`: the compiler of statements and the instructions they use | `StatementSemantics` (completion records) | - |
| 6 | `Generators`: generators and async functions on the machine's stacks | `want`, where the language puts a body | - |
| 7 | `Collections` (Map, Set, weak collections, ForOf), `Modules` (CommonJS) | `InsertionMap`'s sequence of entries; one object per file | `CollectionsProofs`, `ModulesProofs` |
| 8 | `Arrays`, `Objects`, `ObjectCalls`, `PropNames`, `TypedArrays`, `NodeBuffer`, `Buffers` | `ObjectSemantics`, references in `Arrays` and `Buffers` | - |
| 9 | `Parser` | `Grammar` | - |
| 10 | `RegExps`, `Dates` | references in `MCLibrary` | - |

`PropertyDesc` (the descriptor algebra) is shared by `Arrays` and `Objects`. Modules that a run puts side by
side are composed in its MC module: `MCCombinators` (`Promises` twice, with different constants), `MCCompiler`
(`MCStatements` and `MCParser`), `MCGenerators` (`Generators` and `Collections`), `MCLibrary` (`Buffers`,
`Modules`, `RegExps`, `Dates`), `MCObjects` (`ObjectCalls` and `PropNames`). The halves of a composition do
not step while the other one is away from its initial state; nothing is claimed of their mixture.

## 3. Event loop

`EventLoop.tla` models `nodejs/eventloop/eventloop.go`. The loop goroutine, the goroutine of each fired timer
and each ticker, client goroutines and one control goroutine interleave at every lock, channel operation and
blocking point. The flags, `jobs`, `idx`, `cancelled`, `jobCount`, `auxJobs`, `batch` (the slice `runAux`
walks) and `wakeupChan` are the fields of the same names. `gor` is where a job's timer or ticker is; a
rendezvous on `jobChan` is one action (`ReceiveTimeout`, `ReceiveTick`, `ReceiveRemoval`). `pc` is the loop's
place in `run()`, or in `Terminate`, which works on the loop's data after `Stop` has seen the loop leave. The
doc comments of `Start`, `Stop` and the others forbid calling them concurrently; one control goroutine stands
for all. `bcast` counts `run()` calls that have released `stopLock` and not yet reached `Broadcast`. A
callback is any sequence of calls into the loop between the step that calls it and `CallbackReturn` or
`CallbackPanic`; a script that clears a timer whose start is still queued has the nil timer's panic
(`CbClearPanics`, `eventloop.go:495`), which unwinds `run()` likewise. Delays are left out: a timer may fire
any time after it is armed.

`LoopContract.tla` is what the callers may rely on; `ContractHolds` says that the loop implements it under the
mapping `life`/`executing`. Its `Cancel` may also end the callback that cancels, as that panic does.

| Run | Shows |
|---|---|
| `loop_safety` | the table and the counter are exact (`JobsAccounted`), no wakeup, stop or waiter is forgotten (`HandshakesKept`), the contract is kept (`ContractHolds`); with panics that unwind `run()` |
| `loop_live` | `Stop` and `Terminate` return (`ControlReturns`), timeouts and submitted work are delivered (`WorkDelivered`), `Run` returns unless `Terminate` was called (`RunEnds`) |
| `loop_rerun` | a disagreement with the doc comments (section 13) |

*Bounds.* One timer, one interval, one immediate and one client suffice for every pair of actors to meet in
every order; the table then reaches length two, which is where `removeJob`'s move of the last entry differs
from a plain removal. `MaxAux` = 1 lets a submission meet an earlier one, as the batch being executed holds
more. `MaxBcast` = 2 lets two `run()` calls be late with their `Broadcast` at once. Deadlock checking is off
because the system may stop: no one has to start a stopped loop. `loop_live` has one timer, one interval and
one client, of which one job is used in a behaviour (`OneHandle` in `LiveSpec`), with `MaxAux` = 1: the client
submits, so that its append and its wakeup come between any two steps of the loop, and a submission meets the
batch of another.

*Fairness.* A goroutine that can step does (weak fairness on the steps of the loop, of `Stop` and `Terminate`
and of a client inside a call); callbacks return; time passes. Go's `select` chooses at random among ready
cases, so the cases of the two `select`s and the senders queued on `jobChan` get strong fairness. No client or
control call is ever obliged to happen.

*Proved* (for all sets of jobs and clients). `EventLoopProofs.tla`: `TypeCorrect`, `HandshakesHold` and
`ContractKept`, that is, `Spec => ContractHolds`. The handshakes are not inductive one by one. That a blocked
loop with work in `auxJobs` has a token, or a client about to send one, needs to know which control
goroutine's steps are in flight, when `canRun` and `running` may differ, and how many `Broadcast`s are
outstanding; the inductive invariant adds these relations between `pc`, `ctl`, `running` and `bcast`. The
refinement needs that a job that may fire has been scheduled and is not cancelled (`gor` against `cancelled`),
and that `executing` is empty wherever the loop calls back.

`JobsAccountedHold`. The jobs counted are exactly those started and not cancelled and those that `Terminate`
has cancelled, which stay counted (`CountedExact`); `jobCount` is their number, plus one for a background
loop, less the intervals that a script has cleared before their start ran (`Owed`), until a panic unwinds
`run()` (`CountExact`). So the counter is too high after `Terminate`, as `loop_rerun` shows; the theorem says
by how much. It follows from the invariant `Books`: which goroutine owns the loop's data and where an
unfinished batch may be (`Phases`), that the table never holds an immediate and holds each job once
(`Tabled`), what `Terminate` has cancelled of what it has passed (`Cancelling`), which jobs are counted
(`Counting`, `CountExact`), and where the start and the steps of a job stand in the line of submitted work
(`Ordered`, but after a panic has unwound `run()`). TLC checked it with `MaxAux` = 2.

## 4. Ordered map

`OrderedMap.tla` models `map.go` pointer by pointer: entries are allocated once and keep their links when they
are deleted, as Go objects do that an iterator still holds. `Hash` is an arbitrary function of the canonical
key and `Canon` maps -0 to 0, as `lookup` does. Loops are steps of their own: the walk along a chain,
`clear`'s walk, an iterator's way back over deleted entries. One call is in progress at a time (the runtime is
single threaded); iterators live across calls. `InsertionMap.tla` is the abstract object: entries stamped in
the order of their insertion, and for each iterator the stamp it has reached. A call begins with its operation
and arguments (`pc`, `arg`) and takes effect once, on the entry of the key it was given or on its iterator,
and returns what that entry has: a structure that took another key of the same bucket for the one asked for
would not refine it (nor `Bug_sought_anyKey`).

The run `map` checks `LinksAgree`, that the list and chains are exact (`ListExact`, `ChainsExact`), that the
stale links of deleted entries lead an iterator back to the right place (`WayBack`), that `size` counts
(`SizeExact`) and that the structure implements the abstract map (`ImplementsMap`), and that every call
returns (`CallsReturn`), under weak fairness of the call's own steps, which is what sequential code has.

*Bounds.* Two keys with one hash, one of them also spelled -0, and two values; four entries over the life of
the map let a deleted entry have a deleted neighbour on either side and be followed by an entry added later.

*Proved* (`OrderedMapProofs.tla`, for all keys, values, hash functions and numbers of entries and iterators):
`MapTypeCorrect`; `LinksExact`: `ListExact`, `ChainsExact` and `WayBack`; `MapRefines`: `Spec =>
ImplementsMap`. `WayBack` is what makes the proof work and is not inductive alone: between a deleted entry and
the entry its `iterPrev` leads to, nothing present may lie (`Backwards`), which deletions elsewhere in the
list preserve because a deletion only removes entries from such a gap. `Clearing`, `Walking` and `Tracking`
state what holds in the middle of the three loops.

## 5. Promises and the job queue

`Promises.tla` models `builtin_promise.go` and the functions of `runtime.go` through which control enters and
leaves. Native functions are operators from runtime state to runtime state, under the names of the source.
Script code is any sequence of calls, in frames of `stack`: code called by the embedder, the loop of
`leave()`, handlers called by jobs, and a combinator's loop over its argument. Whether the VM's call stack is
empty decides in `runWrapped` if `leave()` runs; the model keeps that, so a handler written in Go that calls
back starts a nested `leave()`. Values are plain values, promises, thenables whose `then` is any user code,
and objects whose `then` getter throws. The double buffer of `leave()` is a queue and a batch: the buffer that
jobs fill is that of the batch before, all of which has run, and a nested `leave()` has its own.

| Run | Shows |
|---|---|
| `promise_core` | `Decided`: one decider per promise, no reaction lost, an adopted promise ends alike; `RejectionsTracked`; `SettledForever`; `JobsInOrder` |
| `promise_combinators` | `CombinatorsExact`: counter and result of the four combinators, elements settling in the loop, late, twice or never; `ControlKeeps`: nested `leave()` of Go handlers and interrupts lose no reaction but those whose own job was queued, in the batch or running when the interrupt came; adoption and `finally` work for all others, after the interrupt too |

`promise_combinators` runs `Promises` with combinators or with control (`combining`), each with its own
bounds.

*Bounds.* Script code stops creating promises at `MaxPromises` (jobs may go on creating), and resolving with
thenables at `MaxPairs`: three promises give chains, shared sources and adoption of a derived promise.
`promise_core` enters by `RunProgram` only (`Entries`), as how control entered matters only to Go handlers,
which `promise_combinators` has. `MaxInputs` = 2 tells a combinator's first element from its last. `MaxDepth`
bounds nesting.

*Proved*, for all bounds and, but for `OrderKept`, all features.

`PromisesProofs.tla`: `SettlesOnce`, `TrackerTold`, `OneDeciderHolds`, `OrderKept` and `RemainingHolds`. The
invariant says who can still decide a promise: one unused pair of functions, or the job of one thenable in the
queue or in a batch (`OneEach`, `Busy`); each native function is proved to keep it and to let the runtime only
grow (`Grown`), which gives `SettlesOnce`. `OrderKept` assumes that no Go handler calls back and nothing
interrupts: a nested `leave()` does run newer jobs before the rest of an outer batch, and an interrupt drops
the queue. `RemainingHolds`, that the counters of combinators are exact, follows from an invariant of its own
(`Tallied`): a function of an element counts once, and each frame that iterates does so for another
combinator, whose loop has not ended, so that the one that the loop holds is given back once.

`PromiseLinks.tla` and `PromiseOutcomes.tla`: `DecidedHolds` and `ControlKept`. Neither the code nor the model
records what a pair of resolving functions is for, and the properties follow reactions from promise to job to
handler. The invariant `Outcomes` therefore says that there is an assignment (`use`) of a purpose to every
pair: *open*, anybody may call it; *derived* from promise p with handlers f and g, only the end of a
reaction's job calls it; *adopting* p, only reactions of p call it. For this assignment:

* what is listed, queued, in a batch or running fits: a job has the outcome of its promise and the handler
  that goes with it, and a reaction is in one place only (`Lists`, `QueueOK`, `BatchesOK`, `HandsOK`,
  `Apart`);
* a pair that has been used has had its effect: the promise has the outcome of the handler, or adopts what it
  returned (`Effects`); for `finally`, of the promise that its callback's result makes (`FinDone`, `Fins`,
  `Untried`);
* a derived pair that is not used is somewhere, or its job is one of those that an interrupt dropped
  (`rt.lost`); the job of a promise resolved with another is waiting, dropped, or has left a pair that adopts;
  and what was dropped belonged to its pair (`Tended`, `Missed`, `Adoptions`, `Losses`);
* user code has only functions of open pairs (`Public`), and the frames of the stack agree with all that
  (`StackOK`).

There is a lemma for every native function and for every action; a function that makes a pair extends the
assignment by one purpose. When control is outside (`Idle`) queue, batches and stack are empty, so that a
derived pair is listed, by a promise still pending, or its job was dropped, or it is used, with the effect
that the properties ask for (`Resting`, `NoneLost`, `AllAdopt`, `AllPass`).

## 6. Profiler and interrupts

`Profiler.tla` models `profiler.go` together with `vm.run`, `vm.runWithProfiler` and `vm.Interrupt`. Each VM
has a stack of calls of `run()`, because native functions run code on the same VM; a call is in the plain loop
or traces. The request word of a tracker is loaded and stored in separate steps, as the atomics are, and the
time in which a VM writes the frames of a sample is a state of its own (`partial`), so that a torn read would
show. The sampler holds `p.mu` during a scan; the other critical sections are single steps. What a sample
contains is left out.

The run `profiler` checks that samples are read whole and once (`SamplesWhole`); that no tracker feeds the
profile of another session, `p.buf` is never nil for a sample, there is exactly one sampler while there are
trackers and only the call that registered a tracker drops it (`TrackersExact`); that finished VMs are
forgotten (`FinishedForgotten`) and that an interrupt stops a VM that is being profiled
(`InterruptDelivered`).

*Bounds.* Two sessions, so that remains of the first meet the second; two trackers, so that a removal moves
one; two nested calls. One VM: VMs share only the tracker list, and its trackers of successive calls stand for
those of others.

*Fairness.* The ticker ticks; a goroutine in the middle of a call goes on; native functions return, although
they may run code first (strong fairness); `sync.Mutex` starves nobody. Nobody has to start or stop a profile.

*Proved* (`ProfilerProofs.tla`, for any numbers of VMs, trackers, sessions and nested calls):
`SamplesWholeHold` and `TrackersExactHold`. No lock guards the request word. What makes it work is that only
the VM answers a request and only the sampler asks and collects, so that a word found at "sampleReady" stays
so until the one who found it resets it; that trackers of different lists differ by their session; that the
list names no tracker twice, without which removing one, which moves the last entry, would drop another one;
and that the call that owns a tracker is the lowest one in `runWithProfiler`.

## 7. Compiler and parser

`Statements.tla` compiles programs as `compiler_stmt.go` does, into the instructions of `vm.go` for jumps,
block scopes, iteration, `try`, calls and returns, patches the jumps of `break` and `continue`, and runs the
result. An expression is an event with an arbitrary outcome: truthy, falsy or an exception. The record `vm`
has the program counter, the operand stack, the iterator, try and call stacks and the result register.
`StatementSemantics.tla` gives the meaning of the same program by structural recursion on completion records,
reading the outcomes from the trace of the run.

`Parser.tla` is the recursive descent parser on tokens (a token is its text and whether a line break precedes
it): expressions, patterns and the reinterpretation of expressions as patterns, functions, classes,
statements, semicolon insertion, the scope flags. `Grammar.tla` says what text a tree has, with parentheses
where the grammar needs them, and where statements may drop their semicolon.

Run `compiler`:
* `ProgramsAgree` - the trace is the one ECMAScript prescribes (`Agrees`), the completion value too
  (`ResultAgrees`, jumps nested in one statement excepted), and nothing is left on any stack (`Balanced`);
* `TreesParsed` - the parser makes of the text of every tree of the bounded set just that tree, with
  semicolons and with line breaks;
* `TextsMatched` - fourteen families of token sequences (`Families` of `MCParser`: up to four tokens of a
  small vocabulary, between fixed ones that lead into one construct): each sequence that the parser accepts is
  a text of the tree it returns.

*Bounds.* Two statements of every kind nested around every kind of exit (three for `try`, `finally`, `for-of`,
blocks), eight events: a second turn of a loop, an exception in its `finally`, the closing of its iterator, or
an exception in the first turn of two nested `for-of` loops with the closing of both fit in; second turns of
the inner one of two `for-of` loops that an exception then leaves do not. `ReturnFrames` = 2 is what
`return()` of an iterator may leave the stacks' capacity to grow by. The last two properties are action
properties: what is parsed is chosen in the step.

## 8. Objects and arrays

`Arrays.tla` models both representations of arrays with their counters, the switch between them, and the
methods of `Array.prototype`, on the fast path that `checkStdArrayObj` allows and on the generic one. A state
is an array; `Next` are element operations, `expand`, truncation, redefinition, `sort` and the like. The
properties evaluate *every* operation in every state: `Structure` (items ascend, nothing beyond the length, no
stale values in the spare capacity; the two counters drift and are left out of it), `ElementsAgree`,
`CallsAgree` (each method has the effect of its ECMAScript definition on the abstract array). *Bounds.*
Lengths up to 3 and the thresholds of the switches scaled down (`SwitchIdx` = 1 for 4096, `DenseMin` = 2 for
1024, ...), so that each switch happens in both directions.

`Objects.tla` has get, set, define, delete, freeze and the proxies' traps; `ObjectCalls.tla` makes one call in
every scene (an object on a prototype chain, possibly through a proxy with one trap); `ObjectSemantics.tla`
says what the call should do, and when a trap's answer is *honest*: some object with the permanent facts of
the target could have given it. The elements of an arguments object that still are variables are modelled as
the code sees them when it lists, seals or tests them (`object_args.go:78`); the properties leave out what
section 13 lists. `PropNames.tla` is the shared slice of property names: the Go array, the marker in the last
cell of its capacity that makes deletions copy, and the iterations that hold the slice. Run `objects`:
`AccessAgrees`, `ProxyHonest`, `HardenAgrees`; `NamesKept` - an iteration keeps its snapshot whatever is put,
deleted, sorted or iterated meanwhile. *Bounds.* Two index keys (their order shows), a name and a symbol; in
the list two iterations, arrays of up to four cells, and a name that equals the marker.

## 9. Library

`TypedArrays.tla`, `NodeBuffer.tla`: views over buffers, every element kind at base `Base` (256 in the code),
every method; an effect names the call of user code at which a buffer is detached or written. `Buffers.tla`
makes one call on two buffers, with every offset and length. Run `library`: `Contained` (no read or write
through a view of a detached buffer, none outside the view, no Go panic but the listed ones), `MovesAgree`
(copying methods work as on a snapshot), `ValuesRead` (what is read is what is there). `Base` = 4 has values
that wrap, and `MaxInt64` = 40 offsets whose sum with a length overflows.

`RegExps.tla`: `lastIndex`, the two engines and the maps between their positions and those of the string,
groups and what is kept of those of earlier iterations (`Kept`), the cache, the fast and generic paths of the
methods. `Dates.tla`: times, setters, texts, parsers, zones with one change of offset, milliseconds in the 64
bits of `timeToMsec`. Their calls are determined by their arguments, so that `RegExpsAgree` and `DatesAgree`
are action properties over all calls of the bounded sets (`MCLibrary`).

`Modules.tla`: resolution of names, the caches, cycles, native and core modules, files that do not compile,
throw or go away. `require` starts from the file of the code that calls it, which may be any file whose body
has begun, as its functions are passed about (`CurrentModulePaths`), or from the directory of the process.
`ModulesShared` - one module object per file. Relative names, two files that may require each other, another
of the same name elsewhere, one found by adding `.js` to `x.js`, a directory with a `package.json`,
`node_modules`, a global folder; three objects, and no further `require` at `MaxEntries` = 4 entries; one of
the files may go away.

*Proved* (`ModulesProofs.tla`, nothing assumed of the constants): `ModulesSharedHold`. The invariant `MInv` =
`Shapes /\ Running /\ Cached /\ Compiled /\ Kept`: an object that has not failed is in the cache under its own
path, and a file gets an object only when its path is not there; entries under other names can only have been
made in a cycle (`Kept`); and a path that names a compiled file is found first (`FoundFirst`, `PlacesAre`), so
that what `throw` deletes is what the file was entered under.

## 10. Generators and collections

`Generators.tla` has the operand, try, iterator and call stacks as far as bodies of generators and async
functions disturb them: `suspend` takes a body's own part along, `resume` gives it back, `_return` and
`nextThrow` walk through its finally blocks. Bodies are arbitrary: they open and close loops and try
statements, yield, delegate, await, fail, and call generators, themselves too, and so do the iterators they
delegate to, while those are opened, asked or given up. `Refused` is a call of a body that runs; one that
delegates is not refused, and the body goes on in the inner call. `want` is where the language puts each body.
`StacksExact`: every stack has exactly the height that the calls in progress make it, and the top frames are
those of the body that runs. `BodiesKept`: bodies are where `want` has them and run once at a time.

`Collections.tla` has Map, Set, WeakMap, WeakSet, their methods, `forEach`, iterators, constructors with
custom adders, and `iteratorRecord` and `ForOf` of `runtime.go`. A frame of `go` is a Go function that has
called user code. `SourcesConsumed`: a source is asked no more after it ended or failed and is closed exactly
once where it must be, and a new Map or Set holds what it gave. `HandlesApart`: weak collections that share
keys stay apart; an iterator that is done stays done.

*Bounds* of the run `generators`: two generators with statements one deep, one generator two deep under a
script, a generator with an async function, an async function two deep; four Go functions in progress.
`Faults` = {}: each of its values admits a behaviour in which the code departs from the language (section 13);
where a call that waited for a delegated iterator then finds its body at the end, or would throw into a block
of that kind, the program starts again (`GivenUp`). Generators that delegate to each other in a circle are
left out: the code recurses without end. A Map with an iterator, nested constructions of a Set, two weak
collections sharing a key, a Set and a WeakSet with an iterator as source; two entries, two items.

*Proved* (`CollectionsProofs.tla`, for any objects, values, arrays, numbers of collections, calls and
iterators): `HandlesApartHold`, `SourcesConsumedHold`. The frames carry the argument: what a frame says of its
source and its collection stays true while user code runs on top, because a collection being made is reached
by nobody and made by one call (`FrameInv`); numbers of weak collections differ and no object has an entry
under a number not given (`WeakInv`); an iterator that is done has let go of its map (`WalkInv`); and
`MadeOfMore` says that what the entries are made of is extended by one pair at a time, at the end.

## 11. Runs

| Run | Kind | Checks |
|---|---|---|
| `loop_safety` | pass | `TypeOK`, `JobsAccounted`, `HandshakesKept`, `ContractHolds` |
| `loop_live` | pass, fair | `ControlReturns`, `WorkDelivered`, `RunEnds` |
| `loop_rerun` | violation, fair | `RunReturns` (section 13) |
| `map` | pass, fair | `LinksAgree`, `ImplementsMap`, `CallsReturn` |
| `promise_core` | pass | `Decided`, `RejectionsTracked`, `SettledForever`, `JobsInOrder` |
| `promise_combinators` | pass | `CombinatorsExact`, `ControlKeeps` |
| `profiler` | pass, fair | `SamplesWhole`, `TrackersExact`, `FinishedForgotten`, `InterruptDelivered` |
| `compiler` | pass | `ProgramsAgree`, `TreesParsed`, `TextsMatched` |
| `arrays` | pass | `Structure`, `ElementsAgree`, `CallsAgree` |
| `objects` | pass | `NamesKept`, `AccessAgrees`, `ProxyHonest`, `HardenAgrees` |
| `library` | pass | `Contained`, `MovesAgree`, `ValuesRead`, `RegExpsAgree`, `DatesAgree`, `ModulesShared` |
| `generators` | pass | `StacksExact`, `BodiesKept`, `SourcesConsumed`, `HandlesApart` |

Deadlock is checked where the configuration does not say otherwise; where it is off, the system may really
stop (a stopped loop, a program that ended, a call that was made). Runs that check refinement or safety use no
fairness; `FairSpec` is used for liveness only. `PROJECT.json` gives for each property of a passing run a slip
in the code's model that violates it.

## 12. What is proved and what is only checked

Proved for every value of the constants (`theorems` of `PROJECT.json`):

| Module | Theorem | States |
|---|---|---|
| `EventLoopProofs` | `TypeCorrect`, `HandshakesHold`, `ContractKept`, `JobsAccountedHold` | `TypeOK`, `HandshakesKept`, `ContractHolds`, `JobsAccounted` |
| `OrderedMapProofs` | `MapTypeCorrect`, `LinksExact`, `MapRefines` | types, `LinksAgree`, `ImplementsMap` |
| `PromisesProofs` | `SettlesOnce`, `TrackerTold`, `OneDeciderHolds`, `OrderKept`, `RemainingHolds` | `SettledForever`, `RejectionsTracked`, `OneDecider`, `JobsInOrder`, `RemainingExact` |
| `PromiseOutcomes` (on `PromiseLinks`) | `DecidedHolds`, `ControlKept` | `Decided`, `ControlKeeps` |
| `ProfilerProofs` | `SamplesWholeHold`, `TrackersExactHold` | `SamplesWhole`, `TrackersExact` |
| `ModulesProofs` | `ModulesSharedHold` | `ModulesShared` |
| `CollectionsProofs` | `HandlesApartHold`, `SourcesConsumedHold` | `HandlesApart`, `SourcesConsumed` |

Every inductive invariant was first checked by TLC as an invariant of a run, with the bounds of the run or
larger ones, but for two: TLC cannot enumerate the assignments of `Outcomes`, and `Tallied` adds only the
frames of loops to `RemainingExact`. What follows from these two is both checked and proved. The assumptions
are the `ASSUME`s of the modules: sets of handles are disjoint and finite, bounds are natural numbers, `Canon`
is idempotent and `Hash` a function of the canonical key.

Only model-checked:
* liveness under fairness: `ControlReturns`, `WorkDelivered`, `RunEnds`, `CallsReturn`, `FinishedForgotten`,
  `InterruptDelivered`;
* modules with recursive operators, which the provers cannot reason about: `Statements`, `StatementSemantics`,
  `Parser`, `Grammar`, `Arrays`, `Objects`, `TypedArrays`, `NodeBuffer`, `Buffers`, `RegExps`, `Dates`. What a
  recursive definition computes needs induction over data;
* `PropNames` (`NamesKept`), whose sorting of index names is a fold, and `Generators`, whose heights are sums
  over the calls in progress;
* of `Promises`, the part `CombinatorResults` of `CombinatorsExact`: what the promise of a combinator is
  settled with, and what its result lists.

## 13. Disagreements between code and documentation

`loop_rerun` is a run: `Terminate` cancels jobs without undoing their `jobCount++` (`eventloop.go:301`), so
that a later `Run()` never returns, although the comment at `:287` says that the loop can be restarted.

Others were met while modelling. The way to see one again is in parentheses.

*Event loop, promises, profiler.*
* `run()` resets `running` without `defer`: after a panic recovered around `StartInForeground`, which its
  comment invites (`eventloop.go:247`), `Stop()` waits forever (`:356`) (`ControlReturns` with `AllowPanic` =
  TRUE and one timer).
* `SetTimeout` from the last timer's callback under `Run()` is counted only later, and `Run()` returns without
  running it (`:165` against `:160` and `:226`) (`RunLeavesNothing`, two timers, no `Terminate`, no panics).
* A reaction without handler is grabbed by the context tracker and never resumed (`builtin_promise.go:204`,
  `func.go:42`) (`GrabsResumed` in `MCCombinators`).
* The goroutine that should ask every VM to stop tracing leaves too early (`profiler.go:299`, comment `:285`)
  (`AllAskedToStop` with `MCProfiler.cfg`).

*Generators* (each value of `Faults` violates `StacksExact`).
* "finally": an exception that leaves a finally block which `return()` runs, or that is thrown into it, is
  handed to Go although the body has outer try statements: their `catch` is skipped, a stale frame stays, and
  the caller's `try` is skipped too (`func.go:806`).
* "close": closing a loop fails inside a frame without handlers: the panic leaves `_return` or `step` with the
  state `executing`.
* "reenter": `validate` (`func.go:916`) refuses a generator that executes, but while it delegates, or opens or
  gives up the delegated iterator, its state is another one: a call then resumes the body, and the outer call
  goes on with it afterwards wherever it is. If it has ended, the outer call resumes the ended body out of the
  context it had last.
* "both": `enterFinally` leaves `catchPos`: an exception in a finally block that was entered normally is
  caught by the `catch` of its own statement.
* `delegate()` sets the state to completed while the body runs; a panic from `promiseResolve` in
  `asyncRunner.start` leaves a frame.

*Collections and iteration.* The fast path of Set and WeakSet over an array fixes its length; an exception of
`returnIter` in `ForOf` replaces that of the step; an iterator without a callable `next` ends in a Go nil
call.

*Compiler* (`Agrees` with `FinallyPrograms` or `DeadPrograms` of `MCStatements`): `finally` and `return` share
`vm.result`; a `try` frame's pointer is used after the stack grew (`vm.go:4796`); a `break` in dead code
(`compiler.go:1343`); completion values at nested jumps.

*Parser* (`TreesParsed` with `Unusual` = TRUE and `MaxTokens` = 1 for the first): `a < b < c` associates to
the right (`expression.go:1008`); accepted though not ECMAScript: `(a) && b ?? c`, `((a, b)) => c`, `((a)) =>
1`, `new a?.b`, `await a ** b`, a function declaration as the body of a loop, `var [a.b] = c`; `#a in b` has
the token behind `in` as its operator, which nothing reads (`expression.go:978`); rejected though ECMAScript:
a keyword as a property name at the end of a line, `([a = 1] = [], b) => a`, a class field named `get` with an
initializer, async generator methods in objects.

*Arrays and objects.* `objCount` and `propValueCount` drift (arrays with holes or property objects then take
fast paths); `length` set to the index of a fixed element of a sparse array deletes it; `shift` ignores a
length that is not writable; the fast `sort` works on the live slice. A non-configurable accessor or data
property accepts some redefinitions; `isCompatibleDescriptor` compares the functions of accessors the wrong
way round; `setForeignSym` compares the receiver with the object itself where it means the prototype. An
element of an arguments object that still is a variable is handed out as its bare value (`object_args.go:78`):
`keys`, `entries`, `values` and `assign` take it to be enumerable, `isSealed` and `isFrozen` answer false
while there is one (`builtin_object.go:332`), and an `ownKeys` trap may leave it out when it is not
configurable (`proxy.go:810`).

*Buffers* (`KnownPanic`, `Spills` in `Buffers`; `AllocReturns`). The destination of `copyWithin` is not
limited to the view; `defineProperty` on an index without value, `set` from an empty source at the end of a
buffer, an offset near `MaxInt64` and a negative length are Go panics; `Buffer.alloc(n, '')` does not return;
search compares bit patterns. Of a negative BigInt, `fill` and searches in a BigInt64Array lose the sign
(`builtin_typedarrays.go:527`, `typedarrays.go:601`), searches cut it to 64 bits, and `writeBigUInt64BE/LE`
stores the low bits of its absolute value instead of refusing it (`buffer.go:746`).

*Regular expressions* (`Differs` in `MCLibrary`): an empty match right behind a match is dropped by one
engine; `split` gives an empty piece more; global and sticky together stop after an empty match; on text that
is not ASCII a non-global `replace` replaces all with the flag `u`, and does not test the place of the match
with the flag `y` and Go's engine; names of groups are lost there. Of a group in an iteration before the last
one of a `*`, the fast `replace` and `split` keep everything; `exec` forgets it only when it ends before the
group listed before it begins (`regexp.go:572`), and so keeps the inner one of `((a)|b)*` on a text that ends
in "ab" (`ExecFinds` leaves these out: `Stale`).

*Dates*: `setMilliseconds` before 1970 is a second late (`builtin_date.go:684`); years -9999 to -1 print with
four digits (`:131`); years of five digits print one digit short in ISO format, as the sign counts as one
(`:135`), and are not read back; years some 584 million off come back as a time near 1970, as milliseconds
wrap around in 64 bits (`date.go:85`, `builtin_date.go:507`); a setter of an unset date whose argument is NaN
takes back what the conversion set; day 31 parses in every month; arguments after a NaN are not converted.

*Modules*: a module that throws is deleted under its own path only; a native loader that panics leaves its
entry; global folders are searched first.

## 14. Not modelled

The parts with status `not_modelled` in `PROJECT.json`, with their reasons: conversion of numbers to text and
64-bit arithmetic, the regular-expression engines (third party), Go value wrappers (reflection), console,
process and command line (I/O). In the parts that are modelled: delays of timers, arguments of callbacks,
registry and console options; capabilities of custom constructors and `Symbol.species`; script run inside a
`then` getter; expressions, scopes and classes in the compiler; characters in the lexer; templates, lazy and
dynamic objects; exports to Go values. Definitions named `Bug_...` are slips that the properties are known to
catch; the specifications do not use them.
