------------------------------- MODULE Profiler -------------------------------
(***************************************************************************)
(* The sampling profiler of profiler.go and the two loops of vm.go that    *)
(* poll it and the interrupt flag: vm.run and vm.runWithProfiler.          *)
(* Goroutines:                                                             *)
(*   - one per VM; a native function called by an instruction may run more *)
(*     code on the same VM, so each has a stack of calls of run();         *)
(*   - the sampler, profiler.run, which holds p.mu while it scans;         *)
(*   - the one that calls StartProfile and StopProfile (not safe for       *)
(*     concurrent use: they write globalProfiler.w without a lock);        *)
(*   - one per StopProfile that met a request under way, which makes sure  *)
(*     that the VMs leave tracing mode;                                    *)
(*   - any that calls Interrupt.                                           *)
(* What a sample contains is left out: it is empty, partial (being         *)
(* written), fresh (never read) or used.                                   *)
(***************************************************************************)
EXTENDS Integers, Sequences, FiniteSets, SequencesExt

CONSTANTS
  VMs,
  MaxTrackers,   \* bound: trackers registered over the whole run
  MaxSessions,   \* bound: calls of StartProfile
  MaxNest        \* bound: calls of run() nested on one VM

ASSUME ProfilerAssumption ==
  MaxTrackers \in Nat /\ MaxSessions \in Nat /\ MaxNest \in Nat

VARIABLES
  enabled,      \* globalProfiler.enabled
  buf,          \* p.buf: the number of the session, NoBuf for nil
  trackers,     \* p.trackers
  running,      \* p.running
  tr,           \* the profTracker objects; session: history, where registered
  sampler,      \* the goroutine of profiler.run: place, counter, left, tracker
                \* and the request it loaded
  ctl,          \* the goroutine in StartProfile or StopProfile
  cleaners,     \* per session, the goroutine stop() leaves behind
  stack,        \* per VM, the calls of run()
  profTracker,  \* per VM, vm.profTracker, None for nil
  interrupted   \* per VM, vm.interrupted

profVars == <<enabled, buf, trackers, running, tr>>
vmVars == <<stack, profTracker, interrupted>>
vars == <<profVars, sampler, ctl, cleaners, vmVars>>

None == 0
NoBuf == 0
Sessions == 1..MaxSessions
Trackers == 1..Len(tr)

(* p.mu is held across steps only by a scan of the sampler.  Definitions   *)
(* named Bug_... are slips that the properties below must catch.           *)
muFree == sampler.at \in {"off", "wait"}

Init ==
  /\ enabled = FALSE /\ buf = NoBuf /\ trackers = <<>> /\ running = FALSE /\ tr = <<>>
  /\ sampler = [at |-> "off", counter |-> 0, left |-> 0, t |-> None, req |-> "none"]
  /\ ctl = [at |-> "idle", todo |-> <<>>, kept |-> <<>>, req |-> "none", session |-> 0]
  /\ cleaners = [s \in Sessions |-> [on |-> FALSE, todo |-> <<>>, kept |-> <<>>]]
  /\ stack = [v \in VMs |-> <<>>] /\ profTracker = [v \in VMs |-> None]
  /\ interrupted = [v \in VMs |-> FALSE]

-----------------------------------------------------------------------------
(* The VM.  A call of run() is in its plain loop or in runWithProfiler;    *)
(* owner says that this call registered the tracker and will drop it,      *)
(* first that runWithProfiler was called before the plain loop.            *)
Call(prof, owner, first, at) == [prof |-> prof, owner |-> owner, first |-> first, at |-> at]

Top(v) == stack[v][Len(stack[v])]
At(v, prof, at) == stack[v] # <<>> /\ Top(v).prof = prof /\ Top(v).at = at
goto(v, call) == stack' = [stack EXCEPT ![v][Len(stack[v])] = call]
moveTo(v, at) == goto(v, [Top(v) EXCEPT !.at = at])

Owns(v, n) == \E i \in (Len(stack[v]) - n + 1)..Len(stack[v]) : stack[v][i].owner

(* The deferred function of runWithProfiler, for the calls that end.       *)
drop(v, owned) ==
  IF owned
  THEN /\ tr' = [tr EXCEPT ![profTracker[v]].finished = TRUE]
       /\ profTracker' = [profTracker EXCEPT ![v] = None]
  ELSE UNCHANGED <<tr, profTracker>>

end(v, n) ==
  /\ drop(v, Owns(v, n))
  /\ stack' = [stack EXCEPT ![v] = SubSeq(@, 1, Len(@) - n)]

others == <<enabled, buf, trackers, running, sampler, ctl, cleaners>>

(* Bound on registrations: those made and those that may be under way.     *)
room == Len(tr) + Cardinality({v \in VMs : \E at \in {"poll", "register"} : At(v, FALSE, at)})
          < MaxTrackers

(* run(), called by the embedder or by a native function.                  *)
EnterRun(v) ==
  /\ Len(stack[v]) < MaxNest /\ (stack[v] # <<>> => Top(v).at = "exec")
  /\ \/ /\ profTracker[v] # None
        /\ stack' = [stack EXCEPT ![v] = Append(@, Call(TRUE, FALSE, TRUE, "top"))]
     \/ /\ profTracker[v] = None /\ room
        /\ stack' = [stack EXCEPT ![v] = Append(@, Call(FALSE, FALSE, FALSE, "poll"))]
  /\ UNCHANGED <<others, tr, profTracker, interrupted>>

(* Every 100 instructions the plain loop looks whether profiling is on,    *)
Poll(v) ==
  /\ At(v, FALSE, "poll") /\ moveTo(v, IF enabled THEN "register" ELSE "top")
  /\ UNCHANGED <<others, tr, profTracker, interrupted>>

(* and enters runWithProfiler, with a tracker of its own or the VM's.      *)
registerVm(v) ==
  LET pt == [req |-> IF buf = NoBuf THEN "stop" ELSE "none", finished |-> FALSE,
             sample |-> "empty", session |-> buf]
  IN /\ muFree
     /\ tr' = Append(tr, pt)
     /\ profTracker' = [profTracker EXCEPT ![v] = Len(tr')]
     /\ IF buf = NoBuf THEN UNCHANGED <<trackers, running, sampler>>
        ELSE /\ trackers' = Append(trackers, Len(tr')) /\ running' = TRUE
             /\ sampler' = IF running THEN sampler
                           ELSE [sampler EXCEPT !.at = "wait"]

Register(v) ==
  /\ At(v, FALSE, "register") /\ goto(v, Call(TRUE, profTracker[v] = None, FALSE, "top"))
  /\ \/ profTracker[v] = None /\ registerVm(v)
     \/ profTracker[v] # None /\ UNCHANGED <<trackers, running, sampler, tr, profTracker>>
  /\ UNCHANGED <<enabled, buf, ctl, cleaners, interrupted>>

Bug_Exec_deaf(v) ==
  /\ stack[v] # <<>> /\ Top(v).at = "top" /\ (Top(v).prof \/ ~interrupted[v])
  /\ moveTo(v, "exec") /\ UNCHANGED <<others, tr, profTracker, interrupted>>

(* Both loops: the interrupt flag, the end of the code, or an instruction. *)
Exec(v) ==
  /\ stack[v] # <<>> /\ Top(v).at = "top" /\ ~interrupted[v]
  /\ moveTo(v, "exec") /\ UNCHANGED <<others, tr, profTracker, interrupted>>

Halt(v) ==
  /\ stack[v] # <<>> /\ Top(v).at = "top" /\ ~interrupted[v]
  /\ end(v, 1) /\ UNCHANGED <<others, interrupted>>

InstrEnds(v) ==
  /\ stack[v] # <<>> /\ Top(v).at = "exec"
  /\ \/ Top(v).prof /\ moveTo(v, "check")
     \/ ~Top(v).prof /\ moveTo(v, "top")
     \/ ~Top(v).prof /\ (profTracker[v] # None \/ room) /\ moveTo(v, "poll")
  /\ UNCHANGED <<others, tr, profTracker, interrupted>>

(* A panic through n calls of run(), stopped by native code or a try.      *)
Throw(v, n) ==
  /\ stack[v] # <<>> /\ Top(v).at = "exec" /\ n <= Len(stack[v])
  /\ end(v, n) /\ UNCHANGED <<others, interrupted>>

Bug_leaveTracing_drops(v) ==
  drop(v, TRUE) /\ goto(v, Call(FALSE, FALSE, FALSE, IF Top(v).first THEN "poll" ELSE "top"))

(* runWithProfiler returns true, and the plain loop goes on.               *)
leaveTracing(v) ==
  /\ drop(v, Top(v).owner)
  /\ goto(v, Call(FALSE, FALSE, FALSE, IF Top(v).first THEN "poll" ELSE "top"))

TracingInterrupted(v) ==
  /\ At(v, TRUE, "top") /\ interrupted[v] /\ leaveTracing(v)
  /\ UNCHANGED <<others, interrupted>>

(* InterruptedError; when it empties the stack leaveAbrupt() resets the    *)
(* flag.                                                                   *)
Interrupted(v, n) ==
  /\ At(v, FALSE, "top") /\ interrupted[v] /\ n <= Len(stack[v])
  /\ end(v, n)
  /\ interrupted' = [interrupted EXCEPT ![v] = n < Len(stack[v])]
  /\ UNCHANGED others

Bug_Check_early(v) ==
  LET pt == profTracker[v]
  IN /\ At(v, TRUE, "check")
     /\ \/ tr[pt].req = "stop" /\ leaveTracing(v)
        \/ /\ tr[pt].req = "doSample" /\ moveTo(v, "sample") /\ UNCHANGED profTracker
           /\ tr' = [tr EXCEPT ![pt].sample = "partial", ![pt].req = "sampleReady"]
        \/ /\ tr[pt].req \in {"none", "sampleReady"} /\ moveTo(v, "top")
           /\ UNCHANGED <<tr, profTracker>>
     /\ UNCHANGED <<others, interrupted>>

(* After each instruction runWithProfiler loads the request, ...           *)
Check(v) ==
  LET pt == profTracker[v]
  IN /\ At(v, TRUE, "check")
     /\ \/ tr[pt].req = "stop" /\ leaveTracing(v)
        \/ /\ tr[pt].req = "doSample" /\ moveTo(v, "sample")
           /\ tr' = [tr EXCEPT ![pt].sample = "partial"] /\ UNCHANGED profTracker
        \/ /\ tr[pt].req \in {"none", "sampleReady"} /\ moveTo(v, "top")
           /\ UNCHANGED <<tr, profTracker>>
     /\ UNCHANGED <<others, interrupted>>

(* ... takes the sample and stores its answer.                             *)
Ready(v) ==
  /\ At(v, TRUE, "sample") /\ moveTo(v, "top")
  /\ tr' = [tr EXCEPT ![profTracker[v]].req = "sampleReady",
                      ![profTracker[v]].sample = "fresh"]
  /\ UNCHANGED <<others, profTracker, interrupted>>

Interrupt(v) ==
  /\ interrupted' = [interrupted EXCEPT ![v] = TRUE]
  /\ UNCHANGED <<others, tr, stack, profTracker>>

-----------------------------------------------------------------------------
(* The sampler.                                                            *)

Tick ==
  /\ sampler.at = "wait"
  /\ IF trackers = <<>>
     THEN running' = FALSE /\ sampler' = [sampler EXCEPT !.at = "off", !.counter = 0]
     ELSE UNCHANGED running /\ sampler' = [sampler EXCEPT !.at = "scan", !.left = Len(trackers)]
  /\ UNCHANGED <<enabled, buf, trackers, tr, ctl, cleaners, vmVars>>

(* The next tracker and its request; a ready sample is read from here on.  *)
Load ==
  LET n == IF sampler.counter >= Len(trackers) THEN 0 ELSE sampler.counter
      t == trackers[n + 1]
  IN /\ sampler.at = "scan"
     /\ sampler' = [sampler EXCEPT !.at = "loaded", !.counter = n, !.t = t, !.req = tr[t].req]
     /\ UNCHANGED <<profVars, ctl, cleaners, vmVars>>

addSample(t, r) == IF r = "sampleReady" THEN [tr EXCEPT ![t].sample = "used"] ELSE tr
(* The end of a scan, and one tracker less to go in it; locals that are    *)
(* dead are forgotten.                                                     *)
asleep(s) == [at |-> "wait", counter |-> s.counter, left |-> 0, t |-> None, req |-> "none"]
leftOne(s) == IF s.left <= 1 THEN asleep(s)
              ELSE [s EXCEPT !.left = @ - 1, !.at = "scan", !.t = None, !.req = "none"]

Bug_Visit_keeps ==
  LET t == sampler.t
      added == addSample(t, sampler.req)
      next == [sampler EXCEPT !.counter = @ + 1]
  IN /\ sampler.at = "loaded"
     /\ \/ /\ sampler.req # "doSample"
           /\ tr' = [added EXCEPT ![t].req = "doSample"]
           /\ sampler' = asleep(next) /\ UNCHANGED trackers
        \/ sampler.req = "doSample" /\ tr' = added
           /\ sampler' = leftOne(next) /\ UNCHANGED trackers
     /\ UNCHANGED <<enabled, buf, running, ctl, cleaners, vmVars>>

(* The last tracker takes the place of the one removed.                    *)
removed(n) == Front([trackers EXCEPT ![n] = Last(trackers)])

Visit ==
  LET t == sampler.t
      n == sampler.counter + 1
      added == addSample(t, sampler.req)
      next == [sampler EXCEPT !.counter = n]
  IN /\ sampler.at = "loaded"
     /\ \/ /\ tr[t].finished /\ tr' = added
           /\ trackers' = removed(n)
           /\ sampler' = leftOne(sampler)
        \/ /\ ~tr[t].finished /\ sampler.req # "doSample"
           /\ tr' = [added EXCEPT ![t].req = "doSample"]
           /\ sampler' = asleep(next) /\ UNCHANGED trackers
        \/ /\ ~tr[t].finished /\ sampler.req = "doSample" /\ tr' = added
           /\ sampler' = leftOne(next) /\ UNCHANGED trackers
     /\ UNCHANGED <<enabled, buf, running, ctl, cleaners, vmVars>>

-----------------------------------------------------------------------------
(* StartProfile and StopProfile.                                           *)
StartProfile ==
  /\ ctl.at = "idle" /\ ctl.session < MaxSessions /\ muFree /\ buf = NoBuf
  /\ buf' = ctl.session + 1
  /\ ctl' = [ctl EXCEPT !.at = "started", !.session = @ + 1]
  /\ UNCHANGED <<enabled, trackers, running, tr, sampler, cleaners, vmVars>>

Enable ==
  /\ ctl.at = "started" /\ enabled' = TRUE /\ ctl' = [ctl EXCEPT !.at = "idle"]
  /\ UNCHANGED <<buf, trackers, running, tr, sampler, cleaners, vmVars>>

StopProfile ==
  /\ ctl.at = "idle" /\ enabled /\ enabled' = FALSE
  /\ ctl' = [ctl EXCEPT !.at = "stopping"]
  /\ UNCHANGED <<buf, trackers, running, tr, sampler, cleaners, vmVars>>

Take ==
  /\ ctl.at = "stopping" /\ muFree /\ trackers' = <<>> /\ buf' = NoBuf
  /\ ctl' = [ctl EXCEPT !.at = "loop", !.todo = trackers, !.kept = <<>>]
  /\ UNCHANGED <<enabled, running, tr, sampler, cleaners, vmVars>>

StopLoad ==
  /\ ctl.at = "loop" /\ ctl.todo # <<>>
  /\ ctl' = [ctl EXCEPT !.at = "loaded", !.req = tr[Head(ctl.todo)].req]
  /\ UNCHANGED <<profVars, sampler, cleaners, vmVars>>

StopStore ==
  LET t == Head(ctl.todo)
  IN /\ ctl.at = "loaded"
     /\ tr' = [addSample(t, ctl.req) EXCEPT ![t].req = "stop"]
     /\ ctl' = [ctl EXCEPT !.at = "loop", !.todo = Tail(@), !.req = "none",
                           !.kept = IF ctl.req = "doSample" THEN Append(@, t) ELSE @]
     /\ UNCHANGED <<enabled, buf, trackers, running, sampler, cleaners, vmVars>>

StopReturns ==
  /\ ctl.at = "loop" /\ ctl.todo = <<>>
  /\ ctl' = [ctl EXCEPT !.at = "idle", !.kept = <<>>]
  /\ cleaners' = [cleaners EXCEPT ![ctl.session] =
                    [on |-> ctl.kept # <<>>, todo |-> ctl.kept, kept |-> <<>>]]
  /\ UNCHANGED <<profVars, sampler, vmVars>>

(* The goroutine left behind: passes over its trackers until none is found *)
(* with another request than stop.                                         *)
Clean(s) ==
  LET t == Head(cleaners[s].todo)
      late == tr[t].req # "stop"
  IN /\ cleaners[s].on /\ cleaners[s].todo # <<>>
     /\ tr' = [tr EXCEPT ![t].req = "stop"]
     /\ cleaners' = [cleaners EXCEPT ![s].todo = Tail(@),
                                     ![s].kept = IF late THEN Append(@, t) ELSE @]
     /\ UNCHANGED <<enabled, buf, trackers, running, sampler, ctl, vmVars>>

Pass(s) ==
  /\ cleaners[s].on /\ cleaners[s].todo = <<>>
  /\ cleaners' = [cleaners EXCEPT ![s] = [on |-> @.kept # <<>>, todo |-> @.kept, kept |-> <<>>]]
  /\ UNCHANGED <<profVars, sampler, ctl, vmVars>>

-----------------------------------------------------------------------------
VmNext(v) ==
  \/ EnterRun(v) \/ Poll(v) \/ Register(v) \/ Exec(v) \/ Halt(v) \/ InstrEnds(v)
  \/ TracingInterrupted(v) \/ Check(v) \/ Ready(v) \/ Interrupt(v)
  \/ \E n \in 1..MaxNest : Throw(v, n) \/ Interrupted(v, n)

SamplerNext == Tick \/ Load \/ Visit

ControlNext ==
  \/ StartProfile \/ Enable \/ StopProfile \/ Take \/ StopLoad \/ StopStore \/ StopReturns
  \/ \E s \in Sessions : Clean(s) \/ Pass(s)

Next == (\E v \in VMs : VmNext(v)) \/ SamplerNext \/ ControlNext

Spec == Init /\ [][Next]_vars

(* The ticker ticks, goroutines in the middle of a call go on, loops loop, *)
(* native functions return though they may call back first, and p.mu (a    *)
(* sync.Mutex) starves nobody (SF).                                        *)
(* Nobody has to start or stop a profile.                                  *)
Fairness ==
  /\ WF_vars(Tick) /\ WF_vars(Load) /\ WF_vars(Visit)
  /\ \A v \in VMs :
       /\ SF_vars(InstrEnds(v)) /\ WF_vars(Check(v)) /\ WF_vars(Ready(v))
       /\ WF_vars(TracingInterrupted(v)) /\ WF_vars(\E n \in 1..MaxNest : Interrupted(v, n))
       /\ WF_vars(Poll(v)) /\ SF_vars(Register(v))

FairSpec == Spec /\ Fairness

-----------------------------------------------------------------------------
Tracker == [req : {"none", "doSample", "sampleReady", "stop"}, finished : BOOLEAN,
            sample : {"empty", "partial", "fresh", "used"}, session : 0..MaxSessions]

(* Every variable has its type.                                            *)
TypeOK ==
  /\ enabled \in BOOLEAN /\ running \in BOOLEAN /\ buf \in 0..MaxSessions
  /\ tr \in Seq(Tracker) /\ trackers \in Seq(Trackers)
  /\ sampler.at \in {"off", "wait", "scan", "loaded"} /\ sampler.left \in Nat
  /\ \A v \in VMs : profTracker[v] \in 0..Len(tr) /\ interrupted[v] \in BOOLEAN

(* Whoever reads a sample (the sampler or StopProfile) finds it complete   *)
(* and never counted before, though the VM writes it without a lock.       *)
SamplesWhole ==
  /\ sampler.at = "loaded" /\ sampler.req = "sampleReady" => tr[sampler.t].sample = "fresh"
  /\ ctl.at = "loaded" /\ ctl.req = "sampleReady" => tr[Head(ctl.todo)].sample = "fresh"

(* Samples go into the profile of the session in which the VM registered,  *)
(* and the sampler never finds p.buf nil.                                  *)
SessionsApart ==
  /\ \A i \in 1..Len(trackers) : tr[trackers[i]].session = buf
  /\ \A i \in 1..Len(ctl.todo) : tr[ctl.todo[i]].session = ctl.session

(* The running flag tells whether there is a sampler: registered VMs are   *)
(* sampled, and no second one is ever started.                             *)
SamplerRuns == (running <=> sampler.at # "off") /\ (trackers # <<>> => running)

(* A VM traces only with a tracker that one of its calls owns and has not  *)
(* given up.                                                               *)
TrackerOwned ==
  \A v \in VMs :
    /\ Cardinality({i \in 1..Len(stack[v]) : stack[v][i].owner})
         = IF profTracker[v] = None THEN 0 ELSE 1
    /\ profTracker[v] # None => ~tr[profTracker[v]].finished
    /\ \A i \in 1..Len(stack[v]) : stack[v][i].prof => profTracker[v] # None

(* A tracker belongs to one session and one call of its VM, from its       *)
(* registration on, and there is one sampler as long as there is one.      *)
TrackersExact == TypeOK /\ SessionsApart /\ SamplerRuns /\ TrackerOwned

(* The sampler forgets the trackers of VMs that have finished.             *)
FinishedForgotten ==
  \A t \in 1..MaxTrackers :
    (t \in ToSet(trackers) /\ tr[t].finished) ~> (t \notin ToSet(trackers))

(* An interrupted VM stops, also while it is profiled.                     *)
InterruptDelivered == \A v \in VMs : interrupted[v] ~> (stack[v] = <<>>)

(* "Make sure all VMs are requested to stop tracing": once StopProfile and *)
(* the goroutine it leaves behind are done, no VM of the session goes on.  *)
AllAskedToStop ==
  \A t \in Trackers :
    LET s == tr[t].session
    IN s # NoBuf /\ s # buf /\ ~(ctl.session = s /\ ctl.at \in {"loop", "loaded"}) /\ ~cleaners[s].on
         => tr[t].req = "stop" \/ tr[t].finished
=============================================================================
