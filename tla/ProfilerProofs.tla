---------------------------- MODULE ProfilerProofs ----------------------------
(***************************************************************************)
(* Proofs about Profiler, for any VMs and any bounds.                      *)
(***************************************************************************)
EXTENDS Profiler, FiniteSetTheorems, SequenceTheorems, TLAPS

-----------------------------------------------------------------------------
(* The pieces of the inductive invariant.                                  *)

Requests == {"none", "doSample", "sampleReady", "stop"}
RunCall == [prof : BOOLEAN, owner : BOOLEAN, first : BOOLEAN,
            at : {"poll", "register", "top", "exec", "check", "sample"}]
Scan == [at : {"off", "wait", "scan", "loaded"}, counter : Nat, left : Nat, t : Nat, req : Requests]
Control == [at : {"idle", "started", "stopping", "loop", "loaded"}, todo : Seq(Nat),
            kept : Seq(Nat), req : Requests, session : 0..MaxSessions]
Cleaner == [on : BOOLEAN, todo : Seq(Nat), kept : Seq(Nat)]

(* The types of the variables, as far as they do not depend on tr.         *)
Types ==
  /\ enabled \in BOOLEAN /\ running \in BOOLEAN /\ buf \in 0..MaxSessions
  /\ tr \in Seq(Tracker) /\ trackers \in Seq(Nat)
  /\ sampler \in Scan /\ ctl \in Control
  /\ cleaners \in [Sessions -> Cleaner]
  /\ stack \in [VMs -> Seq(RunCall)]
  /\ profTracker \in [VMs -> Nat] /\ interrupted \in [VMs -> BOOLEAN]

(* The trackers in a list were registered in the session s.                *)
InSession(list, s) ==
  \A i \in 1..Len(list) : list[i] \in Trackers /\ tr[list[i]].session = s

(* Every list of trackers is of one session.                               *)
Listed ==
  /\ InSession(trackers, buf)
  /\ InSession(ctl.todo, ctl.session) /\ InSession(ctl.kept, ctl.session)
  /\ \A s \in Sessions : InSession(cleaners[s].todo, s) /\ InSession(cleaners[s].kept, s)

(* Where the controller is, what is on, and which lists are not empty: no  *)
(* two of them are of the same session, but for todo and kept of one loop. *)
Phases ==
  /\ buf \in {NoBuf, ctl.session}
  /\ buf = NoBuf => trackers = <<>> /\ ~enabled
  /\ enabled => ctl.at = "idle"
  /\ ctl.at \in {"started", "stopping"} => buf # NoBuf
  /\ ctl.at \in {"loop", "loaded"} => buf = NoBuf /\ ctl.session # 0
  /\ ctl.at \notin {"loop", "loaded"} => ctl.todo = <<>> /\ ctl.kept = <<>>
  /\ ctl.at = "loaded" => ctl.todo # <<>>
  /\ \A s \in Sessions :
       cleaners[s].todo # <<>> \/ cleaners[s].kept # <<>>
         => s < ctl.session \/ (s = ctl.session /\ buf = NoBuf /\ ctl.at = "idle")

(* The scan is inside p.trackers, which has no tracker twice.              *)
Scanning ==
  /\ running <=> sampler.at # "off"
  /\ trackers # <<>> => running
  /\ sampler.at \in {"scan", "loaded"} => sampler.left \in 1..Len(trackers)
  /\ sampler.at = "loaded" =>
       sampler.counter < Len(trackers) /\ sampler.t = trackers[sampler.counter + 1]
  /\ \A i, j \in 1..Len(trackers) : trackers[i] = trackers[j] => i = j

(* A sample that is ready and still to be read is fresh, and the request   *)
(* that the sampler or StopProfile has found to be ready stays so.         *)
FreshIn(list) ==
  \A i \in 1..Len(list) : tr[list[i]].req = "sampleReady" => tr[list[i]].sample = "fresh"
Fresh ==
  /\ FreshIn(trackers) /\ FreshIn(ctl.todo)
  /\ sampler.at = "loaded" /\ sampler.req = "sampleReady" => tr[sampler.t].req = "sampleReady"
  /\ ctl.at = "loaded" /\ ctl.req = "sampleReady" => tr[Head(ctl.todo)].req = "sampleReady"

(* The calls of one VM: the tracker is registered by the lowest of those   *)
(* in runWithProfiler, which alone owns it.                                *)
Lowest(calls, i) ==
  /\ i \in 1..Len(calls) /\ calls[i].owner
  /\ \A j \in 1..Len(calls) : calls[j].prof => i <= j /\ (calls[j].owner => j = i)
Traced(calls, n) ==
  /\ \A i \in 1..Len(calls) : calls[i].owner => calls[i].prof
  /\ n = None => \A i \in 1..Len(calls) : ~calls[i].prof
  /\ n # None => \E i \in 1..Len(calls) : Lowest(calls, i)
Owned ==
  /\ \A v \in VMs : Traced(stack[v], profTracker[v])
  /\ \A v \in VMs : profTracker[v] # None =>
       profTracker[v] \in Trackers /\ ~tr[profTracker[v]].finished
  /\ \A v, w \in VMs : profTracker[v] = profTracker[w] /\ profTracker[v] # None => v = w

Inv == Types /\ Listed /\ Phases /\ Scanning /\ Fresh /\ Owned
-----------------------------------------------------------------------------
(* Helpers on sequences.                                                   *)

(* Replacing an element of a sequence.                                     *)
LEMMA Replace ==
  ASSUME NEW S, NEW s \in Seq(S), NEW k \in 1..Len(s), NEW e \in S
  PROVE  /\ [s EXCEPT ![k] = e] \in Seq(S) /\ Len([s EXCEPT ![k] = e]) = Len(s)
         /\ \A i \in 1..Len(s) : [s EXCEPT ![k] = e][i] = IF i = k THEN e ELSE s[i]
BY ExceptSeq

(* The last element takes the place of the one at k, and one less is left. *)
LEMMA RemovedAt ==
  ASSUME trackers \in Seq(Nat), NEW k \in 1..Len(trackers)
  PROVE  /\ removed(k) \in Seq(Nat) /\ Len(removed(k)) = Len(trackers) - 1
         /\ \A i \in 1..(Len(trackers) - 1) :
              removed(k)[i] = IF i = k THEN trackers[Len(trackers)] ELSE trackers[i]
<1> DEFINE s == [trackers EXCEPT ![k] = Last(trackers)]
<1>1. Last(trackers) = trackers[Len(trackers)] /\ trackers[Len(trackers)] \in Nat
      /\ Len(trackers) \in Nat \ {0}
  BY ElementOfSeq, LenProperties DEF Last
<1>2. /\ s \in Seq(Nat) /\ Len(s) = Len(trackers)
      /\ \A i \in 1..Len(trackers) : s[i] = IF i = k THEN trackers[Len(trackers)] ELSE trackers[i]
  BY <1>1, Replace
<1> HIDE DEF s
<1>3. \A i \in 1..(Len(s) - 1) : s[i] \in Nat
  BY <1>1, <1>2, ElementOfSeq
<1>4. /\ SubSeq(s, 1, Len(s) - 1) \in Seq(Nat) /\ Len(SubSeq(s, 1, Len(s) - 1)) = Len(s) - 1
      /\ \A i \in 1..(Len(s) - 1) : SubSeq(s, 1, Len(s) - 1)[i] = s[i]
  BY <1>1, <1>2, <1>3, SubSeqProperties
<1>5. removed(k) = SubSeq(s, 1, Len(s) - 1)
  BY DEF removed, Front, s
<1> QED BY <1>1, <1>2, <1>4, <1>5

(* A change of one field of a tracker: the request, the sample or the flag *)
(* that its VM has finished.                                               *)
LEMMA Altered ==
  ASSUME tr \in Seq(Tracker), NEW t \in Trackers, NEW e \in Tracker
  PROVE  /\ [tr EXCEPT ![t] = e] \in Seq(Tracker) /\ Len([tr EXCEPT ![t] = e]) = Len(tr)
         /\ \A k \in Trackers : [tr EXCEPT ![t] = e][k] = IF k = t THEN e ELSE tr[k]
         /\ tr[t] \in Tracker
BY Replace, ElementOfSeq DEF Trackers

Asked(t, r) == [tr[t] EXCEPT !.req = r]
LEMMA ReqAltered ==
  ASSUME tr \in Seq(Tracker), NEW t \in Trackers, NEW r \in Requests
  PROVE  /\ [tr EXCEPT ![t].req = r] \in Seq(Tracker) /\ Len([tr EXCEPT ![t].req = r]) = Len(tr)
         /\ \A k \in Trackers : [tr EXCEPT ![t].req = r][k] = IF k = t THEN Asked(t, r) ELSE tr[k]
<1>1. tr[t] \in Tracker BY ElementOfSeq DEF Trackers
<1>2. Asked(t, r) \in Tracker BY <1>1 DEF Asked, Tracker, Requests
<1>3. [tr EXCEPT ![t].req = r] = [tr EXCEPT ![t] = Asked(t, r)] BY DEF Asked
<1>4. /\ [tr EXCEPT ![t] = Asked(t, r)] \in Seq(Tracker) /\ Len([tr EXCEPT ![t] = Asked(t, r)]) = Len(tr)
      /\ \A k \in Trackers : [tr EXCEPT ![t] = Asked(t, r)][k] = IF k = t THEN Asked(t, r) ELSE tr[k]
  BY <1>2, Altered
<1> QED BY <1>3, <1>4

Sampled(t, m) == [tr[t] EXCEPT !.sample = m]
LEMMA SampleAltered ==
  ASSUME tr \in Seq(Tracker), NEW t \in Trackers, NEW m \in {"empty", "partial", "fresh", "used"}
  PROVE  /\ [tr EXCEPT ![t].sample = m] \in Seq(Tracker) /\ Len([tr EXCEPT ![t].sample = m]) = Len(tr)
         /\ \A k \in Trackers : [tr EXCEPT ![t].sample = m][k] = IF k = t THEN Sampled(t, m) ELSE tr[k]
<1>1. tr[t] \in Tracker BY ElementOfSeq DEF Trackers
<1>2. Sampled(t, m) \in Tracker BY <1>1 DEF Sampled, Tracker
<1>3. [tr EXCEPT ![t].sample = m] = [tr EXCEPT ![t] = Sampled(t, m)] BY DEF Sampled
<1>4. /\ [tr EXCEPT ![t] = Sampled(t, m)] \in Seq(Tracker) /\ Len([tr EXCEPT ![t] = Sampled(t, m)]) = Len(tr)
      /\ \A k \in Trackers : [tr EXCEPT ![t] = Sampled(t, m)][k] = IF k = t THEN Sampled(t, m) ELSE tr[k]
  BY <1>2, Altered
<1> QED BY <1>3, <1>4

GivenUp(t) == [tr[t] EXCEPT !.finished = TRUE]
LEMMA FinishedAltered ==
  ASSUME tr \in Seq(Tracker), NEW t \in Trackers
  PROVE  /\ [tr EXCEPT ![t].finished = TRUE] \in Seq(Tracker) /\ Len([tr EXCEPT ![t].finished = TRUE]) = Len(tr)
         /\ \A k \in Trackers : [tr EXCEPT ![t].finished = TRUE][k] = IF k = t THEN GivenUp(t) ELSE tr[k]
<1>1. tr[t] \in Tracker BY ElementOfSeq DEF Trackers
<1>2. GivenUp(t) \in Tracker BY <1>1 DEF GivenUp, Tracker
<1>3. [tr EXCEPT ![t].finished = TRUE] = [tr EXCEPT ![t] = GivenUp(t)] BY DEF GivenUp
<1>4. /\ [tr EXCEPT ![t] = GivenUp(t)] \in Seq(Tracker) /\ Len([tr EXCEPT ![t] = GivenUp(t)]) = Len(tr)
      /\ \A k \in Trackers : [tr EXCEPT ![t] = GivenUp(t)][k] = IF k = t THEN GivenUp(t) ELSE tr[k]
  BY <1>2, Altered
<1> QED BY <1>3, <1>4

(* A VM that gives up its tracker says so in finished alone.               *)
LEMMA GivenUpKept ==
  ASSUME tr \in Seq(Tracker), NEW t \in Trackers
  PROVE  GivenUp(t).session = tr[t].session /\ GivenUp(t).req = tr[t].req
         /\ GivenUp(t).sample = tr[t].sample
<1>1. tr[t] \in Tracker BY ElementOfSeq DEF Trackers
<1> QED BY <1>1 DEF GivenUp, Tracker

-----------------------------------------------------------------------------
(* Helpers of the VM.                                                      *)

LEMMA TopIsCall ==
  ASSUME Types, NEW v \in VMs, stack[v] # <<>>
  PROVE  Len(stack[v]) \in Nat \ {0} /\ Top(v) = stack[v][Len(stack[v])] /\ Top(v) \in RunCall
<1>1. stack[v] \in Seq(RunCall) BY DEF Types
<1>2. Len(stack[v]) \in Nat \ {0} BY <1>1, EmptySeq, LenProperties
<1>3. Top(v) \in RunCall BY <1>1, <1>2, ElementOfSeq DEF Top
<1> QED BY <1>2, <1>3 DEF Top

(* moveTo() keeps what the call on top is.                                 *)
MovedCall(v, at) == [Top(v) EXCEPT !.at = at]
LEMMA MovedIsCall ==
  ASSUME Types, NEW v \in VMs, stack[v] # <<>>,
         NEW at \in {"poll", "register", "top", "exec", "check", "sample"}
  PROVE  MovedCall(v, at) \in RunCall /\ MovedCall(v, at).owner = Top(v).owner
         /\ MovedCall(v, at).prof = Top(v).prof
<1>1. Top(v) \in RunCall BY TopIsCall
<1> QED BY <1>1 DEF MovedCall, RunCall

(* goto() replaces the call on top.                                        *)
LEMMA GotoReplaces ==
  ASSUME Types, NEW v \in VMs, stack[v] # <<>>, NEW call \in RunCall, goto(v, call)
  PROVE  /\ stack' \in [VMs -> Seq(RunCall)] /\ Len(stack'[v]) = Len(stack[v])
         /\ \A i \in 1..Len(stack[v]) :
              stack'[v][i] = IF i = Len(stack[v]) THEN call ELSE stack[v][i]
         /\ \A w \in VMs \ {v} : stack'[w] = stack[w]
<1>1. stack \in [VMs -> Seq(RunCall)] /\ Len(stack[v]) \in 1..Len(stack[v])
  BY TopIsCall DEF Types
<1>2. stack' = [stack EXCEPT ![v] = [stack[v] EXCEPT ![Len(stack[v])] = call]]
  BY DEF goto
<1> QED BY <1>1, <1>2, Replace

(* The calls that end are the last n.                                      *)
LEMMA EndShortens ==
  ASSUME Types, NEW v \in VMs, NEW n \in Nat, n <= Len(stack[v]),
         stack' = [stack EXCEPT ![v] = SubSeq(@, 1, Len(@) - n)]
  PROVE  /\ stack' \in [VMs -> Seq(RunCall)] /\ Len(stack'[v]) = Len(stack[v]) - n
         /\ \A i \in 1..(Len(stack[v]) - n) : stack'[v][i] = stack[v][i]
         /\ \A w \in VMs \ {v} : stack'[w] = stack[w]
<1>1. stack \in [VMs -> Seq(RunCall)] /\ stack[v] \in Seq(RunCall) /\ Len(stack[v]) \in Nat
  BY LenProperties DEF Types
<1>2. stack'[v] = SubSeq(stack[v], 1, Len(stack[v]) - n)
  BY <1>1
<1>3. \A i \in 1..(Len(stack[v]) - n) : stack[v][i] \in RunCall
  BY <1>1, ElementOfSeq
<1>4. /\ stack'[v] \in Seq(RunCall) /\ Len(stack'[v]) = Len(stack[v]) - n
      /\ \A i \in 1..(Len(stack[v]) - n) : stack'[v][i] = stack[v][i]
  BY <1>1, <1>2, <1>3, SubSeqProperties
<1> QED BY <1>1, <1>4

(* What happens to the trackers and to vm.profTracker when calls end.      *)
LEMMA DropTypes ==
  ASSUME Types, NEW v \in VMs, NEW owned \in BOOLEAN, drop(v, owned),
         owned => profTracker[v] \in Trackers
  PROVE  /\ tr' \in Seq(Tracker) /\ Len(tr') = Len(tr) /\ profTracker' \in [VMs -> Nat]
         /\ \A t \in Trackers :
              tr'[t] = IF owned /\ t = profTracker[v] THEN GivenUp(t) ELSE tr[t]
         /\ \A w \in VMs : profTracker'[w] = IF owned /\ w = v THEN None ELSE profTracker[w]
<1>1. CASE owned
  <2>1. /\ tr' = [tr EXCEPT ![profTracker[v]].finished = TRUE]
        /\ profTracker' = [profTracker EXCEPT ![v] = None]
    BY <1>1 DEF drop
  <2>2. tr \in Seq(Tracker) /\ profTracker \in [VMs -> Nat]
    BY DEF Types
  <2>3. /\ tr' \in Seq(Tracker) /\ Len(tr') = Len(tr)
        /\ \A t \in Trackers :
             tr'[t] = IF t = profTracker[v] THEN GivenUp(t) ELSE tr[t]
    BY <1>1, <2>1, <2>2, FinishedAltered
  <2>4. /\ profTracker' \in [VMs -> Nat]
        /\ \A w \in VMs : profTracker'[w] = IF w = v THEN None ELSE profTracker[w]
    BY <2>1, <2>2 DEF None
  <2> QED BY <1>1, <2>3, <2>4
<1>2. CASE ~owned
  BY <1>2 DEF drop, Types, Trackers
<1> QED BY <1>1, <1>2

(* The calls that own a tracker own that of their VM.                      *)
LEMMA OwnersTrack ==
  ASSUME Types, Owned, NEW v \in VMs, NEW i \in 1..Len(stack[v]), stack[v][i].prof
  PROVE  profTracker[v] # None /\ profTracker[v] \in Trackers
BY DEF Owned, Traced

(* The end of n calls.                                                     *)
LEMMA EndTypes ==
  ASSUME Types, Owned, NEW v \in VMs, NEW n \in Nat, n <= Len(stack[v]), end(v, n)
  PROVE  /\ Owns(v, n) \in BOOLEAN /\ (Owns(v, n) => profTracker[v] \in Trackers) /\ drop(v, Owns(v, n))
         /\ stack' \in [VMs -> Seq(RunCall)] /\ Len(stack'[v]) = Len(stack[v]) - n
         /\ \A i \in 1..(Len(stack[v]) - n) : stack'[v][i] = stack[v][i]
         /\ \A w \in VMs \ {v} : stack'[w] = stack[w]
<1>1. Owns(v, n) \in BOOLEAN BY DEF Owns
<1>2. ASSUME Owns(v, n) PROVE profTracker[v] \in Trackers
  <2>1. Len(stack[v]) \in Nat BY LenProperties DEF Types
  <2>2. PICK i \in (Len(stack[v]) - n + 1)..Len(stack[v]) : stack[v][i].owner
    BY <1>2 DEF Owns
  <2>3. i \in 1..Len(stack[v]) /\ stack[v][i].prof
    BY <2>1, <2>2 DEF Owned, Traced
  <2> QED BY <2>3, OwnersTrack
<1> QED BY <1>1, <1>2, EndShortens DEF end

(* runWithProfiler returns: the call goes on in the plain loop.            *)
PlainCall(v) == Call(FALSE, FALSE, FALSE, IF Top(v).first THEN "poll" ELSE "top")
LEMMA LeaveTypes ==
  ASSUME Types, Owned, NEW v \in VMs, stack[v] # <<>>, leaveTracing(v)
  PROVE  /\ Top(v).owner \in BOOLEAN /\ (Top(v).owner => profTracker[v] \in Trackers)
         /\ drop(v, Top(v).owner) /\ PlainCall(v) \in RunCall /\ goto(v, PlainCall(v))
<1>1. Top(v) \in RunCall /\ Len(stack[v]) \in 1..Len(stack[v]) /\ Top(v) = stack[v][Len(stack[v])]
  BY TopIsCall
<1>2. ASSUME Top(v).owner PROVE profTracker[v] \in Trackers
  BY <1>1, <1>2, OwnersTrack DEF Owned, Traced
<1> QED BY <1>1, <1>2 DEF leaveTracing, PlainCall, Call, RunCall
-----------------------------------------------------------------------------
(* The calls of one VM and the tracker they own.                           *)

(* Calls that stay what they are.                                          *)
LEMMA TracedSame ==
  ASSUME NEW c, NEW d, NEW n, Traced(c, n), Len(d) = Len(c),
         \A i \in 1..Len(c) : d[i].prof = c[i].prof /\ d[i].owner = c[i].owner
  PROVE  Traced(d, n)
<1> SUFFICES ASSUME n # None PROVE \E i \in 1..Len(d) : Lowest(d, i)
  BY DEF Traced
<1>1. PICK i \in 1..Len(c) : Lowest(c, i)
  BY DEF Traced
<1> QED BY <1>1 DEF Lowest

(* A native function calls run().                                          *)
LEMMA TracedMore ==
  ASSUME NEW c, NEW d, NEW n, Traced(c, n), Len(c) \in Nat, Len(d) = Len(c) + 1,
         \A i \in 1..Len(c) : d[i] = c[i],
         ~d[Len(d)].owner, d[Len(d)].prof => n # None
  PROVE  Traced(d, n)
<1>1. /\ \A i \in 1..Len(d) : d[i].owner => d[i].prof
      /\ n = None => \A i \in 1..Len(d) : ~d[i].prof
  BY DEF Traced
<1>2. ASSUME n # None PROVE \E i \in 1..Len(d) : Lowest(d, i)
  <2>1. PICK i \in 1..Len(c) : Lowest(c, i)
    BY <1>2 DEF Traced
  <2>2. i \in 1..Len(d) /\ d[i].owner /\ \A j \in 1..Len(d) : j \in 1..Len(c) \/ j = Len(d)
    BY <2>1 DEF Lowest
  <2>3. \A j \in 1..Len(c) : d[j].prof => i <= j /\ (d[j].owner => j = i)
    BY <2>1 DEF Lowest
  <2>4. i <= Len(d)
    BY <2>2
  <2>5. Lowest(d, i)
    BY <2>2, <2>3, <2>4 DEF Lowest
  <2> QED BY <2>2, <2>5
<1> QED BY <1>1, <1>2 DEF Traced

(* The last k calls end, with the one that owns the tracker or without.    *)
LEMMA TracedLess ==
  ASSUME NEW c, NEW d, NEW n, Traced(c, n), Len(c) \in Nat, NEW k \in Nat, k <= Len(c),
         Len(d) = Len(c) - k, \A i \in 1..Len(d) : d[i] = c[i]
  PROVE  /\ (\E i \in (Len(c) - k + 1)..Len(c) : c[i].owner) => Traced(d, None) /\ n # None
         /\ ~(\E i \in (Len(c) - k + 1)..Len(c) : c[i].owner) => Traced(d, n)
<1>1. ASSUME NEW i \in (Len(c) - k + 1)..Len(c), c[i].owner
      PROVE  Traced(d, None) /\ n # None
  <2>1. n # None /\ c[i].prof
    BY <1>1 DEF Traced
  <2>2. PICK j \in 1..Len(c) : Lowest(c, j)
    BY <2>1 DEF Traced
  <2>3. i = j
    BY <1>1, <2>1, <2>2 DEF Lowest
  <2>4. \A m \in 1..Len(d) : ~d[m].prof
    BY <1>1, <2>2, <2>3 DEF Lowest
  <2> QED BY <2>1, <2>4, <1>1 DEF Traced
<1>2. ASSUME ~(\E i \in (Len(c) - k + 1)..Len(c) : c[i].owner)
      PROVE  Traced(d, n)
  <2>1. /\ \A i \in 1..Len(d) : d[i].owner => d[i].prof
        /\ n = None => \A i \in 1..Len(d) : ~d[i].prof
    BY DEF Traced
  <2>2. ASSUME n # None PROVE \E i \in 1..Len(d) : Lowest(d, i)
    <3>1. PICK i \in 1..Len(c) : Lowest(c, i)
      BY <2>2 DEF Traced
    <3>2. i \in 1..Len(d)
      BY <3>1, <1>2 DEF Lowest
    <3> QED BY <3>1, <3>2 DEF Lowest
  <2> QED BY <2>1, <2>2 DEF Traced
<1> QED BY <1>1, <1>2

(* The call on top goes on in the plain loop.                              *)
LEMMA TracedPlain ==
  ASSUME NEW c, NEW d, NEW n, Traced(c, n), Len(c) \in Nat \ {0}, Len(d) = Len(c),
         \A i \in 1..(Len(c) - 1) : d[i] = c[i],
         ~d[Len(c)].prof, ~d[Len(c)].owner
  PROVE  /\ c[Len(c)].owner => Traced(d, None) /\ n # None
         /\ ~c[Len(c)].owner => Traced(d, n)
<1>1. ASSUME c[Len(c)].owner PROVE Traced(d, None) /\ n # None
  <2>1. n # None /\ c[Len(c)].prof
    BY <1>1 DEF Traced
  <2>2. PICK j \in 1..Len(c) : Lowest(c, j)
    BY <2>1 DEF Traced
  <2>3. j = Len(c)
    BY <1>1, <2>1, <2>2 DEF Lowest
  <2>4. \A m \in 1..Len(d) : ~d[m].prof /\ ~d[m].owner
    <3>1. \A m \in 1..(Len(c) - 1) : ~c[m].prof /\ ~c[m].owner
      BY <2>2, <2>3 DEF Lowest, Traced
    <3> QED BY <3>1
  <2> QED BY <2>1, <2>4 DEF Traced
<1>2. ASSUME ~c[Len(c)].owner PROVE Traced(d, n)
  <2>1. /\ \A i \in 1..Len(d) : d[i].owner => d[i].prof
        /\ n = None => \A i \in 1..Len(d) : ~d[i].prof
    BY DEF Traced
  <2>2. ASSUME n # None PROVE \E i \in 1..Len(d) : Lowest(d, i)
    <3>1. PICK i \in 1..Len(c) : Lowest(c, i)
      BY <2>2 DEF Traced
    <3>2. i \in 1..(Len(c) - 1) /\ i \in 1..Len(d)
      BY <3>1, <1>2 DEF Lowest
    <3> QED BY <3>1, <3>2 DEF Lowest
  <2> QED BY <2>1, <2>2 DEF Traced
<1> QED BY <1>1, <1>2

(* The call on top enters runWithProfiler; it owns the tracker when its VM *)
(* had none.                                                               *)
LEMMA TracedEnters ==
  ASSUME NEW c, NEW d, NEW n, NEW m, Traced(c, n), Len(c) \in Nat \ {0}, Len(d) = Len(c),
         \A i \in 1..(Len(c) - 1) : d[i] = c[i], ~c[Len(c)].prof,
         d[Len(c)].prof, d[Len(c)].owner <=> n = None,
         m # None
  PROVE  Traced(d, m)
<1>1. ~c[Len(c)].owner
  BY DEF Traced
<1>2. \A i \in 1..Len(d) : d[i].owner => d[i].prof
  BY DEF Traced
<1>3. CASE n = None
  <2>1. \A i \in 1..(Len(c) - 1) : ~d[i].prof /\ ~d[i].owner
    BY <1>3 DEF Traced
  <2>2. Lowest(d, Len(d))
    BY <1>3, <2>1 DEF Lowest
  <2> QED BY <1>2, <2>2 DEF Traced
<1>4. CASE n # None
  <2>1. PICK i \in 1..Len(c) : Lowest(c, i)
    BY <1>4 DEF Traced
  <2>2. i \in 1..(Len(c) - 1) /\ i \in 1..Len(d)
    BY <2>1, <1>1 DEF Lowest
  <2>3. Lowest(d, i)
    BY <1>4, <2>1, <2>2 DEF Lowest
  <2> QED BY <1>2, <2>2, <2>3 DEF Traced
<1> QED BY <1>3, <1>4
-----------------------------------------------------------------------------
(* The steps of the VMs.                                                   *)

(* What no step but a registration changes of a tracker: its session, and  *)
(* that a sample that is ready stays so and whole.                         *)
KeptAt(t) ==
  /\ tr'[t].session = tr[t].session
  /\ tr[t].req = "sampleReady" =>
       tr'[t].req = "sampleReady" /\ tr'[t].sample \in {tr[t].sample, "fresh"}
  /\ tr'[t].req = "sampleReady" => tr[t].req = "sampleReady" \/ tr'[t].sample = "fresh"
Kept == Len(tr') = Len(tr) /\ \A t \in Trackers : KeptAt(t)

VmTypes == tr' \in Seq(Tracker) /\ stack' \in [VMs -> Seq(RunCall)]
           /\ profTracker' \in [VMs -> Nat] /\ interrupted' \in [VMs -> BOOLEAN]

(* A step of a VM that keeps or gives up its tracker.                      *)
LEMMA OwnedKept ==
  ASSUME Types, Owned, NEW v \in VMs, Traced(stack'[v], profTracker'[v]),
         \A w \in VMs \ {v} : stack'[w] = stack[w] /\ profTracker'[w] = profTracker[w],
         profTracker'[v] \in {None, profTracker[v]}, Len(tr') = Len(tr),
         \A t \in Trackers : tr'[t].finished =>
            tr[t].finished \/ (t = profTracker[v] /\ profTracker'[v] = None)
  PROVE  Owned'
<1>1. Trackers' = Trackers
  BY DEF Trackers
<1>2. ASSUME NEW w \in VMs, profTracker'[w] # None
      PROVE  profTracker'[w] \in Trackers' /\ ~tr'[profTracker'[w]].finished
  <2>1. profTracker'[w] = profTracker[w]
    BY <1>2
  <2>2. profTracker[w] \in Trackers /\ ~tr[profTracker[w]].finished
    BY <1>2, <2>1 DEF Owned
  <2>3. ~(profTracker[w] = profTracker[v] /\ profTracker'[v] = None)
    BY <1>2, <2>1 DEF Owned
  <2> QED BY <1>1, <2>1, <2>2, <2>3
<1>3. \A w \in VMs : Traced(stack'[w], profTracker'[w])
  BY DEF Owned
<1>4. \A w, x \in VMs : profTracker'[w] = profTracker'[x] /\ profTracker'[w] # None => w = x
  BY DEF Owned
<1> QED BY <1>2, <1>3, <1>4 DEF Owned

(* A step that leaves the trackers alone, or answers a request.            *)
LEMMA MoveStep ==
  ASSUME Types, Owned, NEW v \in VMs, stack[v] # <<>>,
         NEW at \in {"poll", "register", "top", "exec", "check", "sample"}, moveTo(v, at),
         UNCHANGED profTracker, Len(tr') = Len(tr),
         \A t \in Trackers : tr'[t].finished => tr[t].finished
  PROVE  stack' \in [VMs -> Seq(RunCall)] /\ Owned'
<1>1. Top(v) = stack[v][Len(stack[v])]
  BY TopIsCall
<1>2. MovedCall(v, at) \in RunCall /\ MovedCall(v, at).owner = Top(v).owner
      /\ MovedCall(v, at).prof = Top(v).prof
  BY MovedIsCall
<1>3. /\ stack' \in [VMs -> Seq(RunCall)] /\ Len(stack'[v]) = Len(stack[v])
      /\ \A i \in 1..Len(stack[v]) :
           stack'[v][i] = IF i = Len(stack[v]) THEN MovedCall(v, at) ELSE stack[v][i]
      /\ \A w \in VMs \ {v} : stack'[w] = stack[w]
  BY <1>2, GotoReplaces DEF moveTo, MovedCall
<1>4. Traced(stack[v], profTracker[v])
  BY DEF Owned
<1>5. Traced(stack'[v], profTracker[v])
  <2>1. \A i \in 1..Len(stack[v]) : stack'[v][i].prof = stack[v][i].prof
                                    /\ stack'[v][i].owner = stack[v][i].owner
    BY <1>1, <1>2, <1>3
  <2> QED BY <1>3, <1>4, <2>1, TracedSame
<1> QED BY <1>3, <1>5, OwnedKept

(* The end of n calls.                                                     *)
LEMMA EndStep ==
  ASSUME Types, Owned, NEW v \in VMs, NEW n \in Nat, n <= Len(stack[v]), end(v, n)
  PROVE  /\ tr' \in Seq(Tracker) /\ stack' \in [VMs -> Seq(RunCall)] /\ profTracker' \in [VMs -> Nat]
         /\ Kept /\ Owned'
<1>1. /\ Owns(v, n) \in BOOLEAN /\ (Owns(v, n) => profTracker[v] \in Trackers) /\ drop(v, Owns(v, n))
      /\ stack' \in [VMs -> Seq(RunCall)] /\ Len(stack'[v]) = Len(stack[v]) - n
      /\ \A i \in 1..(Len(stack[v]) - n) : stack'[v][i] = stack[v][i]
      /\ \A w \in VMs \ {v} : stack'[w] = stack[w]
  BY EndTypes
<1>2. /\ tr' \in Seq(Tracker) /\ Len(tr') = Len(tr) /\ profTracker' \in [VMs -> Nat]
      /\ \A t \in Trackers :
           tr'[t] = IF Owns(v, n) /\ t = profTracker[v] THEN GivenUp(t) ELSE tr[t]
      /\ \A w \in VMs : profTracker'[w] = IF Owns(v, n) /\ w = v THEN None ELSE profTracker[w]
  BY <1>1, DropTypes
<1>3. Kept
  <2>1. tr \in Seq(Tracker)
    BY DEF Types
  <2>2. \A t \in Trackers : GivenUp(t).session = tr[t].session /\ GivenUp(t).req = tr[t].req
                            /\ GivenUp(t).sample = tr[t].sample
    BY <2>1, GivenUpKept
  <2> QED BY <1>2, <2>2 DEF Kept, KeptAt
<1>4. Traced(stack'[v], profTracker'[v])
  <2>1. Traced(stack[v], profTracker[v])
    BY DEF Owned
  <2>2. Len(stack[v]) \in Nat
    BY LenProperties DEF Types
  <2>3. \A i \in 1..Len(stack'[v]) : stack'[v][i] = stack[v][i]
    BY <1>1
  <2>4. /\ Owns(v, n) => Traced(stack'[v], None)
        /\ ~Owns(v, n) => Traced(stack'[v], profTracker[v])
    BY <1>1, <2>1, <2>2, <2>3, TracedLess DEF Owns
  <2> QED BY <1>1, <1>2, <2>4
<1>5. Owned'
  BY <1>1, <1>2, <1>4, OwnedKept
<1> QED BY <1>1, <1>2, <1>3, <1>5

(* runWithProfiler returns true.                                           *)
LEMMA LeaveStep ==
  ASSUME Types, Owned, NEW v \in VMs, stack[v] # <<>>, leaveTracing(v)
  PROVE  /\ tr' \in Seq(Tracker) /\ stack' \in [VMs -> Seq(RunCall)] /\ profTracker' \in [VMs -> Nat]
         /\ Kept /\ Owned'
<1>1. /\ Top(v).owner \in BOOLEAN /\ (Top(v).owner => profTracker[v] \in Trackers)
      /\ drop(v, Top(v).owner) /\ PlainCall(v) \in RunCall /\ goto(v, PlainCall(v))
  BY LeaveTypes
<1>2. /\ tr' \in Seq(Tracker) /\ Len(tr') = Len(tr) /\ profTracker' \in [VMs -> Nat]
      /\ \A t \in Trackers :
           tr'[t] = IF Top(v).owner /\ t = profTracker[v] THEN GivenUp(t) ELSE tr[t]
      /\ \A w \in VMs : profTracker'[w] = IF Top(v).owner /\ w = v THEN None ELSE profTracker[w]
  BY <1>1, DropTypes
<1>3. /\ stack' \in [VMs -> Seq(RunCall)] /\ Len(stack'[v]) = Len(stack[v])
      /\ \A i \in 1..Len(stack[v]) :
           stack'[v][i] = IF i = Len(stack[v]) THEN PlainCall(v) ELSE stack[v][i]
      /\ \A w \in VMs \ {v} : stack'[w] = stack[w]
  BY <1>1, GotoReplaces
<1>4. Kept
  <2>1. tr \in Seq(Tracker)
    BY DEF Types
  <2>2. \A t \in Trackers : GivenUp(t).session = tr[t].session /\ GivenUp(t).req = tr[t].req
                            /\ GivenUp(t).sample = tr[t].sample
    BY <2>1, GivenUpKept
  <2> QED BY <1>2, <2>2 DEF Kept, KeptAt
<1>5. Len(stack[v]) \in Nat \ {0} /\ Top(v) = stack[v][Len(stack[v])]
  BY TopIsCall
<1>6. Traced(stack'[v], profTracker'[v])
  <2>1. Traced(stack[v], profTracker[v])
    BY DEF Owned
  <2>2. ~PlainCall(v).prof /\ ~PlainCall(v).owner
    BY DEF PlainCall, Call
  <2>3. stack'[v][Len(stack[v])] = PlainCall(v) /\ \A i \in 1..(Len(stack[v]) - 1) : stack'[v][i] = stack[v][i]
    BY <1>3, <1>5
  <2>4. /\ Top(v).owner => Traced(stack'[v], None)
        /\ ~Top(v).owner => Traced(stack'[v], profTracker[v])
    BY <1>3, <1>5, <2>1, <2>2, <2>3, TracedPlain
  <2> QED BY <1>1, <1>2, <2>4
<1>7. Owned'
  BY <1>2, <1>3, <1>6, OwnedKept
<1> QED BY <1>2, <1>3, <1>4, <1>7
(* Every step of a VM but Register.                                        *)
LEMMA VmStep ==
  ASSUME Types, Owned, NEW v \in VMs,
         \/ EnterRun(v) \/ Poll(v) \/ Exec(v) \/ Halt(v) \/ InstrEnds(v)
         \/ TracingInterrupted(v) \/ Check(v) \/ Ready(v) \/ Interrupt(v)
         \/ \E n \in 1..MaxNest : Throw(v, n) \/ Interrupted(v, n)
  PROVE  VmTypes /\ Kept /\ Owned' /\ UNCHANGED others
<1> USE DEF VmTypes
<1>t. tr \in Seq(Tracker) /\ stack \in [VMs -> Seq(RunCall)]
      /\ profTracker \in [VMs -> Nat] /\ interrupted \in [VMs -> BOOLEAN]
  BY DEF Types
<1>m. ASSUME NEW at \in {"poll", "register", "top", "exec", "check", "sample"}, stack[v] # <<>>,
             moveTo(v, at), UNCHANGED <<others, tr, profTracker, interrupted>>
      PROVE  VmTypes /\ Kept /\ Owned' /\ UNCHANGED others
  <2>1. stack' \in [VMs -> Seq(RunCall)] /\ Owned'
    BY <1>m, MoveStep
  <2> QED BY <1>m, <1>t, <2>1 DEF Kept, KeptAt
<1>e. ASSUME NEW n \in Nat, n <= Len(stack[v]), end(v, n)
      PROVE  /\ tr' \in Seq(Tracker) /\ stack' \in [VMs -> Seq(RunCall)] /\ profTracker' \in [VMs -> Nat]
             /\ Kept /\ Owned'
  BY <1>e, EndStep
<1>l. ASSUME stack[v] # <<>>, leaveTracing(v), UNCHANGED <<others, interrupted>>
      PROVE  VmTypes /\ Kept /\ Owned' /\ UNCHANGED others
  BY <1>l, <1>t, LeaveStep
<1>p. ASSUME stack[v] # <<>>, Top(v).prof
      PROVE  profTracker[v] \in Trackers /\ tr[profTracker[v]] \in Tracker
  <2>1. Top(v) = stack[v][Len(stack[v])] /\ Len(stack[v]) \in 1..Len(stack[v])
    BY <1>p, TopIsCall
  <2> QED BY <1>p, <1>t, <2>1, OwnersTrack, ElementOfSeq DEF Trackers
<1>1. CASE EnterRun(v)
  <2> DEFINE plain == Call(FALSE, FALSE, FALSE, "poll")
             tracing == Call(TRUE, FALSE, TRUE, "top")
  <2>1. plain \in RunCall /\ ~plain.prof /\ ~plain.owner
        /\ tracing \in RunCall /\ tracing.prof /\ ~tracing.owner
    BY DEF Call, RunCall
  <2>2. PICK call \in {plain, tracing} :
          stack' = [stack EXCEPT ![v] = Append(stack[v], call)] /\ (call = tracing => profTracker[v] # None)
    <3>1. plain # tracing
      BY <2>1
    <3> HIDE DEF plain, tracing
    <3>2. \/ profTracker[v] # None /\ stack' = [stack EXCEPT ![v] = Append(stack[v], tracing)]
          \/ stack' = [stack EXCEPT ![v] = Append(stack[v], plain)]
      BY <1>1 DEF EnterRun, plain, tracing
    <3> QED BY <3>1, <3>2
  <2> HIDE DEF plain, tracing
  <2>3. call \in RunCall /\ ~call.owner /\ (call.prof => profTracker[v] # None)
    BY <2>1, <2>2
  <2>4. /\ Append(stack[v], call) \in Seq(RunCall) /\ Len(Append(stack[v], call)) = Len(stack[v]) + 1
        /\ \A i \in 1..Len(stack[v]) : Append(stack[v], call)[i] = stack[v][i]
        /\ Append(stack[v], call)[Len(stack[v]) + 1] = call /\ Len(stack[v]) \in Nat
    BY <1>t, <2>3, AppendProperties, LenProperties
  <2>5. stack'[v] = Append(stack[v], call) /\ \A w \in VMs \ {v} : stack'[w] = stack[w]
    BY <1>t, <2>2
  <2>6. stack' \in [VMs -> Seq(RunCall)]
    BY <1>t, <2>2, <2>4
  <2>7. Traced(stack'[v], profTracker[v])
    <3>1. Traced(stack[v], profTracker[v])
      BY DEF Owned
    <3> QED BY <3>1, <2>3, <2>4, <2>5, TracedMore
  <2>8. UNCHANGED <<others, tr, profTracker, interrupted>>
    BY <1>1 DEF EnterRun
  <2>9. Owned'
    BY <2>5, <2>7, <2>8, OwnedKept
  <2> QED BY <1>t, <2>6, <2>8, <2>9 DEF Kept, KeptAt
<1>2. CASE Poll(v)
  BY <1>2, <1>m DEF Poll, At
<1>3. CASE Exec(v)
  BY <1>3, <1>m DEF Exec
<1>4. CASE Halt(v)
  <2>1. 1 <= Len(stack[v])
    BY <1>4, TopIsCall DEF Halt
  <2> QED BY <1>4, <1>t, <1>e, <2>1 DEF Halt
<1>5. CASE InstrEnds(v)
  BY <1>5, <1>m DEF InstrEnds
<1>6. CASE TracingInterrupted(v)
  BY <1>6, <1>l DEF TracingInterrupted, At
<1>7. CASE Check(v)
  <2> DEFINE t == profTracker[v]
  <2>1. stack[v] # <<>> /\ UNCHANGED <<others, interrupted>>
    BY <1>7 DEF Check, At
  <2>2. t \in Trackers /\ tr[t] \in Tracker
    BY <1>7, <1>p DEF Check, At
  <2>3. CASE leaveTracing(v)
    BY <1>l, <2>1, <2>3
  <2>4. CASE /\ tr[t].req = "doSample" /\ moveTo(v, "sample")
             /\ tr' = [tr EXCEPT ![t].sample = "partial"] /\ UNCHANGED profTracker
    <3>1. /\ tr' \in Seq(Tracker) /\ Len(tr') = Len(tr)
          /\ \A k \in Trackers : tr'[k] = IF k = t THEN Sampled(t, "partial") ELSE tr[k]
      BY <1>t, <2>2, <2>4, SampleAltered
    <3>2. LET s == Sampled(t, "partial")
          IN s.session = tr[t].session /\ s.req = "doSample" /\ s.finished = tr[t].finished
      BY <2>2, <2>4 DEF Sampled, Tracker
    <3>3. Kept /\ \A k \in Trackers : tr'[k].finished => tr[k].finished
      BY <2>4, <3>1, <3>2 DEF Kept, KeptAt
    <3>4. stack' \in [VMs -> Seq(RunCall)] /\ Owned'
      BY <2>1, <2>4, <3>1, <3>3, MoveStep
    <3> QED BY <1>t, <2>1, <2>4, <3>1, <3>3, <3>4
  <2>5. CASE moveTo(v, "top") /\ UNCHANGED <<tr, profTracker>>
    BY <2>1, <2>5, <1>m
  <2> QED BY <1>7, <2>3, <2>4, <2>5 DEF Check
<1>8. CASE Ready(v)
  <2> DEFINE t == profTracker[v]
             e == [tr[t] EXCEPT !.req = "sampleReady", !.sample = "fresh"]
  <2>1. stack[v] # <<>> /\ moveTo(v, "top") /\ UNCHANGED <<others, profTracker, interrupted>>
        /\ tr' = [tr EXCEPT ![t] = e]
    BY <1>8 DEF Ready, At
  <2>2. t \in Trackers /\ tr[t] \in Tracker
    BY <1>8, <1>p DEF Ready, At
  <2>3. e \in Tracker /\ e.session = tr[t].session /\ e.finished = tr[t].finished
        /\ e.req = "sampleReady" /\ e.sample = "fresh"
    BY <2>2 DEF Tracker
  <2> HIDE DEF e
  <2>4. /\ tr' \in Seq(Tracker) /\ Len(tr') = Len(tr)
        /\ \A k \in Trackers : tr'[k] = IF k = t THEN e ELSE tr[k]
    BY <1>t, <2>1, <2>2, <2>3, Altered
  <2>5. \A k \in Trackers : tr'[k].finished => tr[k].finished
    BY <2>3, <2>4
  <2>6. stack' \in [VMs -> Seq(RunCall)] /\ Owned'
    BY <2>1, <2>4, <2>5, MoveStep
  <2>7. Kept
    BY <2>3, <2>4 DEF Kept, KeptAt
  <2> QED BY <1>t, <2>1, <2>4, <2>6, <2>7
<1>9. CASE Interrupt(v)
  <2>1. Owned'
    BY <1>9 DEF Interrupt, Owned, Trackers
  <2> QED BY <1>9, <1>t, <2>1 DEF Interrupt, Kept, KeptAt
<1>10. ASSUME NEW n \in 1..MaxNest, Throw(v, n) \/ Interrupted(v, n)
       PROVE  VmTypes /\ Kept /\ Owned' /\ UNCHANGED others
  <2>1. n \in Nat BY ProfilerAssumption
  <2>2. n <= Len(stack[v]) /\ end(v, n) /\ UNCHANGED others
    BY <1>10 DEF Throw, Interrupted
  <2>3. interrupted' \in [VMs -> BOOLEAN]
    <3>1. CASE Throw(v, n)
      BY <1>t, <3>1 DEF Throw
    <3>2. CASE Interrupted(v, n)
      <4>1. interrupted' = [interrupted EXCEPT ![v] = n < Len(stack[v])]
        BY <3>2 DEF Interrupted
      <4>2. (n < Len(stack[v])) \in BOOLEAN
        OBVIOUS
      <4> QED BY <1>t, <4>1, <4>2
    <3> QED BY <1>10, <3>1, <3>2
  <2> QED BY <1>e, <2>1, <2>2, <2>3
<1> QED BY <1>1, <1>2, <1>3, <1>4, <1>5, <1>6, <1>7, <1>8, <1>9, <1>10
-----------------------------------------------------------------------------
(* The steps of the sampler.                                               *)

(* A request stored in a tracker of the sequence q.                        *)
LEMMA RequestStored ==
  ASSUME NEW q \in Seq(Tracker), NEW t \in 1..Len(q), NEW r \in Requests
  PROVE  /\ [q EXCEPT ![t].req = r] \in Seq(Tracker) /\ Len([q EXCEPT ![t].req = r]) = Len(q)
         /\ \A k \in 1..Len(q) :
              /\ [q EXCEPT ![t].req = r][k].session = q[k].session
              /\ [q EXCEPT ![t].req = r][k].finished = q[k].finished
              /\ [q EXCEPT ![t].req = r][k].sample = q[k].sample
              /\ [q EXCEPT ![t].req = r][k].req = IF k = t THEN r ELSE q[k].req
<1> DEFINE e == [q[t] EXCEPT !.req = r]
<1>1. q[t] \in Tracker BY ElementOfSeq
<1>2. e \in Tracker /\ e.req = r /\ e.session = q[t].session /\ e.finished = q[t].finished
      /\ e.sample = q[t].sample
  BY <1>1 DEF Tracker, Requests
<1>3. [q EXCEPT ![t].req = r] = [q EXCEPT ![t] = e]
  OBVIOUS
<1> HIDE DEF e
<1>4. /\ [q EXCEPT ![t] = e] \in Seq(Tracker) /\ Len([q EXCEPT ![t] = e]) = Len(q)
      /\ \A k \in 1..Len(q) : [q EXCEPT ![t] = e][k] = IF k = t THEN e ELSE q[k]
  BY <1>2, Replace
<1> QED BY <1>2, <1>3, <1>4

(* addSample() marks a ready sample as read.                               *)
LEMMA SampleAdded ==
  ASSUME tr \in Seq(Tracker), NEW t \in Trackers, NEW r \in Requests
  PROVE  /\ addSample(t, r) \in Seq(Tracker) /\ Len(addSample(t, r)) = Len(tr)
         /\ \A k \in Trackers :
              /\ addSample(t, r)[k].session = tr[k].session
              /\ addSample(t, r)[k].finished = tr[k].finished
              /\ addSample(t, r)[k].req = tr[k].req
              /\ k # t => addSample(t, r)[k].sample = tr[k].sample
         /\ r # "sampleReady" => addSample(t, r) = tr
<1>1. CASE r = "sampleReady"
  <2>1. addSample(t, r) = [tr EXCEPT ![t].sample = "used"]
    BY <1>1 DEF addSample
  <2>2. tr[t] \in Tracker BY ElementOfSeq DEF Trackers
  <2>3. Sampled(t, "used").session = tr[t].session /\ Sampled(t, "used").req = tr[t].req
        /\ Sampled(t, "used").finished = tr[t].finished
    BY <2>2 DEF Sampled, Tracker
  <2>4. /\ [tr EXCEPT ![t].sample = "used"] \in Seq(Tracker)
        /\ Len([tr EXCEPT ![t].sample = "used"]) = Len(tr)
        /\ \A k \in Trackers :
             [tr EXCEPT ![t].sample = "used"][k] = IF k = t THEN Sampled(t, "used") ELSE tr[k]
    BY SampleAltered
  <2> QED BY <1>1, <2>1, <2>3, <2>4
<1>2. CASE r # "sampleReady"
  BY <1>2 DEF addSample
<1> QED BY <1>1, <1>2

(* The trackers in a list stay there when their sessions do.               *)
Sessioned == Len(tr') = Len(tr) /\ \A t \in Trackers : tr'[t].session = tr[t].session
LEMMA InSessionKept ==
  ASSUME NEW list, NEW s, InSession(list, s), Sessioned
  PROVE  \A i \in 1..Len(list) : list[i] \in Trackers' /\ tr'[list[i]].session = s
BY DEF InSession, Sessioned, Trackers

(* The lists that a step leaves alone.                                     *)
LEMMA ListsKept ==
  ASSUME Listed, Sessioned
  PROVE  /\ UNCHANGED <<trackers, buf>> => InSession(trackers, buf)'
         /\ UNCHANGED ctl => InSession(ctl.todo, ctl.session)' /\ InSession(ctl.kept, ctl.session)'
         /\ UNCHANGED cleaners =>
              (\A s \in Sessions : InSession(cleaners[s].todo, s) /\ InSession(cleaners[s].kept, s))'
<1>1. \A i \in 1..Len(trackers) : trackers[i] \in Trackers' /\ tr'[trackers[i]].session = buf
  BY InSessionKept DEF Listed
<1>2. /\ \A i \in 1..Len(ctl.todo) : ctl.todo[i] \in Trackers' /\ tr'[ctl.todo[i]].session = ctl.session
      /\ \A i \in 1..Len(ctl.kept) : ctl.kept[i] \in Trackers' /\ tr'[ctl.kept[i]].session = ctl.session
  BY InSessionKept DEF Listed
<1>3. ASSUME NEW s \in Sessions
      PROVE  /\ \A i \in 1..Len(cleaners[s].todo) :
                  cleaners[s].todo[i] \in Trackers' /\ tr'[cleaners[s].todo[i]].session = s
             /\ \A i \in 1..Len(cleaners[s].kept) :
                  cleaners[s].kept[i] \in Trackers' /\ tr'[cleaners[s].kept[i]].session = s
  BY InSessionKept DEF Listed
<1> QED BY <1>1, <1>2, <1>3 DEF InSession

(* Steps that are no step of a VM.                                         *)
LEMMA OwnedSame ==
  ASSUME Owned, UNCHANGED vmVars, Len(tr') = Len(tr),
         \A t \in Trackers : tr'[t].finished = tr[t].finished
  PROVE  Owned'
BY DEF Owned, vmVars, Trackers

LEMMA TickStep ==
  ASSUME Inv, Tick
  PROVE  Inv'
<1>1. /\ sampler.at = "wait" /\ UNCHANGED <<enabled, buf, trackers, tr, ctl, cleaners, vmVars>>
      /\ \/ trackers = <<>> /\ running' = FALSE /\ sampler' = [sampler EXCEPT !.at = "off", !.counter = 0]
         \/ /\ trackers # <<>> /\ UNCHANGED running
            /\ sampler' = [sampler EXCEPT !.at = "scan", !.left = Len(trackers)]
  BY DEF Tick
<1>2. sampler \in Scan /\ trackers \in Seq(Nat) /\ Len(trackers) \in Nat /\ running
      /\ (trackers # <<>> => Len(trackers) > 0)
  BY <1>1, EmptySeq, LenProperties DEF Inv, Types, Scanning
<1>3. Types'
  BY <1>1, <1>2 DEF Inv, Types, Scan, vmVars
<1>4. Scanning'
  <2>1. CASE trackers = <<>>
    <3>1. ~running' /\ sampler'.at = "off" /\ trackers' = trackers
      BY <1>1, <1>2, <2>1 DEF Scan
    <3> QED BY <2>1, <3>1 DEF Inv, Scanning
  <2>2. CASE trackers # <<>>
    <3>1. running' /\ sampler'.at = "scan" /\ sampler'.left = Len(trackers) /\ trackers' = trackers
      BY <1>1, <1>2, <2>2 DEF Scan
    <3> QED BY <1>2, <2>2, <3>1 DEF Inv, Scanning
  <2> QED BY <2>1, <2>2
<1>5. Listed'
  BY <1>1, ListsKept DEF Inv, Sessioned, Listed
<1>6. Phases' /\ Owned'
  BY <1>1 DEF Inv, Phases, Owned, Trackers, vmVars
<1>7. Fresh'
  BY <1>1, <1>2 DEF Inv, Fresh, FreshIn, Scan
<1> QED BY <1>3, <1>4, <1>5, <1>6, <1>7 DEF Inv

LEMMA LoadStep ==
  ASSUME Inv, Load
  PROVE  Inv'
<1> DEFINE n == IF sampler.counter >= Len(trackers) THEN 0 ELSE sampler.counter
           t == trackers[n + 1]
<1>1. /\ sampler.at = "scan" /\ UNCHANGED <<enabled, buf, trackers, running, tr, ctl, cleaners, vmVars>>
      /\ sampler' = [sampler EXCEPT !.at = "loaded", !.counter = n, !.t = t, !.req = tr[t].req]
  BY DEF Load, profVars
<1>2. sampler \in Scan /\ trackers \in Seq(Nat) /\ Len(trackers) \in Nat
  BY LenProperties DEF Inv, Types
<1>3. sampler.left \in 1..Len(trackers) /\ Len(trackers) > 0 /\ running
  BY <1>1, <1>2 DEF Inv, Scanning, Scan
<1>4. n \in Nat /\ n < Len(trackers)
  BY <1>2, <1>3 DEF Scan
<1> HIDE DEF n
<1>5. t \in Trackers /\ t \in Nat /\ tr[t] \in Tracker
  BY <1>2, <1>4, ElementOfSeq DEF Inv, Listed, InSession, Types, Trackers
<1>6. tr[t].req \in Requests
  BY <1>5 DEF Tracker, Requests
<1> HIDE DEF t
<1>7. sampler' \in Scan /\ sampler'.at = "loaded" /\ sampler'.counter = n /\ sampler'.t = t
      /\ sampler'.req = tr[t].req /\ sampler'.left = sampler.left
  BY <1>1, <1>2, <1>4, <1>5, <1>6 DEF Scan
<1>8. Types'
  BY <1>1, <1>7 DEF Inv, Types, vmVars
<1>9. Scanning'
  BY <1>1, <1>3, <1>4, <1>7 DEF Inv, Scanning, t
<1>10. Listed'
  BY <1>1, ListsKept DEF Inv, Sessioned, Listed
<1>11. Phases' /\ Owned'
  BY <1>1 DEF Inv, Phases, Owned, Trackers, vmVars
<1>12. Fresh'
  BY <1>1, <1>7 DEF Inv, Fresh, FreshIn
<1> QED BY <1>8, <1>9, <1>10, <1>11, <1>12 DEF Inv
(* What the scan goes on with.                                             *)
LEMMA LeftOne ==
  ASSUME NEW s \in Scan, s.at = "loaded", s.left > 0
  PROVE  /\ leftOne(s) \in Scan /\ asleep(s) \in Scan /\ asleep(s).at = "wait"
         /\ leftOne(s).at \in {"wait", "scan"}
         /\ leftOne(s).at = "scan" => leftOne(s).left = s.left - 1 /\ s.left > 1
<1>1. asleep(s) \in Scan /\ asleep(s).at = "wait"
  BY DEF asleep, Scan, None, Requests
<1>2. CASE s.left <= 1
  BY <1>1, <1>2 DEF leftOne
<1>3. CASE s.left > 1
  <2>1. leftOne(s) = [s EXCEPT !.left = s.left - 1, !.at = "scan", !.t = None, !.req = "none"]
    BY <1>3 DEF leftOne, Scan
  <2>2. s.left - 1 \in Nat
    BY <1>3 DEF Scan
  <2>3. leftOne(s) = [at |-> "scan", counter |-> s.counter, left |-> s.left - 1, t |-> None, req |-> "none"]
    BY <2>1 DEF Scan
  <2>4. leftOne(s) \in Scan /\ leftOne(s).at = "scan" /\ leftOne(s).left = s.left - 1
    BY <2>2, <2>3 DEF Scan, None, Requests
  <2> QED BY <1>1, <1>3, <2>4
<1> QED BY <1>2, <1>3 DEF Scan

(* A tracker is removed, asked for a sample, or found to have been asked.  *)
LEMMA VisitStep ==
  ASSUME Inv, Visit
  PROVE  Inv'
<1> DEFINE t == sampler.t
           n == sampler.counter + 1
           added == addSample(t, sampler.req)
           asked == [added EXCEPT ![t].req = "doSample"]
           next == [sampler EXCEPT !.counter = n]
<1>0. sampler.at = "loaded" /\ UNCHANGED <<enabled, buf, running, ctl, cleaners, vmVars>>
  BY DEF Visit
<1>1. \/ tr' = added /\ trackers' = removed(n) /\ sampler' = leftOne(sampler)
      \/ tr' = asked /\ sampler' = asleep(next) /\ trackers' = trackers
      \/ sampler.req = "doSample" /\ tr' = added /\ sampler' = leftOne(next) /\ trackers' = trackers
  BY DEF Visit
<1>2. sampler \in Scan /\ trackers \in Seq(Nat) /\ tr \in Seq(Tracker) /\ Len(trackers) \in Nat
  BY LenProperties DEF Inv, Types
<1>3. n \in 1..Len(trackers) /\ t = trackers[n] /\ t \in Trackers /\ running
      /\ sampler.left \in 1..Len(trackers)
  BY <1>0, <1>2 DEF Inv, Scanning, Scan, Listed, InSession
<1>4. next \in Scan /\ next.at = "loaded" /\ next.left = sampler.left /\ sampler.req \in Requests
  <2>1. n \in Nat
    BY <1>2 DEF Scan
  <2> HIDE DEF n
  <2> QED BY <1>0, <1>2, <2>1 DEF Scan
<1>5. /\ added \in Seq(Tracker) /\ Len(added) = Len(tr)
      /\ \A k \in Trackers :
           /\ added[k].session = tr[k].session /\ added[k].finished = tr[k].finished
           /\ added[k].req = tr[k].req /\ (k # t => added[k].sample = tr[k].sample)
      /\ sampler.req # "sampleReady" => added = tr
  BY <1>2, <1>3, <1>4, SampleAdded
<1>6. /\ asked \in Seq(Tracker) /\ Len(asked) = Len(tr)
      /\ \A k \in Trackers :
           /\ asked[k].session = tr[k].session /\ asked[k].finished = tr[k].finished
           /\ k # t => asked[k].sample = tr[k].sample /\ asked[k].req = tr[k].req
      /\ asked[t].req = "doSample"
  <2>1. t \in 1..Len(added) /\ "doSample" \in Requests
    BY <1>3, <1>5 DEF Trackers, Requests
  <2> HIDE DEF added
  <2>2. /\ asked \in Seq(Tracker) /\ Len(asked) = Len(added)
        /\ \A k \in 1..Len(added) :
              /\ asked[k].session = added[k].session /\ asked[k].finished = added[k].finished
              /\ asked[k].sample = added[k].sample
              /\ asked[k].req = IF k = t THEN "doSample" ELSE added[k].req
    BY <1>5, <2>1, RequestStored
  <2> HIDE DEF asked
  <2> QED BY <1>3, <1>5, <2>2 DEF Trackers
<1>7. /\ removed(n) \in Seq(Nat) /\ Len(removed(n)) = Len(trackers) - 1
      /\ \A i \in 1..(Len(trackers) - 1) :
           removed(n)[i] = IF i = n THEN trackers[Len(trackers)] ELSE trackers[i]
  BY <1>2, <1>3, RemovedAt
<1>8. /\ leftOne(sampler) \in Scan /\ leftOne(next) \in Scan /\ asleep(next) \in Scan
      /\ \A s \in {leftOne(sampler), leftOne(next), asleep(next)} :
           s.at \in {"wait", "scan"} /\ (s.at = "scan" => s.left = sampler.left - 1 /\ sampler.left > 1)
  <2>1. sampler.left > 0 /\ next.left > 0
    BY <1>2, <1>3, <1>4
  <2> HIDE DEF next
  <2> QED BY <1>0, <1>2, <1>4, <2>1, LeftOne
<1> HIDE DEF added, asked, next, t, n
<1>9. tr' \in Seq(Tracker) /\ Sessioned /\ \A k \in Trackers : tr'[k].finished = tr[k].finished
  BY <1>1, <1>5, <1>6 DEF Sessioned
<1>10. sampler' \in Scan /\ trackers' \in Seq(Nat)
  BY <1>1, <1>2, <1>7, <1>8
<1>11. Types'
  BY <1>0, <1>9, <1>10 DEF Inv, Types, vmVars
<1>12. ctl.todo = <<>> /\ ctl.at # "loaded" /\ buf # NoBuf
  <2>1. trackers # <<>>
    BY <1>3, EmptySeq
  <2> QED BY <2>1 DEF Inv, Phases
<1>13. Phases'
  BY <1>0, <1>1, <1>12 DEF Inv, Phases
<1>14. Owned'
  BY <1>0, <1>9, OwnedSame DEF Inv, Sessioned
<1>15. /\ \A i \in 1..Len(removed(n)) : \E j \in 1..Len(trackers) : removed(n)[i] = trackers[j] /\ j # n
       /\ \A i, j \in 1..Len(removed(n)) : removed(n)[i] = removed(n)[j] => i = j
  <2>1. \A i, j \in 1..Len(trackers) : trackers[i] = trackers[j] => i = j
    BY DEF Inv, Scanning
  <2>2. ASSUME NEW i \in 1..Len(removed(n))
        PROVE  \E j \in 1..Len(trackers) : /\ removed(n)[i] = trackers[j] /\ j # n
                                          /\ j = IF i = n THEN Len(trackers) ELSE i
    <3>1. i \in 1..(Len(trackers) - 1)
      BY <1>7
    <3>2. CASE i = n
      <4>1. removed(n)[i] = trackers[Len(trackers)]
        BY <1>7, <3>1, <3>2
      <4>2. Len(trackers) \in 1..Len(trackers) /\ Len(trackers) # n
        BY <1>2, <3>1, <3>2
      <4> QED BY <3>2, <4>1, <4>2
    <3>3. CASE i # n
      BY <1>2, <1>7, <3>1, <3>3
    <3> QED BY <3>2, <3>3
  <2>3. ASSUME NEW i \in 1..Len(removed(n)), NEW j \in 1..Len(removed(n)), removed(n)[i] = removed(n)[j]
        PROVE  i = j
    <3>1. (IF i = n THEN Len(trackers) ELSE i) = (IF j = n THEN Len(trackers) ELSE j)
      BY <2>1, <2>2, <2>3
    <3>2. i < Len(trackers) /\ j < Len(trackers)
      BY <1>2, <1>7
    <3> QED BY <3>1, <3>2
  <2> QED BY <2>2, <2>3
<1>16. Listed'
  <2>1. InSession(trackers, buf)'
    <3>1. \A i \in 1..Len(trackers') : \E j \in 1..Len(trackers) : trackers'[i] = trackers[j]
      BY <1>1, <1>15
    <3>2. \A j \in 1..Len(trackers) : trackers[j] \in Trackers /\ tr[trackers[j]].session = buf
      BY DEF Inv, Listed, InSession
    <3> QED BY <1>0, <1>9, <3>1, <3>2 DEF InSession, Sessioned, Trackers
  <2> QED BY <1>0, <1>9, <2>1, ListsKept DEF Inv, Listed
<1>17. \A i, j \in 1..Len(trackers') : trackers'[i] = trackers'[j] => i = j
  <2>1. \A i, j \in 1..Len(trackers) : trackers[i] = trackers[j] => i = j
    BY DEF Inv, Scanning
  <2> QED BY <1>1, <1>15, <2>1
<1>18. Scanning'
  <2>1. sampler'.at \in {"wait", "scan"} /\ (sampler'.at = "scan" =>
           sampler'.left = sampler.left - 1 /\ sampler.left > 1)
    BY <1>1, <1>8
  <2>2. sampler'.at = "scan" => Len(trackers') \in {Len(trackers), Len(trackers) - 1}
    BY <1>1, <1>7
  <2>3. sampler'.at = "scan" => sampler'.left \in 1..Len(trackers')
    BY <1>2, <1>3, <2>1, <2>2
  <2> QED BY <1>0, <1>3, <1>17, <2>1, <2>3 DEF Scanning
<1>19. Fresh'
  <2>1. \A i \in 1..Len(trackers) : trackers[i] \in Trackers
             /\ (tr[trackers[i]].req = "sampleReady" => tr[trackers[i]].sample = "fresh")
    BY DEF Inv, Fresh, FreshIn, Listed, InSession
  <2>2. FreshIn(trackers)'
    <3>1. CASE tr' = added /\ trackers' = removed(n)
      <4>1. \A i \in 1..Len(trackers') : \E j \in 1..Len(trackers) : trackers'[i] = trackers[j] /\ j # n
        BY <1>15, <3>1
      <4>2. \A j \in 1..Len(trackers) : j # n => trackers[j] # t
        BY <1>3 DEF Inv, Scanning
      <4> QED BY <1>5, <2>1, <3>1, <4>1, <4>2 DEF FreshIn
    <3>2. CASE tr' = asked /\ trackers' = trackers
      BY <1>6, <2>1, <3>2 DEF FreshIn
    <3>3. CASE sampler.req = "doSample" /\ tr' = added /\ trackers' = trackers
      BY <1>5, <2>1, <3>3 DEF FreshIn
    <3> QED BY <1>1, <3>1, <3>2, <3>3
  <2>3. ctl'.at # "loaded" /\ sampler'.at # "loaded" /\ ctl'.todo = <<>>
    BY <1>0, <1>1, <1>8, <1>12
  <2> QED BY <2>2, <2>3 DEF Fresh, FreshIn
<1> QED BY <1>11, <1>13, <1>14, <1>16, <1>18, <1>19 DEF Inv
-----------------------------------------------------------------------------
(* StartProfile, StopProfile and the goroutine that stop() leaves behind.  *)

(* The first of a list of trackers, and the others.                        *)
LEMMA TailOf ==
  ASSUME NEW list \in Seq(Nat), list # <<>>
  PROVE  /\ Head(list) = list[1] /\ 1 \in 1..Len(list) /\ Head(list) \in Nat
         /\ Tail(list) \in Seq(Nat) /\ Len(Tail(list)) = Len(list) - 1 /\ Len(list) \in Nat
         /\ \A i \in 1..Len(Tail(list)) : i + 1 \in 1..Len(list) /\ Tail(list)[i] = list[i + 1]
<1>1. Len(list) \in Nat \ {0}
  BY EmptySeq, LenProperties
<1> QED BY <1>1, HeadTailProperties, ElementOfSeq

(* What is true of the trackers of a list is true of its tail, and of the  *)
(* list with one more.                                                     *)
LEMMA TailInSession ==
  ASSUME NEW list \in Seq(Nat), list # <<>>, NEW s, InSession(list, s)
  PROVE  InSession(Tail(list), s) /\ Head(list) \in Trackers /\ tr[Head(list)].session = s
BY TailOf DEF InSession

LEMMA AppendInSession ==
  ASSUME NEW list \in Seq(Nat), NEW t \in Trackers, NEW s, InSession(list, s), tr[t].session = s
  PROVE  InSession(Append(list, t), s) /\ Append(list, t) \in Seq(Nat)
<1>1. t \in Nat
  BY DEF Trackers
<1>2. /\ Append(list, t) \in Seq(Nat) /\ Len(Append(list, t)) = Len(list) + 1 /\ Len(list) \in Nat
      /\ \A i \in 1..Len(list) : Append(list, t)[i] = list[i]
      /\ Append(list, t)[Len(list) + 1] = t
  BY <1>1, AppendProperties, LenProperties
<1> HIDE DEF Trackers
<1> QED BY <1>2 DEF InSession

LEMMA StartStep ==
  ASSUME Inv, StartProfile \/ Enable \/ StopProfile
  PROVE  Inv'
<1>1. UNCHANGED <<trackers, running, tr, sampler, cleaners, vmVars>>
  BY DEF StartProfile, Enable, StopProfile
<1>2. ctl \in Control /\ ctl.at \in {"idle", "started"} /\ ctl.todo = <<>> /\ ctl.kept = <<>>
  BY DEF Inv, Types, Phases, StartProfile, Enable, StopProfile
<1>3. /\ ctl' \in Control /\ ctl'.todo = <<>> /\ ctl'.kept = <<>>
      /\ ctl'.at \in {"idle", "started", "stopping"} /\ buf' \in 0..MaxSessions /\ enabled' \in BOOLEAN
  <2>1. CASE StartProfile
    <3>1. ctl.session + 1 \in 0..MaxSessions
      BY <1>2, <2>1, ProfilerAssumption DEF StartProfile, Control
    <3> QED BY <1>2, <2>1, <3>1 DEF StartProfile, Control, Inv, Types
  <2>2. CASE Enable
    BY <1>2, <2>2 DEF Enable, Control, Inv, Types
  <2>3. CASE StopProfile
    BY <1>2, <2>3 DEF StopProfile, Control, Inv, Types
  <2> QED BY <2>1, <2>2, <2>3
<1>4. Types'
  BY <1>1, <1>3 DEF Inv, Types, vmVars
<1>5. Phases'
  <2>1. CASE StartProfile
    <3>1. /\ buf = NoBuf /\ ctl.at = "idle" /\ trackers = <<>> /\ ~enabled
          /\ buf' = ctl.session + 1 /\ ctl'.session = ctl.session + 1 /\ ctl'.at = "started"
          /\ ctl.session \in Nat /\ UNCHANGED <<enabled, trackers, cleaners>>
      BY <1>2, <2>1 DEF StartProfile, Inv, Phases, Control
    <3>2. buf' # NoBuf
      BY <3>1 DEF NoBuf
    <3>3. \A s \in Sessions : (cleaners[s].todo # <<>> \/ cleaners[s].kept # <<>>) => s < ctl'.session
      BY <3>1 DEF Inv, Phases, Sessions
    <3> QED BY <1>3, <3>1, <3>2, <3>3 DEF Phases
  <2>2. CASE Enable
    <3>1. buf # NoBuf /\ enabled' /\ ctl'.at = "idle" /\ ctl'.session = ctl.session
          /\ UNCHANGED <<buf, trackers, cleaners>>
      BY <1>2, <2>2 DEF Enable, Inv, Phases, Control
    <3> QED BY <1>3, <3>1 DEF Inv, Phases
  <2>3. CASE StopProfile
    <3>1. buf # NoBuf /\ ~enabled' /\ ctl'.at = "stopping" /\ ctl'.session = ctl.session
          /\ UNCHANGED <<buf, trackers, cleaners>>
      BY <1>2, <2>3 DEF StopProfile, Inv, Phases, Control
    <3> QED BY <1>3, <3>1 DEF Inv, Phases
  <2> QED BY <2>1, <2>2, <2>3
<1>6. Listed'
  <2>1. InSession(trackers, buf)'
    <3>1. CASE StartProfile
      BY <1>1, <3>1 DEF StartProfile, Inv, Phases, InSession
    <3>2. CASE Enable \/ StopProfile
      BY <1>1, <3>2, ListsKept DEF Enable, StopProfile, Inv, Sessioned
    <3> QED BY <3>1, <3>2
  <2>2. InSession(ctl.todo, ctl.session)' /\ InSession(ctl.kept, ctl.session)'
    BY <1>3 DEF InSession
  <2> QED BY <1>1, <2>1, <2>2, ListsKept DEF Inv, Sessioned, Listed
<1>7. Scanning' /\ Owned'
  BY <1>1 DEF Inv, Scanning, Owned, Trackers, vmVars
<1>8. Fresh'
  BY <1>1, <1>3 DEF Inv, Fresh, FreshIn
<1> QED BY <1>4, <1>5, <1>6, <1>7, <1>8 DEF Inv

(* stop() takes the trackers of the session.                               *)
LEMMA TakeStep ==
  ASSUME Inv, Take
  PROVE  Inv'
<1>1. /\ UNCHANGED <<enabled, running, tr, sampler, cleaners, vmVars>>
      /\ ctl.at = "stopping" /\ muFree /\ trackers' = <<>> /\ buf' = NoBuf
      /\ ctl' = [ctl EXCEPT !.at = "loop", !.todo = trackers, !.kept = <<>>]
  BY DEF Take
<1>2. ctl \in Control /\ trackers \in Seq(Nat) /\ <<>> \in Seq(Nat) /\ 0 \in 0..MaxSessions
  BY EmptySeq, ProfilerAssumption DEF Inv, Types
<1>3. ctl' \in Control /\ ctl'.at = "loop" /\ ctl'.todo = trackers /\ ctl'.kept = <<>>
      /\ ctl'.session = ctl.session
  BY <1>1, <1>2 DEF Control
<1>4. ctl.session # 0 /\ buf = ctl.session /\ buf # NoBuf /\ ~enabled
  BY <1>1 DEF Inv, Phases, NoBuf
<1>5. Types'
  BY <1>1, <1>2, <1>3 DEF Inv, Types, vmVars, NoBuf
<1>6. Phases'
  BY <1>1, <1>3, <1>4 DEF Inv, Phases
<1>7. Listed'
  <2>1. InSession(ctl.todo, ctl.session)'
    BY <1>1, <1>3, <1>4 DEF Inv, Listed, InSession, Trackers
  <2>2. InSession(trackers, buf)' /\ InSession(ctl.kept, ctl.session)'
    BY <1>1, <1>3 DEF InSession
  <2> QED BY <1>1, <2>1, <2>2, ListsKept DEF Inv, Sessioned, Listed
<1>8. Scanning'
  BY <1>1 DEF Inv, Scanning, muFree
<1>9. Owned'
  BY <1>1 DEF Inv, Owned, Trackers, vmVars
<1>10. Fresh'
  BY <1>1, <1>3 DEF Inv, Fresh, FreshIn, muFree
<1> QED BY <1>5, <1>6, <1>7, <1>8, <1>9, <1>10 DEF Inv

LEMMA StopLoadStep ==
  ASSUME Inv, StopLoad
  PROVE  Inv'
<1>1. /\ UNCHANGED <<enabled, buf, trackers, running, tr, sampler, cleaners, vmVars>>
      /\ ctl.at = "loop" /\ ctl.todo # <<>>
      /\ ctl' = [ctl EXCEPT !.at = "loaded", !.req = tr[Head(ctl.todo)].req]
  BY DEF StopLoad, profVars
<1>2. ctl \in Control /\ ctl.todo \in Seq(Nat) /\ tr \in Seq(Tracker)
  BY DEF Inv, Types, Control
<1>3. tr[Head(ctl.todo)].req \in Requests
  <2>1. Head(ctl.todo) \in 1..Len(tr)
    BY <1>1, <1>2, TailInSession DEF Inv, Listed, Trackers
  <2>2. tr[Head(ctl.todo)] \in Tracker
    BY <1>2, <2>1, ElementOfSeq
  <2> QED BY <2>2 DEF Tracker, Requests
<1>4. /\ ctl' \in Control /\ ctl'.at = "loaded" /\ ctl'.todo = ctl.todo /\ ctl'.kept = ctl.kept
      /\ ctl'.session = ctl.session /\ ctl'.req = tr[Head(ctl.todo)].req
  BY <1>1, <1>2, <1>3 DEF Control
<1>5. Types'
  BY <1>1, <1>4 DEF Inv, Types, vmVars
<1>6. Phases'
  BY <1>1, <1>4 DEF Inv, Phases
<1>7. Listed'
  BY <1>1, <1>4 DEF Inv, Listed, InSession, Trackers
<1>8. Scanning' /\ Owned'
  BY <1>1 DEF Inv, Scanning, Owned, Trackers, vmVars
<1>9. Fresh'
  BY <1>1, <1>4 DEF Inv, Fresh, FreshIn
<1> QED BY <1>5, <1>6, <1>7, <1>8, <1>9 DEF Inv
(* A tracker is asked to stop; its sample counts when it was ready.        *)
LEMMA StopStoreStep ==
  ASSUME Inv, StopStore
  PROVE  Inv'
<1> DEFINE t == Head(ctl.todo)
           added == addSample(t, ctl.req)
           asked == [added EXCEPT ![t].req = "stop"]
           kept == IF ctl.req = "doSample" THEN Append(ctl.kept, t) ELSE ctl.kept
<1>1. /\ UNCHANGED <<enabled, buf, trackers, running, sampler, cleaners, vmVars>>
      /\ ctl.at = "loaded" /\ tr' = asked
      /\ ctl' = [ctl EXCEPT !.at = "loop", !.todo = Tail(ctl.todo), !.req = "none", !.kept = kept]
  BY DEF StopStore
<1>2. /\ ctl \in Control /\ ctl.todo \in Seq(Nat) /\ ctl.kept \in Seq(Nat) /\ tr \in Seq(Tracker)
      /\ ctl.todo # <<>> /\ ctl.req \in Requests /\ trackers = <<>> /\ buf = NoBuf /\ ctl.session # 0
  BY <1>1 DEF Inv, Types, Control, Phases
<1>3. /\ InSession(ctl.todo, ctl.session) /\ InSession(ctl.kept, ctl.session)
      /\ InSession(Tail(ctl.todo), ctl.session) /\ t \in Trackers /\ tr[t].session = ctl.session
  BY <1>2, TailInSession DEF Inv, Listed
<1>4. InSession(kept, ctl.session) /\ kept \in Seq(Nat) /\ Tail(ctl.todo) \in Seq(Nat)
  BY <1>2, <1>3, AppendInSession, TailOf
<1>5. /\ asked \in Seq(Tracker) /\ Len(asked) = Len(tr) /\ asked[t].req = "stop"
      /\ \A k \in Trackers :
           /\ asked[k].session = tr[k].session /\ asked[k].finished = tr[k].finished
           /\ k # t => asked[k].sample = tr[k].sample /\ asked[k].req = tr[k].req
  <2>1. /\ added \in Seq(Tracker) /\ Len(added) = Len(tr)
        /\ \A k \in Trackers :
             /\ added[k].session = tr[k].session /\ added[k].finished = tr[k].finished
             /\ added[k].req = tr[k].req /\ (k # t => added[k].sample = tr[k].sample)
    BY <1>2, <1>3, SampleAdded
  <2>2. t \in 1..Len(added) /\ "stop" \in Requests
    BY <1>3, <2>1 DEF Trackers, Requests
  <2> HIDE DEF added, t
  <2>3. /\ asked \in Seq(Tracker) /\ Len(asked) = Len(added)
        /\ \A k \in 1..Len(added) :
              /\ asked[k].session = added[k].session /\ asked[k].finished = added[k].finished
              /\ asked[k].sample = added[k].sample
              /\ asked[k].req = IF k = t THEN "stop" ELSE added[k].req
    BY <2>1, <2>2, RequestStored
  <2> HIDE DEF asked
  <2> QED BY <1>3, <2>1, <2>3 DEF Trackers
<1> HIDE DEF t, added, asked, kept
<1>6. Sessioned /\ \A k \in Trackers : tr'[k].finished = tr[k].finished
  BY <1>1, <1>5 DEF Sessioned
<1>7. /\ ctl' \in Control /\ ctl'.at = "loop" /\ ctl'.todo = Tail(ctl.todo) /\ ctl'.kept = kept
      /\ ctl'.session = ctl.session
  BY <1>1, <1>2, <1>4 DEF Control, Requests
<1>8. Types'
  BY <1>1, <1>5, <1>7 DEF Inv, Types, vmVars
<1>9. Phases'
  BY <1>1, <1>2, <1>7 DEF Inv, Phases
<1>10. Listed'
  <2>1. InSession(ctl.todo, ctl.session)' /\ InSession(ctl.kept, ctl.session)'
    <3>1. \A i \in 1..Len(Tail(ctl.todo)) :
             Tail(ctl.todo)[i] \in Trackers' /\ tr'[Tail(ctl.todo)[i]].session = ctl.session
      BY <1>3, <1>6, InSessionKept
    <3>2. \A i \in 1..Len(kept) : kept[i] \in Trackers' /\ tr'[kept[i]].session = ctl.session
      BY <1>4, <1>6, InSessionKept
    <3> QED BY <1>7, <3>1, <3>2 DEF InSession
  <2> QED BY <1>1, <1>6, <2>1, ListsKept DEF Inv, Listed
<1>11. Scanning' /\ sampler.at # "loaded"
  BY <1>1, <1>2 DEF Inv, Scanning
<1>12. Owned'
  BY <1>1, <1>6, OwnedSame DEF Inv, Sessioned
<1>13. Fresh'
  <2>1. \A i \in 1..Len(ctl.todo) : ctl.todo[i] \in Trackers
             /\ (tr[ctl.todo[i]].req = "sampleReady" => tr[ctl.todo[i]].sample = "fresh")
    BY DEF Inv, Fresh, FreshIn, Listed, InSession
  <2>2. \A i \in 1..Len(Tail(ctl.todo)) : \E j \in 1..Len(ctl.todo) : Tail(ctl.todo)[i] = ctl.todo[j]
    BY <1>2, TailOf
  <2>3. \A k \in Trackers : tr'[k].req = "sampleReady" =>
            tr[k].req = "sampleReady" /\ tr'[k].sample = tr[k].sample
    BY <1>1, <1>5
  <2>4. FreshIn(ctl.todo)'
    BY <1>7, <2>1, <2>2, <2>3 DEF FreshIn
  <2> QED BY <1>1, <1>2, <1>7, <1>11, <2>4 DEF Fresh, FreshIn
<1> QED BY <1>8, <1>9, <1>10, <1>11, <1>12, <1>13 DEF Inv

LEMMA StopReturnsStep ==
  ASSUME Inv, StopReturns
  PROVE  Inv'
<1> DEFINE left == [on |-> ctl.kept # <<>>, todo |-> ctl.kept, kept |-> <<>>]
<1>1. /\ UNCHANGED <<enabled, buf, trackers, running, tr, sampler, vmVars>>
      /\ ctl.at = "loop" /\ ctl.todo = <<>> /\ ctl' = [ctl EXCEPT !.at = "idle", !.kept = <<>>]
      /\ cleaners' = [cleaners EXCEPT ![ctl.session] = left]
  BY DEF StopReturns, profVars
<1>2. ctl \in Control /\ ctl.kept \in Seq(Nat) /\ <<>> \in Seq(Nat) /\ cleaners \in [Sessions -> Cleaner]
      /\ ctl.session \in Sessions /\ buf = NoBuf
  BY <1>1, EmptySeq, ProfilerAssumption DEF Inv, Types, Control, Phases, Sessions
<1>3. left \in Cleaner /\ left.todo = ctl.kept /\ left.kept = <<>>
  BY <1>2 DEF Cleaner
<1> HIDE DEF left
<1>4. /\ ctl' \in Control /\ ctl'.at = "idle" /\ ctl'.todo = <<>> /\ ctl'.kept = <<>>
      /\ ctl'.session = ctl.session
  BY <1>1, <1>2 DEF Control
<1>5. cleaners' \in [Sessions -> Cleaner] /\ cleaners'[ctl.session] = left
      /\ \A s \in Sessions \ {ctl.session} : cleaners'[s] = cleaners[s]
  BY <1>1, <1>2, <1>3
<1>6. Types'
  BY <1>1, <1>4, <1>5 DEF Inv, Types, vmVars
<1>7. Phases'
  BY <1>1, <1>2, <1>4, <1>5 DEF Inv, Phases
<1>8. Listed'
  <2>1. \A s \in Sessions : InSession(cleaners[s].todo, s)' /\ InSession(cleaners[s].kept, s)'
    BY <1>1, <1>3, <1>5 DEF Inv, Listed, InSession, Trackers
  <2>2. InSession(ctl.todo, ctl.session)' /\ InSession(ctl.kept, ctl.session)'
    BY <1>4 DEF InSession
  <2> QED BY <1>1, <2>1, <2>2, ListsKept DEF Inv, Sessioned, Listed
<1>9. Scanning' /\ Owned'
  BY <1>1 DEF Inv, Scanning, Owned, Trackers, vmVars
<1>10. Fresh'
  BY <1>1, <1>4 DEF Inv, Fresh, FreshIn
<1> QED BY <1>6, <1>7, <1>8, <1>9, <1>10 DEF Inv

(* The trackers of the session s are in no list of the sampler or of       *)
(* StopProfile any more.                                                   *)
LEMMA CleanersApart ==
  ASSUME Inv, NEW s \in Sessions, cleaners[s].todo # <<>> \/ cleaners[s].kept # <<>>,
         NEW t \in Trackers, tr[t].session = s
  PROVE  /\ sampler.at = "loaded" => t # sampler.t
         /\ ctl.at = "loaded" => t # Head(ctl.todo)
<1>1. s < ctl.session \/ (s = ctl.session /\ buf = NoBuf /\ ctl.at = "idle")
  BY DEF Inv, Phases
<1>2. s \in Nat \ {0} /\ ctl.session \in Nat
  BY DEF Sessions, Inv, Types, Control
<1>3. ASSUME sampler.at = "loaded" PROVE t # sampler.t
  <2>1. sampler.counter + 1 \in 1..Len(trackers) /\ sampler.t = trackers[sampler.counter + 1]
    BY <1>3, LenProperties DEF Inv, Scanning, Types, Scan
  <2>2. tr[sampler.t].session = buf /\ buf # NoBuf /\ buf = ctl.session
    <3>1. trackers # <<>>
      BY <2>1, EmptySeq
    <3> QED BY <2>1, <3>1 DEF Inv, Listed, InSession, Phases
  <2> QED BY <1>1, <1>2, <2>2
<1>4. ASSUME ctl.at = "loaded" PROVE t # Head(ctl.todo)
  <2>1. ctl.todo \in Seq(Nat) /\ ctl.todo # <<>> /\ InSession(ctl.todo, ctl.session)
    BY <1>4 DEF Inv, Types, Control, Phases, Listed
  <2>2. tr[Head(ctl.todo)].session = ctl.session
    BY <2>1, TailInSession
  <2> QED BY <1>1, <1>2, <1>4, <2>2
<1> QED BY <1>3, <1>4

LEMMA CleanStep ==
  ASSUME Inv, NEW s \in Sessions, Clean(s)
  PROVE  Inv'
<1> DEFINE t == Head(cleaners[s].todo)
           rest == Tail(cleaners[s].todo)
           asked == [tr EXCEPT ![t].req = "stop"]
           kept == IF tr[t].req # "stop" THEN Append(cleaners[s].kept, t) ELSE cleaners[s].kept
<1>1. /\ UNCHANGED <<enabled, buf, trackers, running, sampler, ctl, vmVars>>
      /\ cleaners[s].todo # <<>> /\ tr' = asked
      /\ cleaners' = [cleaners EXCEPT ![s].todo = rest, ![s].kept = kept]
  BY DEF Clean
<1>2. /\ cleaners \in [Sessions -> Cleaner] /\ cleaners[s] \in Cleaner
      /\ cleaners[s].todo \in Seq(Nat) /\ cleaners[s].kept \in Seq(Nat) /\ tr \in Seq(Tracker)
  BY DEF Inv, Types, Cleaner
<1>3. /\ InSession(cleaners[s].kept, s) /\ InSession(rest, s)
      /\ t \in Trackers /\ tr[t].session = s
  BY <1>1, <1>2, TailInSession DEF Inv, Listed
<1>4. InSession(kept, s) /\ kept \in Seq(Nat) /\ rest \in Seq(Nat)
  BY <1>1, <1>2, <1>3, AppendInSession, TailOf
<1>5. /\ asked \in Seq(Tracker) /\ Len(asked) = Len(tr) /\ asked[t].req = "stop"
      /\ \A k \in Trackers :
           /\ asked[k].session = tr[k].session /\ asked[k].finished = tr[k].finished
           /\ asked[k].sample = tr[k].sample /\ (k # t => asked[k].req = tr[k].req)
  <2>1. t \in 1..Len(tr) /\ "stop" \in Requests
    BY <1>3 DEF Trackers, Requests
  <2> HIDE DEF t
  <2>2. /\ asked \in Seq(Tracker) /\ Len(asked) = Len(tr)
        /\ \A k \in 1..Len(tr) :
              /\ asked[k].session = tr[k].session /\ asked[k].finished = tr[k].finished
              /\ asked[k].sample = tr[k].sample
              /\ asked[k].req = IF k = t THEN "stop" ELSE tr[k].req
    BY <1>2, <2>1, RequestStored
  <2> HIDE DEF asked
  <2> QED BY <2>1, <2>2 DEF Trackers
<1>6. /\ sampler.at = "loaded" => t # sampler.t
      /\ ctl.at = "loaded" => t # Head(ctl.todo)
  BY <1>1, <1>3, CleanersApart
<1> HIDE DEF t, rest, asked, kept
<1>7. Sessioned /\ \A k \in Trackers : tr'[k].finished = tr[k].finished
  BY <1>1, <1>5 DEF Sessioned
<1>8. /\ cleaners' \in [Sessions -> Cleaner]
      /\ cleaners'[s].todo = rest /\ cleaners'[s].kept = kept
      /\ \A x \in Sessions \ {s} : cleaners'[x] = cleaners[x]
  <2> DEFINE e == [cleaners[s] EXCEPT !.todo = rest, !.kept = kept]
  <2>1. e \in Cleaner /\ e.todo = rest /\ e.kept = kept
    BY <1>2, <1>4 DEF Cleaner
  <2>2. cleaners' = [cleaners EXCEPT ![s] = e]
    BY <1>1, <1>2
  <2> HIDE DEF e
  <2> QED BY <1>2, <2>1, <2>2
<1>9. Types'
  BY <1>1, <1>5, <1>8 DEF Inv, Types, vmVars
<1>10. Phases'
  BY <1>1, <1>8 DEF Inv, Phases
<1>11. Listed'
  <2>1. ASSUME NEW x \in Sessions
        PROVE  InSession(cleaners[x].todo, x)' /\ InSession(cleaners[x].kept, x)'
    <3>1. CASE x = s
      <4>1. \A i \in 1..Len(rest) : rest[i] \in Trackers' /\ tr'[rest[i]].session = s
        BY <1>3, <1>7, InSessionKept
      <4>2. \A i \in 1..Len(kept) : kept[i] \in Trackers' /\ tr'[kept[i]].session = s
        BY <1>4, <1>7, InSessionKept
      <4> QED BY <1>8, <3>1, <4>1, <4>2 DEF InSession
    <3>2. CASE x # s
      <4>1. /\ \A i \in 1..Len(cleaners[x].todo) :
                 cleaners[x].todo[i] \in Trackers' /\ tr'[cleaners[x].todo[i]].session = x
            /\ \A i \in 1..Len(cleaners[x].kept) :
                 cleaners[x].kept[i] \in Trackers' /\ tr'[cleaners[x].kept[i]].session = x
        BY <1>7, InSessionKept DEF Inv, Listed
      <4> QED BY <1>8, <3>2, <4>1 DEF InSession
    <3> QED BY <3>1, <3>2
  <2> QED BY <1>1, <1>7, <2>1, ListsKept DEF Inv, Listed
<1>12. Scanning' /\ Owned'
  BY <1>1, <1>7, OwnedSame DEF Inv, Scanning, Sessioned
<1>13. Fresh'
  <2>1. \A k \in Trackers :
          /\ tr'[k].req = "sampleReady" => tr[k].req = "sampleReady" /\ tr'[k].sample = tr[k].sample
          /\ k # t => tr'[k].req = tr[k].req
    BY <1>1, <1>5
  <2>2. FreshIn(trackers)' /\ FreshIn(ctl.todo)'
    <3>1. trackers' = trackers /\ ctl' = ctl
      BY <1>1
    <3>2. /\ \A i \in 1..Len(trackers) : trackers[i] \in Trackers
               /\ (tr[trackers[i]].req = "sampleReady" => tr[trackers[i]].sample = "fresh")
          /\ \A i \in 1..Len(ctl.todo) : ctl.todo[i] \in Trackers
               /\ (tr[ctl.todo[i]].req = "sampleReady" => tr[ctl.todo[i]].sample = "fresh")
      BY DEF Inv, Fresh, FreshIn, Listed, InSession
    <3>3. \A k \in Trackers :
            (tr[k].req = "sampleReady" => tr[k].sample = "fresh")
              => (tr'[k].req = "sampleReady" => tr'[k].sample = "fresh")
      BY <2>1
    <3>4. FreshIn(trackers)'
      BY <3>1, <3>2, <3>3 DEF FreshIn
    <3>5. FreshIn(ctl.todo)'
      BY <3>1, <3>2, <3>3 DEF FreshIn
    <3> QED BY <3>4, <3>5
  <2>3. sampler.at = "loaded" => sampler.t \in Trackers
    BY LenProperties DEF Inv, Scanning, Types, Scan, Listed, InSession
  <2>4. ctl.at = "loaded" => Head(ctl.todo) \in Trackers
    BY TailInSession DEF Inv, Types, Control, Phases, Listed
  <2> QED BY <1>1, <1>6, <2>1, <2>2, <2>3, <2>4 DEF Inv, Fresh
<1> QED BY <1>9, <1>10, <1>11, <1>12, <1>13 DEF Inv

LEMMA PassStep ==
  ASSUME Inv, NEW s \in Sessions, Pass(s)
  PROVE  Inv'
<1> DEFINE e == [on |-> cleaners[s].kept # <<>>, todo |-> cleaners[s].kept, kept |-> <<>>]
<1>1. /\ UNCHANGED <<enabled, buf, trackers, running, tr, sampler, ctl, vmVars>>
      /\ cleaners' = [cleaners EXCEPT ![s] = e]
  BY DEF Pass, profVars
<1>2. /\ cleaners \in [Sessions -> Cleaner] /\ cleaners[s].kept \in Seq(Nat) /\ <<>> \in Seq(Nat)
  BY EmptySeq DEF Inv, Types, Cleaner
<1>3. e \in Cleaner /\ e.todo = cleaners[s].kept /\ e.kept = <<>>
  BY <1>2 DEF Cleaner
<1> HIDE DEF e
<1>4. cleaners' \in [Sessions -> Cleaner] /\ cleaners'[s] = e
      /\ \A x \in Sessions \ {s} : cleaners'[x] = cleaners[x]
  BY <1>1, <1>2, <1>3
<1>5. Types'
  BY <1>1, <1>4 DEF Inv, Types, vmVars
<1>6. Phases'
  BY <1>1, <1>3, <1>4 DEF Inv, Phases
<1>7. Listed'
  <2>1. \A x \in Sessions : InSession(cleaners[x].todo, x)' /\ InSession(cleaners[x].kept, x)'
    BY <1>1, <1>3, <1>4 DEF Inv, Listed, InSession, Trackers
  <2> QED BY <1>1, <2>1, ListsKept DEF Inv, Sessioned, Listed
<1>8. Scanning' /\ Owned' /\ Fresh'
  BY <1>1 DEF Inv, Scanning, Owned, Trackers, vmVars, Fresh, FreshIn
<1> QED BY <1>5, <1>6, <1>7, <1>8 DEF Inv
-----------------------------------------------------------------------------
(* The steps of the VMs keep the invariant.                                *)

LEMMA VmStepInv ==
  ASSUME Inv, VmTypes, Kept, Owned', UNCHANGED others
  PROVE  Inv'
<1>1. UNCHANGED <<enabled, buf, trackers, running, sampler, ctl, cleaners>>
  BY DEF others
<1>2. Sessioned
  BY DEF Kept, KeptAt, Sessioned
<1>3. Types'
  BY <1>1 DEF Inv, Types, VmTypes
<1>4. Listed'
  BY <1>1, <1>2, ListsKept DEF Inv, Listed
<1>5. Phases' /\ Scanning'
  BY <1>1 DEF Inv, Phases, Scanning
<1>6. Fresh'
  <2>1. /\ \A i \in 1..Len(trackers) : trackers[i] \in Trackers
             /\ (tr[trackers[i]].req = "sampleReady" => tr[trackers[i]].sample = "fresh")
        /\ \A i \in 1..Len(ctl.todo) : ctl.todo[i] \in Trackers
             /\ (tr[ctl.todo[i]].req = "sampleReady" => tr[ctl.todo[i]].sample = "fresh")
    BY DEF Inv, Fresh, FreshIn, Listed, InSession
  <2>2. \A k \in Trackers :
          /\ tr[k].req = "sampleReady" => tr'[k].req = "sampleReady"
          /\ (tr[k].req = "sampleReady" => tr[k].sample = "fresh")
               => (tr'[k].req = "sampleReady" => tr'[k].sample = "fresh")
    BY DEF Kept, KeptAt
  <2>3. FreshIn(trackers)'
    BY <1>1, <2>1, <2>2 DEF FreshIn
  <2>4. FreshIn(ctl.todo)'
    BY <1>1, <2>1, <2>2 DEF FreshIn
  <2>5. sampler.at = "loaded" => sampler.t \in Trackers
    BY LenProperties DEF Inv, Scanning, Types, Scan, Listed, InSession
  <2>6. ctl.at = "loaded" => Head(ctl.todo) \in Trackers
    BY TailInSession DEF Inv, Types, Control, Phases, Listed
  <2> QED BY <1>1, <2>2, <2>3, <2>4, <2>5, <2>6 DEF Inv, Fresh
<1> QED BY <1>3, <1>4, <1>5, <1>6 DEF Inv

(* A tracker is added to tr and to the sampler's list.                     *)
LEMMA RegisterTypes ==
  ASSUME Types, NEW v \in VMs, registerVm(v)
  PROVE  /\ tr' \in Seq(Tracker) /\ Len(tr') = Len(tr) + 1 /\ Len(tr') \in Nat
         /\ \A t \in Trackers : tr'[t] = tr[t]
         /\ tr'[Len(tr')].session = buf /\ ~tr'[Len(tr')].finished
         /\ tr'[Len(tr')].req # "sampleReady"
         /\ profTracker' = [profTracker EXCEPT ![v] = Len(tr')]
         /\ \/ buf = NoBuf /\ UNCHANGED <<trackers, running, sampler>>
            \/ /\ buf # NoBuf /\ trackers' = Append(trackers, Len(tr')) /\ running' = TRUE
               /\ sampler' = IF running THEN sampler ELSE [sampler EXCEPT !.at = "wait"]
<1> DEFINE pt == [req |-> IF buf = NoBuf THEN "stop" ELSE "none", finished |-> FALSE,
                  sample |-> "empty", session |-> buf]
<1>1. pt \in Tracker /\ pt.session = buf /\ ~pt.finished /\ pt.req # "sampleReady"
  BY DEF Types, Tracker
<1>2. /\ tr' = Append(tr, pt) /\ profTracker' = [profTracker EXCEPT ![v] = Len(tr')]
      /\ \/ buf = NoBuf /\ UNCHANGED <<trackers, running, sampler>>
         \/ /\ buf # NoBuf /\ trackers' = Append(trackers, Len(tr')) /\ running' = TRUE
            /\ sampler' = IF running THEN sampler ELSE [sampler EXCEPT !.at = "wait"]
  BY DEF registerVm
<1> HIDE DEF pt
<1>3. /\ tr' \in Seq(Tracker) /\ Len(tr') = Len(tr) + 1 /\ Len(tr') \in Nat
      /\ \A t \in 1..Len(tr) : tr'[t] = tr[t]
      /\ tr'[Len(tr')] = pt
  BY <1>1, <1>2, AppendProperties, LenProperties DEF Types
<1> QED BY <1>1, <1>2, <1>3 DEF Trackers

(* The call on top enters runWithProfiler.                                 *)
TracingCall(own) == Call(TRUE, own, FALSE, "top")
LEMMA EnterTracing ==
  ASSUME Types, Owned, NEW v \in VMs, At(v, FALSE, "register"), NEW n \in Nat \ {0},
         goto(v, TracingCall(profTracker[v] = None))
  PROVE  /\ stack' \in [VMs -> Seq(RunCall)] /\ \A w \in VMs \ {v} : stack'[w] = stack[w]
         /\ Traced(stack'[v], n)
<1> DEFINE own == (profTracker[v] = None)
<1>1. own \in BOOLEAN /\ TracingCall(own) \in RunCall /\ TracingCall(own).prof
      /\ (TracingCall(own).owner <=> own)
  BY DEF TracingCall, Call, RunCall
<1> HIDE DEF own
<1>2. stack[v] # <<>> /\ ~Top(v).prof /\ goto(v, TracingCall(own))
  BY DEF At, own
<1>3. /\ stack' \in [VMs -> Seq(RunCall)] /\ Len(stack'[v]) = Len(stack[v])
      /\ \A i \in 1..Len(stack[v]) :
           stack'[v][i] = IF i = Len(stack[v]) THEN TracingCall(own) ELSE stack[v][i]
      /\ \A w \in VMs \ {v} : stack'[w] = stack[w]
  BY <1>1, <1>2, GotoReplaces
<1>4. Len(stack[v]) \in Nat \ {0} /\ Top(v) = stack[v][Len(stack[v])]
  BY <1>2, TopIsCall
<1>5. /\ stack'[v][Len(stack[v])] = TracingCall(own)
      /\ \A i \in 1..(Len(stack[v]) - 1) : stack'[v][i] = stack[v][i]
  BY <1>3, <1>4
<1>6. Traced(stack[v], profTracker[v]) /\ n # None
  BY DEF Owned, None
<1>7. stack'[v][Len(stack[v])].owner <=> profTracker[v] = None
  BY <1>1, <1>5 DEF own
<1>8. stack'[v][Len(stack[v])].prof /\ ~stack[v][Len(stack[v])].prof
  BY <1>1, <1>2, <1>4, <1>5
<1>9. Traced(stack'[v], n)
  BY <1>3, <1>4, <1>5, <1>6, <1>7, <1>8, TracedEnters
<1> QED BY <1>3, <1>9

LEMMA RegisterStep ==
  ASSUME Inv, NEW v \in VMs, Register(v)
  PROVE  Inv'
<1>1. /\ At(v, FALSE, "register") /\ goto(v, TracingCall(profTracker[v] = None))
      /\ UNCHANGED <<enabled, buf, ctl, cleaners, interrupted>>
      /\ \/ profTracker[v] = None /\ registerVm(v)
         \/ profTracker[v] # None /\ UNCHANGED <<trackers, running, sampler, tr, profTracker>>
  BY DEF Register, TracingCall
<1>2. /\ tr \in Seq(Tracker) /\ trackers \in Seq(Nat) /\ profTracker \in [VMs -> Nat]
      /\ Len(tr) \in Nat /\ Len(trackers) \in Nat /\ sampler \in Scan /\ ctl \in Control
  BY LenProperties DEF Inv, Types
<1>3. CASE profTracker[v] # None /\ UNCHANGED <<trackers, running, sampler, tr, profTracker>>
  <2>1. profTracker[v] \in Nat \ {0}
    BY <1>2, <1>3 DEF None
  <2>2. /\ stack' \in [VMs -> Seq(RunCall)] /\ \A w \in VMs \ {v} : stack'[w] = stack[w]
        /\ Traced(stack'[v], profTracker[v])
    BY <1>1, <2>1, EnterTracing DEF Inv
  <2>3. Owned'
    BY <1>3, <2>2, OwnedKept DEF Inv
  <2>4. VmTypes /\ Kept /\ UNCHANGED others
    BY <1>1, <1>3, <2>2 DEF Inv, Types, VmTypes, Kept, KeptAt, others
  <2> QED BY <2>3, <2>4, VmStepInv
<1>4. CASE profTracker[v] = None /\ registerVm(v)
  <2> DEFINE n == Len(tr')
  <2>1. /\ tr' \in Seq(Tracker) /\ n = Len(tr) + 1 /\ n \in Nat
        /\ \A t \in Trackers : tr'[t] = tr[t]
        /\ tr'[n].session = buf /\ ~tr'[n].finished /\ tr'[n].req # "sampleReady"
        /\ profTracker' = [profTracker EXCEPT ![v] = n]
    BY <1>4, RegisterTypes DEF Inv
  <2>2. \/ buf = NoBuf /\ UNCHANGED <<trackers, running, sampler>>
        \/ /\ buf # NoBuf /\ trackers' = Append(trackers, n) /\ running' = TRUE
           /\ sampler' = IF running THEN sampler ELSE [sampler EXCEPT !.at = "wait"]
    BY <1>4, RegisterTypes DEF Inv
  <2>3. n \in Trackers' /\ n \notin Trackers /\ (\A t \in Trackers : t \in Trackers') /\ n \in Nat \ {0}
    BY <1>2, <2>1 DEF Trackers
  <2> HIDE DEF n
  <2>4. /\ Append(trackers, n) \in Seq(Nat) /\ Len(Append(trackers, n)) = Len(trackers) + 1
        /\ \A i \in 1..Len(trackers) : Append(trackers, n)[i] = trackers[i]
        /\ Append(trackers, n)[Len(trackers) + 1] = n
    BY <1>2, <2>1, AppendProperties
  <2>5. /\ stack' \in [VMs -> Seq(RunCall)] /\ \A w \in VMs \ {v} : stack'[w] = stack[w]
        /\ Traced(stack'[v], n)
    BY <1>1, <2>3, EnterTracing DEF Inv
  <2>6. profTracker' \in [VMs -> Nat] /\ profTracker'[v] = n
        /\ \A w \in VMs \ {v} : profTracker'[w] = profTracker[w]
    BY <1>2, <2>1
  <2>7. sampler.at \in {"off", "wait"}
    BY <1>4 DEF registerVm, muFree
  <2>8. sampler' \in Scan /\ sampler'.at \in {"off", "wait"} /\ running' \in BOOLEAN
        /\ (running' <=> sampler'.at # "off") /\ trackers' \in Seq(Nat)
        /\ (trackers' # <<>> => running')
    <3>1. running \in BOOLEAN /\ (running <=> sampler.at # "off") /\ (trackers # <<>> => running)
      BY DEF Inv, Types, Scanning
    <3>2. CASE UNCHANGED <<trackers, running, sampler>>
      BY <1>2, <2>7, <3>1, <3>2
    <3>3. CASE /\ trackers' = Append(trackers, n) /\ running' = TRUE
               /\ sampler' = IF running THEN sampler ELSE [sampler EXCEPT !.at = "wait"]
      <4>1. CASE running
        BY <1>2, <2>4, <2>7, <3>1, <3>3, <4>1
      <4>2. CASE ~running
        <5>1. sampler' \in Scan /\ sampler'.at = "wait"
          BY <1>2, <3>3, <4>2 DEF Scan
        <5> QED BY <2>4, <3>3, <5>1
      <4> QED BY <3>1, <4>1, <4>2
    <3> QED BY <2>2, <3>2, <3>3
  <2>9. Types'
    BY <1>1, <2>1, <2>5, <2>6, <2>8 DEF Inv, Types
  <2>10. \A t \in Trackers : t \in Trackers' /\ tr'[t] = tr[t]
    BY <2>1, <2>3
  <2>11. \A i \in 1..Len(trackers') :
           trackers'[i] = n \/ (i \in 1..Len(trackers) /\ trackers'[i] = trackers[i])
    <3>1. CASE trackers' = Append(trackers, n)
      <4> SUFFICES ASSUME NEW i \in 1..(Len(trackers) + 1)
                   PROVE  Append(trackers, n)[i] = n
                          \/ (i \in 1..Len(trackers) /\ Append(trackers, n)[i] = trackers[i])
        BY <2>4, <3>1
      <4>1. CASE i = Len(trackers) + 1
        BY <2>4, <4>1
      <4>2. CASE i # Len(trackers) + 1
        <5>1. i \in 1..Len(trackers)
          BY <1>2, <4>2
        <5> QED BY <2>4, <5>1
      <4> QED BY <4>1, <4>2
    <3> QED BY <2>2, <3>1
  <2>12. \A i \in 1..Len(trackers) : trackers[i] \in Trackers /\ tr[trackers[i]].session = buf
    BY DEF Inv, Listed, InSession
  <2>13. Listed'
    <3>1. InSession(trackers, buf)'
      BY <1>1, <2>1, <2>3, <2>10, <2>11, <2>12 DEF InSession
    <3>2. InSession(ctl.todo, ctl.session)' /\ InSession(ctl.kept, ctl.session)'
      BY <1>1, <2>10 DEF Inv, Listed, InSession
    <3>3. \A s \in Sessions : InSession(cleaners[s].todo, s)' /\ InSession(cleaners[s].kept, s)'
      BY <1>1, <2>10 DEF Inv, Listed, InSession
    <3> QED BY <3>1, <3>2, <3>3 DEF Listed
  <2>14. Phases'
    BY <1>1, <2>2 DEF Inv, Phases
  <2>15. \A i, j \in 1..Len(trackers') : trackers'[i] = trackers'[j] => i = j
    <3>1. \A i, j \in 1..Len(trackers) : trackers[i] = trackers[j] => i = j
      BY DEF Inv, Scanning
    <3>2. CASE trackers' = Append(trackers, n)
      <4>1. \A i \in 1..Len(trackers') : i \in 1..Len(trackers) \/ i = Len(trackers) + 1
        BY <1>2, <2>4, <3>2
      <4>2. \A i \in 1..Len(trackers) : trackers'[i] = trackers[i] /\ trackers'[i] # n
        BY <2>3, <2>4, <2>12, <3>2
      <4>3. trackers'[Len(trackers) + 1] = n
        BY <2>4, <3>2
      <4> QED BY <3>1, <4>1, <4>2, <4>3
    <3> QED BY <2>2, <3>1, <3>2
  <2>16. Scanning'
    BY <2>8, <2>15 DEF Scanning
  <2>17. Fresh'
    <3>1. \A i \in 1..Len(trackers) :
            tr[trackers[i]].req = "sampleReady" => tr[trackers[i]].sample = "fresh"
      BY DEF Inv, Fresh, FreshIn
    <3>2. FreshIn(trackers)'
      BY <2>1, <2>10, <2>11, <2>12, <3>1 DEF FreshIn
    <3>3. FreshIn(ctl.todo)'
      BY <1>1, <2>10 DEF Inv, Fresh, FreshIn, Listed, InSession
    <3>4. ctl.at = "loaded" => Head(ctl.todo) \in Trackers
      BY TailInSession DEF Inv, Types, Control, Phases, Listed
    <3> QED BY <1>1, <2>8, <2>10, <3>2, <3>3, <3>4 DEF Inv, Fresh
  <2>18. Owned'
    <3>1. \A w \in VMs : Traced(stack'[w], profTracker'[w])
      BY <2>5, <2>6 DEF Inv, Owned
    <3>2. ASSUME NEW w \in VMs, profTracker'[w] # None
          PROVE  profTracker'[w] \in Trackers' /\ ~tr'[profTracker'[w]].finished
                 /\ (w # v => profTracker'[w] # n)
      BY <2>1, <2>3, <2>6, <2>10, <3>2 DEF Inv, Owned
    <3>3. ASSUME NEW w \in VMs, NEW x \in VMs, profTracker'[w] = profTracker'[x], profTracker'[w] # None
          PROVE  w = x
      BY <2>6, <3>2, <3>3 DEF Inv, Owned
    <3> QED BY <3>1, <3>2, <3>3 DEF Owned
  <2> QED BY <2>9, <2>13, <2>14, <2>16, <2>17, <2>18 DEF Inv
<1> QED BY <1>1, <1>3, <1>4
-----------------------------------------------------------------------------
(* The theorems.                                                           *)

LEMMA InitInv == Init => Inv
<1> SUFFICES ASSUME Init PROVE Inv
  OBVIOUS
<1> USE DEF Init, None, NoBuf
<1>1. Types
  <2>1. <<>> \in Seq(Nat) /\ <<>> \in Seq(Tracker) /\ <<>> \in Seq(RunCall) /\ 0 \in 0..MaxSessions
    BY EmptySeq, ProfilerAssumption
  <2> QED BY <2>1 DEF Types, Scan, Control, Cleaner, Requests
<1>2. Listed
  BY DEF Listed, InSession
<1>3. Phases /\ Scanning /\ Fresh
  BY DEF Phases, Scanning, Fresh, FreshIn
<1>4. Owned
  BY DEF Owned, Traced
<1> QED BY <1>1, <1>2, <1>3, <1>4 DEF Inv

LEMMA NextInv == Inv /\ [Next]_vars => Inv'
<1> SUFFICES ASSUME Inv, [Next]_vars PROVE Inv'
  OBVIOUS
<1>1. ASSUME NEW v \in VMs, VmNext(v) PROVE Inv'
  <2>1. CASE Register(v)
    BY <2>1, RegisterStep
  <2>2. CASE ~Register(v)
    <3>1. VmTypes /\ Kept /\ Owned' /\ UNCHANGED others
      BY <1>1, <2>2, VmStep DEF VmNext, Inv
    <3> QED BY <3>1, VmStepInv
  <2> QED BY <2>1, <2>2
<1>2. CASE SamplerNext
  BY <1>2, TickStep, LoadStep, VisitStep DEF SamplerNext
<1>3. CASE ControlNext
  BY <1>3, StartStep, TakeStep, StopLoadStep, StopStoreStep, StopReturnsStep, CleanStep, PassStep
     DEF ControlNext
<1>4. CASE UNCHANGED vars
  BY <1>4 DEF vars, profVars, vmVars, Inv, Types, Listed, InSession, Phases, Scanning, Fresh,
              FreshIn, Owned, Trackers
<1> QED BY <1>1, <1>2, <1>3, <1>4 DEF Next

(* The invariant holds for any number of VMs, trackers, sessions and calls *)
(* of run() within one another.                                            *)
THEOREM ProfilerInvariant == Spec => []Inv
BY InitInv, NextInv, PTL DEF Spec

(* Whoever reads a sample, the sampler in run() or StopProfile in stop(),  *)
(* finds it complete and never counted before, though runWithProfiler      *)
(* writes it without a lock.                                               *)
THEOREM SamplesWholeHold == Spec => []SamplesWhole
<1>1. Inv => SamplesWhole
  <2> SUFFICES ASSUME Inv PROVE SamplesWhole
    OBVIOUS
  <2>1. ASSUME sampler.at = "loaded", sampler.req = "sampleReady" PROVE tr[sampler.t].sample = "fresh"
    <3>1. sampler.counter + 1 \in 1..Len(trackers) /\ sampler.t = trackers[sampler.counter + 1]
      BY <2>1, LenProperties DEF Inv, Scanning, Types, Scan
    <3> QED BY <2>1, <3>1 DEF Inv, Fresh, FreshIn
  <2>2. ASSUME ctl.at = "loaded", ctl.req = "sampleReady" PROVE tr[Head(ctl.todo)].sample = "fresh"
    <3>1. ctl.todo \in Seq(Nat) /\ ctl.todo # <<>>
      BY <2>2 DEF Inv, Types, Control, Phases
    <3>2. Head(ctl.todo) = ctl.todo[1] /\ 1 \in 1..Len(ctl.todo)
      BY <3>1, TailOf
    <3> QED BY <2>2, <3>2 DEF Inv, Fresh, FreshIn
  <2> QED BY <2>1, <2>2 DEF SamplesWhole
<1> QED BY <1>1, ProfilerInvariant, PTL

(* The pieces of TrackersExact that need more than the definitions.        *)
LEMMA InvTypeOK == Inv => TypeOK
<1> SUFFICES ASSUME Inv PROVE TypeOK
  OBVIOUS
<1>1. trackers \in Seq(Trackers)
  <2>1. trackers \in [1..Len(trackers) -> Nat] /\ Len(trackers) \in Nat
    BY LenProperties DEF Inv, Types
  <2>2. \A i \in 1..Len(trackers) : trackers[i] \in Trackers
    BY DEF Inv, Listed, InSession
  <2>3. trackers \in [1..Len(trackers) -> Trackers]
    BY <2>1, <2>2
  <2> QED BY <2>1, <2>3, SeqDef
<1>2. \A v \in VMs : profTracker[v] \in 0..Len(tr)
  <2>1. Len(tr) \in Nat
    BY LenProperties DEF Inv, Types
  <2> QED BY <2>1 DEF Inv, Types, Owned, Trackers, None
<1>3. sampler.at \in {"off", "wait", "scan", "loaded"} /\ sampler.left \in Nat
  BY DEF Inv, Types, Scan
<1> QED BY <1>1, <1>2, <1>3 DEF Inv, Types, TypeOK

LEMMA InvTrackerOwned == Inv => TrackerOwned
<1> SUFFICES ASSUME Inv, NEW v \in VMs
             PROVE  /\ Cardinality({i \in 1..Len(stack[v]) : stack[v][i].owner})
                         = IF profTracker[v] = None THEN 0 ELSE 1
                    /\ profTracker[v] # None => ~tr[profTracker[v]].finished
                    /\ \A i \in 1..Len(stack[v]) : stack[v][i].prof => profTracker[v] # None
  BY DEF TrackerOwned
<1> DEFINE own == {i \in 1..Len(stack[v]) : stack[v][i].owner}
<1>1. Traced(stack[v], profTracker[v])
  BY DEF Inv, Owned
<1>2. CASE profTracker[v] = None
  <2>1. own = {}
    BY <1>1, <1>2 DEF Traced
  <2> QED BY <1>1, <1>2, <2>1, FS_EmptySet DEF Traced
<1>3. CASE profTracker[v] # None
  <2>1. PICK i \in 1..Len(stack[v]) : Lowest(stack[v], i)
    BY <1>1, <1>3 DEF Traced
  <2>2. own = {i}
    BY <1>1, <2>1 DEF Traced, Lowest
  <2>3. Cardinality(own) = 1
    BY <2>2, FS_Singleton
  <2> QED BY <1>3, <2>3 DEF Inv, Owned
<1> QED BY <1>2, <1>3

(* Each tracker belongs to one session and to one call of its VM, from     *)
(* registerVm() until it is given up, no sample goes into the profile of   *)
(* another session, and there is one sampler as long as there are trackers *)
(* to be visited.                                                          *)
THEOREM TrackersExactHold == Spec => []TrackersExact
<1>1. Inv => SessionsApart /\ SamplerRuns
  BY DEF Inv, Listed, InSession, Scanning, SessionsApart, SamplerRuns
<1>2. Inv => TrackersExact
  BY <1>1, InvTypeOK, InvTrackerOwned DEF TrackersExact
<1> QED BY <1>2, ProfilerInvariant, PTL
=============================================================================
