------------------------------ MODULE EventLoop ------------------------------
(***************************************************************************)
(* The event loop of nodejs/eventloop/eventloop.go.  Goroutines that share *)
(* the EventLoop structure:                                                *)
(*   - the loop goroutine, which runs the callbacks (pc, executing, batch);*)
(*   - one goroutine per fired time.AfterFunc and one per Interval, which  *)
(*     rendezvous with the loop on the unbuffered jobChan (gor);           *)
(*   - clients that call SetTimeout, ClearTimeout, RunOnLoop ... (client); *)
(*   - the goroutine that starts and stops the loop (ctl).  The doc        *)
(*     comments forbid running Start/Run and Stop/Terminate concurrently,  *)
(*     so one control goroutine stands for all of them.                    *)
(* Terminate runs on the control goroutine but works on the loop's own     *)
(* state, after Stop has seen the loop goroutine leave: its steps use pc.  *)
(* A callback is a sequence of atomic calls into the loop, during which pc *)
(* stays where it was called from.                                         *)
(***************************************************************************)
EXTENDS Integers, Sequences, FiniteSets

CONSTANTS
  Timers,          \* handles of setTimeout()/SetTimeout()
  Intervals,       \* handles of setInterval()/SetInterval()
  Immediates,      \* handles of setImmediate()
  Clients,         \* goroutines other than the loop that submit work
  NoJob,           \* stands for a plain function given to RunOnLoop()/Run()
  MaxAux,          \* bound: length of auxJobs at which submissions stop
  MaxBcast,        \* bound: Broadcast() calls that may be late at once
  AllowTerminate,  \* whether the control goroutine may call Terminate()
  AllowPanic       \* whether a callback may panic (and the caller recover)

Delayed == Timers \cup Intervals
Jobs == Delayed \cup Immediates

ASSUME EventLoopAssumption ==
  /\ Timers \cap Intervals = {} /\ Delayed \cap Immediates = {}
  /\ IsFiniteSet(Jobs) /\ NoJob \notin Jobs
  /\ MaxAux \in Nat /\ MaxBcast \in Nat
  /\ AllowTerminate \in BOOLEAN /\ AllowPanic \in BOOLEAN

VARIABLES
  running, canRun, terminated,  \* the flags of the same names
  wakeupChan,   \* TRUE: the one-slot channel holds a token
  auxJobs,      \* functions submitted and not yet picked up
  batch,        \* what is left of the slice runAux is executing
  jobs, idx,    \* the job table, and job.idx (0-based, -1: removed)
  cancelled,    \* job.cancelled
  gor,          \* state of the job's timer, ticker goroutine or closure
  jobCount,
  counted,      \* history: jobs whose jobCount++ has no jobCount-- yet
  abandoned,    \* history: of those, the jobs Terminate has cancelled
  inBackground, \* the argument of run()
  pc,           \* control of the loop goroutine, or of Terminate
  executing,    \* <<j>> while the callback of j runs, <<>> otherwise
  ctl, inTerm,  \* control of the control goroutine; inside Terminate?
  ti,           \* Terminate's loop variable i
  bcast,        \* run() calls that have not reached Broadcast() yet
  client        \* what each client goroutine does next

flags == <<running, canRun, terminated>>
count == <<jobCount, counted>>
table == <<jobs, idx, cancelled, gor>>
queue == <<auxJobs, batch>>
control == <<ctl, inTerm, ti, bcast, inBackground, abandoned>>
local == <<client, wakeupChan>>
vars == <<flags, count, table, queue, control, local, pc, executing>>

Pending == [op : {"start", "clear"}, job : Delayed]
             \cup [op : {"immediate"}, job : Immediates]
             \cup [op : {"fn"}, job : {NoJob}]

TermPcs == {"tBegin", "tAux", "tCancel", "tDrain"}

(* NewEventLoop.  idx starts as Go's zero value, which is a legal index.   *)
Init ==
  /\ running = FALSE /\ canRun = FALSE /\ terminated = FALSE
  /\ wakeupChan = FALSE /\ auxJobs = <<>> /\ batch = <<>>
  /\ jobs = <<>> /\ idx = [j \in Jobs |-> 0]
  /\ cancelled = [j \in Jobs |-> FALSE]
  /\ gor = [j \in Jobs |-> "unused"]
  /\ jobCount = 0 /\ counted = {} /\ abandoned = {}
  /\ inBackground = FALSE /\ pc = "stopped" /\ executing = <<>>
  /\ ctl = "idle" /\ inTerm = FALSE /\ ti = 0 /\ bcast = 0
  /\ client = [c \in Clients |-> "idle"]

-----------------------------------------------------------------------------
(* Helpers shared by the handlers.                                         *)

(* Definitions named Bug_... are slips that the properties below must      *)
(* catch; the specification does not use them.                             *)
Bug_removeJob_keepsIdx(j) ==
  /\ jobs' = SubSeq([jobs EXCEPT ![idx[j] + 1] = jobs[Len(jobs)]], 1, Len(jobs) - 1)
  /\ idx' = [idx EXCEPT ![j] = -1]

(* Overwrite the entry with the last one and shorten the table.            *)
removeJob(j) ==
  LET n == Len(jobs)
      last == jobs[n]
  IN IF idx[j] < 0
     THEN UNCHANGED <<jobs, idx>>
     ELSE /\ jobs' = SubSeq([jobs EXCEPT ![idx[j] + 1] = last], 1, n - 1)
          /\ idx' = [idx EXCEPT ![last] = idx[j], ![j] = -1]

(* jobCount++, and jobCount--, which for an interval that is cleared while *)
(* its start is in the queue comes first.                                  *)
countIn(j) ==
  /\ jobCount' = jobCount + 1
  /\ counted' = IF cancelled[j] THEN counted ELSE counted \cup {j}
countOut(j) == jobCount' = jobCount - 1 /\ counted' = counted \ {j}

(* schedule(), and the closures of SetTimeout and SetInterval: arm the     *)
(* timer or start the ticker's goroutine, count it, append it.             *)
start(j) ==
  /\ gor' = [gor EXCEPT ![j] = IF j \in Timers THEN "armed" ELSE "ticking"]
  /\ countIn(j)
  /\ idx' = [idx EXCEPT ![j] = Len(jobs)]
  /\ jobs' = Append(jobs, j)
  /\ UNCHANGED cancelled

(* doCancel: time.Timer.Stop reports whether it stopped the timer before   *)
(* it fired; an interval's goroutine sees stopChan closed (cancelled) and  *)
(* asks for its own removal.                                               *)
doCancel(j) ==
  IF j \in Timers /\ gor[j] = "armed"
  THEN gor' = [gor EXCEPT ![j] = "done"] /\ removeJob(j)
  ELSE UNCHANGED <<gor, jobs, idx>>

(* cancelled = true; jobCount-- unless the job was cancelled before.       *)
settle(j) ==
  IF cancelled[j]
  THEN UNCHANGED <<cancelled, count>>
  ELSE cancelled' = [cancelled EXCEPT ![j] = TRUE] /\ countOut(j)

Bug_clear_keepsCount(j) ==
  /\ cancelled' = [cancelled EXCEPT ![j] = TRUE] /\ UNCHANGED count
  /\ IF cancelled[j] THEN UNCHANGED <<gor, jobs, idx>> ELSE doCancel(j)

(* clearTimeout and clearInterval.                                         *)
clear(j) ==
  /\ settle(j)
  /\ IF cancelled[j] THEN UNCHANGED <<gor, jobs, idx>> ELSE doCancel(j)

(* The callback of a job that is not cancelled.                            *)
call(j) == executing' = IF cancelled[j] THEN <<>> ELSE <<j>>

(* addAuxJob up to the unlock; after Terminate it only returns false.      *)
addAuxJob(op, j) ==
  /\ ~terminated
  /\ Len(auxJobs) < MaxAux
  /\ auxJobs' = Append(auxJobs, [op |-> op, job |-> j])

-----------------------------------------------------------------------------
(* Client goroutines append under auxJobsLock and wake the loop in a       *)
(* second step.                                                            *)

(* SetTimeout, SetInterval: hand out a fresh handle.                       *)
SetDelayed(j) ==
  /\ gor[j] = "unused"
  /\ addAuxJob("start", j)
  /\ gor' = [gor EXCEPT ![j] = "queued"]

(* ClearTimeout, ClearInterval: take a handle that was handed out.         *)
ClearDelayed(j) == gor[j] # "unused" /\ addAuxJob("clear", j) /\ UNCHANGED gor

RunOnLoop == addAuxJob("fn", NoJob) /\ UNCHANGED gor

submission == RunOnLoop \/ \E j \in Delayed : SetDelayed(j) \/ ClearDelayed(j)

Submit(c) ==
  /\ client[c] = "idle"
  /\ submission
  /\ client' = [client EXCEPT ![c] = "wakeup"]
  /\ UNCHANGED <<flags, count, jobs, idx, cancelled, batch, control,
                 wakeupChan, pc, executing>>

(* wakeup(): a send that is dropped when the slot is taken.                *)
Wakeup(c) ==
  /\ client[c] = "wakeup"
  /\ client' = [client EXCEPT ![c] = "idle"]
  /\ wakeupChan' = TRUE
  /\ UNCHANGED <<flags, count, table, queue, control, pc, executing>>

(* StopNoWait, from any goroutine; without effect on a stopped loop.       *)
StopNoWait ==
  /\ running
  /\ canRun' = FALSE /\ wakeupChan' = TRUE
  /\ UNCHANGED <<running, terminated, count, table, queue, control, client,
                 pc, executing>>

-----------------------------------------------------------------------------
(* Timer and ticker goroutines up to their send on jobChan.                *)

gorStep(j, from, to) ==
  /\ gor[j] = from /\ gor' = [gor EXCEPT ![j] = to]
  /\ UNCHANGED <<flags, count, jobs, idx, cancelled, queue, control, local,
                 pc, executing>>

TimerFires(t) == gorStep(t, "armed", "sending")

(* Interval.run: select may take a tick even though stopChan is closed.    *)
IntervalTicks(i) == gorStep(i, "ticking", "sending")
IntervalStops(i) == cancelled[i] /\ gorStep(i, "ticking", "removing")

-----------------------------------------------------------------------------
(* The loop goroutine.                                                     *)

(* setRunning; its "already started" panic changes nothing.                *)
setRunning ==
  /\ ~running /\ pc = "stopped" /\ ctl = "idle" /\ bcast < MaxBcast
  /\ running' = TRUE /\ canRun' = TRUE /\ terminated' = FALSE
  /\ pc' = "begin"
  /\ UNCHANGED <<count, table, queue, ctl, inTerm, ti, bcast, abandoned, local>>

(* Start and StartInForeground.                                            *)
Start == setRunning /\ inBackground' = TRUE /\ UNCHANGED executing

(* Run: fn(loop.vm) is user code, executed before run(false).              *)
Run == setRunning /\ inBackground' = FALSE /\ executing' = <<NoJob>>

(* runAux: swap the slices under auxJobsLock ...                           *)
takeAux(next) ==
  /\ batch' = auxJobs /\ auxJobs' = <<>>
  /\ pc' = next
  /\ UNCHANGED <<flags, count, table, control, client, executing>>

BeginRun == pc = "begin" /\ executing = <<>> /\ takeAux("aux0") /\ UNCHANGED wakeupChan

(* ... and execute the functions one by one.                               *)
execAux(op, j) ==
  \/ op = "fn" /\ executing' = <<NoJob>> /\ UNCHANGED <<table, count>>
  \/ op = "start" /\ start(j) /\ UNCHANGED executing
  \/ op = "clear" /\ clear(j) /\ UNCHANGED executing
  \/ /\ op = "immediate" /\ settle(j) /\ call(j)
     /\ gor' = [gor EXCEPT ![j] = "done"]
     /\ UNCHANGED <<jobs, idx>>

AuxStep ==
  /\ pc \in {"aux0", "aux", "tAux"} /\ executing = <<>> /\ batch # <<>>
  /\ batch' = Tail(batch)
  /\ execAux(Head(batch).op, Head(batch).job)
  /\ UNCHANGED <<flags, auxJobs, control, local, pc>>

auxDone(from) == pc = from /\ executing = <<>> /\ batch = <<>>

(* The first runAux of run() is done: count the background loop itself.    *)
EnterLoop ==
  /\ auxDone("aux0")
  /\ jobCount' = jobCount + (IF inBackground THEN 1 ELSE 0)
  /\ pc' = "loop"
  /\ UNCHANGED <<flags, counted, table, queue, control, local, executing>>

(* The select of run(), and the receive of Terminate's last loop.          *)
receiving ==
  /\ executing = <<>>
  /\ (pc = "loop" /\ jobCount > 0) \/ (pc = "tDrain" /\ jobs # <<>>)

received(j, from, to) ==
  /\ receiving /\ gor[j] = from /\ gor' = [gor EXCEPT ![j] = to]
  /\ UNCHANGED <<flags, queue, control, local, pc>>

Bug_ReceiveTimeout_unchecked(t) ==
  received(t, "sending", "done") /\ removeJob(t) /\ settle(t) /\ executing' = <<t>>

(* doTimeout.                                                              *)
ReceiveTimeout(t) ==
  received(t, "sending", "done") /\ removeJob(t) /\ settle(t) /\ call(t)

(* doInterval.                                                             *)
ReceiveTick(i) ==
  /\ received(i, "sending", "ticking") /\ call(i)
  /\ UNCHANGED <<count, jobs, idx, cancelled>>

ReceiveRemoval(i) ==
  /\ received(i, "removing", "done") /\ removeJob(i)
  /\ UNCHANGED <<count, cancelled, executing>>

ReceiveWakeup ==
  /\ pc = "loop" /\ executing = <<>> /\ jobCount > 0
  /\ wakeupChan /\ wakeupChan' = FALSE
  /\ takeAux("aux")

Bug_CheckCanRun_drains ==
  /\ auxDone("aux")
  /\ pc' = IF canRun THEN "loop" ELSE "exit"
  /\ wakeupChan' = FALSE
  /\ UNCHANGED <<flags, count, table, queue, control, client, executing>>

(* The canRun test after runAux.                                           *)
CheckCanRun ==
  /\ auxDone("aux")
  /\ pc' = IF canRun THEN "loop" ELSE "exit"
  /\ UNCHANGED <<flags, count, table, queue, control, local, executing>>

leaveLoop(delta, wakes) ==
  /\ executing = <<>>
  /\ pc = "exit" \/ (pc = "loop" /\ jobCount <= 0)
  /\ jobCount' = jobCount - delta
  /\ running' = FALSE /\ pc' = "stopped" /\ bcast' = bcast + wakes
  /\ UNCHANGED <<canRun, terminated, counted, table, queue, ctl, inTerm, ti,
                 inBackground, abandoned, local, executing>>

Bug_LeaveLoop_noBroadcast == leaveLoop(IF inBackground THEN 1 ELSE 0, 0)

(* The end of run(): jobCount is restored and running cleared under        *)
(* stopLock; Broadcast() follows after the unlock.                         *)
LeaveLoop == leaveLoop(IF inBackground THEN 1 ELSE 0, 1)

Broadcast ==
  /\ bcast > 0 /\ bcast' = bcast - 1
  /\ ctl' = IF ctl = "waiting" THEN "stop" ELSE ctl
  /\ UNCHANGED <<flags, count, table, queue, inTerm, ti, inBackground, abandoned,
                 local, pc, executing>>

-----------------------------------------------------------------------------
(* Calls a callback makes on the loop goroutine.                           *)

inCallback == executing # <<>> /\ UNCHANGED <<flags, control, client, batch, pc>>

(* setTimeout() and setInterval() of the script.                           *)
CbSchedule(j) ==
  /\ inCallback /\ gor[j] = "unused"
  /\ start(j)
  /\ UNCHANGED <<auxJobs, wakeupChan, executing>>

Bug_CbSetImmediate_inTable(m) ==
  /\ inCallback /\ gor[m] = "unused"
  /\ addAuxJob("immediate", m) /\ wakeupChan' = TRUE
  /\ start(m) /\ UNCHANGED executing

(* setImmediate(): counted first, whether or not addAuxJob accepts it.     *)
CbSetImmediate(m) ==
  /\ inCallback /\ gor[m] = "unused"
  /\ countIn(m)
  /\ \/ /\ addAuxJob("immediate", m) /\ wakeupChan' = TRUE
        /\ gor' = [gor EXCEPT ![m] = "queued"]
     \/ /\ terminated /\ UNCHANGED <<auxJobs, wakeupChan>>
        /\ gor' = [gor EXCEPT ![m] = "done"]
  /\ UNCHANGED <<jobs, idx, cancelled, executing>>

(* clearTimeout(), clearInterval() of the script, on a handle of its own   *)
(* or one of the Go API that was handed to it; ...                         *)
CbClear(j) ==
  /\ inCallback /\ gor[j] # "unused" /\ ~(j \in Timers /\ gor[j] = "queued")
  /\ clear(j)
  /\ UNCHANGED <<auxJobs, wakeupChan, executing>>

(* A Go panic unwinds Run or StartInForeground and is recovered by the     *)
(* caller: the rest of runAux and run is skipped.                          *)
unwinds ==
  /\ AllowPanic /\ executing # <<>> /\ pc \notin TermPcs
  /\ pc' = "stopped" /\ executing' = <<>> /\ batch' = <<>>
  /\ UNCHANGED <<flags, jobs, idx, gor, auxJobs, control, local>>

(* ... a Timer whose start is still in the queue has no time.Timer yet to  *)
(* stop: the call panics when it has uncounted it.                         *)
CbClearPanics(t) == gor[t] = "queued" /\ unwinds /\ settle(t)

CbClearImmediate(m) ==
  /\ inCallback /\ gor[m] # "unused"
  /\ settle(m)
  /\ UNCHANGED <<jobs, idx, gor, auxJobs, wakeupChan, executing>>

(* The Go API called from a callback: append and wakeup on the one         *)
(* goroutine that could receive the token.                                 *)
CbSubmit ==
  /\ inCallback /\ submission /\ wakeupChan' = TRUE
  /\ UNCHANGED <<count, jobs, idx, cancelled, executing>>

CallbackReturn ==
  /\ inCallback /\ executing' = <<>>
  /\ UNCHANGED <<count, table, auxJobs, wakeupChan>>

CallbackPanic == unwinds /\ UNCHANGED <<cancelled, count>>

-----------------------------------------------------------------------------
(* The control goroutine.                                                  *)

controlStep(from, to) ==
  /\ ctl = from /\ ctl' = to
  /\ UNCHANGED <<running, count, table, queue, ti, bcast, inBackground,
                 abandoned, client, executing>>

CallStop ==
  controlStep("idle", "stop") /\ UNCHANGED <<flags, inTerm, wakeupChan, pc>>

CallTerminate ==
  /\ AllowTerminate
  /\ controlStep("idle", "stop") /\ inTerm' = TRUE
  /\ UNCHANGED <<flags, wakeupChan, pc>>

Bug_StopWaits_silent ==
  /\ running
  /\ controlStep("stop", "waiting")
  /\ canRun' = FALSE
  /\ UNCHANGED <<terminated, inTerm, wakeupChan, pc>>

(* One turn of Stop's loop: stopCond.Wait releases stopLock atomically.    *)
StopWaits ==
  /\ running
  /\ controlStep("stop", "waiting")
  /\ canRun' = FALSE /\ wakeupChan' = TRUE
  /\ UNCHANGED <<terminated, inTerm, pc>>

StopReturns ==
  /\ ~running /\ ~inTerm
  /\ controlStep("stop", "idle")
  /\ UNCHANGED <<flags, inTerm, wakeupChan, pc>>

(* Terminate after its Stop(): refuse new work, ...                        *)
TermBegin ==
  /\ ~running /\ inTerm
  /\ controlStep("stop", "terminating")
  /\ terminated' = TRUE /\ pc' = "tBegin"
  /\ UNCHANGED <<canRun, inTerm, wakeupChan>>

(* ... run what was accepted, ...                                          *)
TermRunAux == pc = "tBegin" /\ takeAux("tAux") /\ UNCHANGED wakeupChan

TermAuxDone ==
  /\ auxDone("tAux") /\ pc' = "tCancel"
  /\ UNCHANGED <<flags, count, table, queue, control, local, executing>>

(* ... cancel the jobs one by one (jobCount is not touched), ...           *)
TermCancel ==
  /\ pc = "tCancel" /\ ti < Len(jobs)
  /\ LET j == jobs[ti + 1]
     IN /\ cancelled' = [cancelled EXCEPT ![j] = TRUE]
        /\ abandoned' = IF cancelled[j] THEN abandoned ELSE abandoned \cup {j}
        /\ IF cancelled[j] THEN UNCHANGED <<gor, jobs, idx>> ELSE doCancel(j)
  /\ ti' = IF jobs' = jobs THEN ti + 1 ELSE ti
  /\ UNCHANGED <<flags, count, queue, ctl, inTerm, bcast, inBackground, local,
                 pc, executing>>

TermCancelDone ==
  /\ pc = "tCancel" /\ ti >= Len(jobs)
  /\ pc' = "tDrain" /\ ti' = 0
  /\ UNCHANGED <<flags, count, table, queue, ctl, inTerm, bcast, inBackground,
                 abandoned, local, executing>>

(* ... and receive from the goroutines that are still there.               *)
TermReturns ==
  /\ pc = "tDrain" /\ jobs = <<>> /\ executing = <<>>
  /\ controlStep("terminating", "idle")
  /\ pc' = "stopped" /\ inTerm' = FALSE
  /\ UNCHANGED <<flags, wakeupChan>>

-----------------------------------------------------------------------------
ControlNext ==
  \/ Start \/ Run
  \/ CallStop \/ CallTerminate \/ StopWaits \/ StopReturns
  \/ TermBegin \/ TermRunAux \/ TermAuxDone \/ TermCancel \/ TermCancelDone
  \/ TermReturns

LoopNext ==
  \/ BeginRun \/ AuxStep \/ EnterLoop \/ ReceiveWakeup \/ CheckCanRun
  \/ LeaveLoop \/ Broadcast
  \/ \E t \in Timers : ReceiveTimeout(t)
  \/ \E i \in Intervals : ReceiveTick(i) \/ ReceiveRemoval(i)

CallbackNext ==
  \/ \E j \in Delayed : CbSchedule(j) \/ CbClear(j)
  \/ \E m \in Immediates : CbSetImmediate(m) \/ CbClearImmediate(m)
  \/ \E t \in Timers : CbClearPanics(t)
  \/ CbSubmit \/ CallbackReturn \/ CallbackPanic

EnvNext ==
  \/ \E t \in Timers : TimerFires(t)
  \/ \E i \in Intervals : IntervalTicks(i) \/ IntervalStops(i)
  \/ \E c \in Clients : Submit(c) \/ Wakeup(c)
  \/ StopNoWait

Next == ControlNext \/ LoopNext \/ CallbackNext \/ EnvNext

Spec == Init /\ [][Next]_vars

(***************************************************************************)
(* Fairness.  Goroutines that can step do step, callbacks return and time  *)
(* passes (WF).  A Go select with several ready cases picks one at random, *)
(* so no case is passed over forever: the cases of the two selects, and    *)
(* the senders queued on jobChan, get SF.  Nothing obliges clients or the  *)
(* control goroutine to make further calls.                                *)
(***************************************************************************)
Fairness ==
  /\ WF_vars(BeginRun) /\ WF_vars(AuxStep) /\ WF_vars(EnterLoop)
  /\ WF_vars(CheckCanRun) /\ WF_vars(LeaveLoop) /\ WF_vars(Broadcast)
  /\ WF_vars(CallbackReturn)
  /\ SF_vars(ReceiveWakeup)
  /\ \A t \in Timers : WF_vars(TimerFires(t)) /\ SF_vars(ReceiveTimeout(t))
  /\ \A i \in Intervals :
       /\ SF_vars(IntervalStops(i))
       /\ SF_vars(ReceiveTick(i)) /\ SF_vars(ReceiveRemoval(i))
  /\ \A c \in Clients : WF_vars(Wakeup(c))
  /\ WF_vars(StopWaits) /\ WF_vars(StopReturns) /\ WF_vars(TermBegin)
  /\ WF_vars(TermRunAux) /\ WF_vars(TermAuxDone) /\ WF_vars(TermCancel)
  /\ WF_vars(TermCancelDone) /\ WF_vars(TermReturns)

FairSpec == Spec /\ Fairness

-----------------------------------------------------------------------------
(* Safety.                                                                 *)

GorStates == {"unused", "queued", "armed", "ticking", "sending", "removing",
              "done"}
LoopPcs == {"stopped", "begin", "aux0", "loop", "aux", "exit"} \cup TermPcs

(* Every variable has the type its Go declaration gives it.                *)
TypeOK ==
  /\ running \in BOOLEAN /\ canRun \in BOOLEAN /\ terminated \in BOOLEAN
  /\ wakeupChan \in BOOLEAN
  /\ auxJobs \in Seq(Pending) /\ batch \in Seq(Pending)
  /\ jobs \in Seq(Delayed)
  /\ idx \in [Jobs -> Int]
  /\ jobCount \in Int
  /\ cancelled \in [Jobs -> BOOLEAN]
  /\ gor \in [Jobs -> GorStates]
  /\ counted \in SUBSET Jobs /\ abandoned \in SUBSET Jobs
  /\ inBackground \in BOOLEAN
  /\ pc \in LoopPcs
  /\ executing \in {<<>>} \cup {<<j>> : j \in Jobs \cup {NoJob}}
  /\ ctl \in {"idle", "stop", "waiting", "terminating"}
  /\ inTerm \in BOOLEAN /\ ti \in Nat /\ bcast \in Nat
  /\ client \in [Clients -> {"idle", "wakeup"}]

Active(j) == gor[j] \in {"armed", "ticking", "sending", "removing"}

(* The job table holds exactly the timers and intervals that still own a   *)
(* runtime timer or a goroutine, each at the position its idx says:        *)
(* removeJob's swap never removes the wrong entry or leaves a hole, and    *)
(* Terminate's drain waits for nobody who will not send.                   *)
TableExact ==
  /\ \A n \in 1..Len(jobs) : Active(jobs[n]) /\ idx[jobs[n]] = n - 1
  /\ \A j \in Delayed :
       Active(j) => idx[j] + 1 \in 1..Len(jobs) /\ jobs[idx[j] + 1] = j

(* jobCount is the number of jobs counted in and not counted out, plus one *)
(* while a background loop runs, less the intervals a script has cleared   *)
(* before their start was executed; it is what run() and Stop() act on.    *)
(* (Not after a panic has unwound run(), which then leaves running set.)   *)
Unwound == running /\ pc = "stopped"
Owed == {i \in Intervals : gor[i] = "queued" /\ cancelled[i]}
CountExact ==
  ~Unwound => jobCount = Cardinality(counted) - Cardinality(Owed)
               + (IF pc \in {"loop", "aux", "exit"} /\ inBackground THEN 1 ELSE 0)

(* Run() returns neither while a timer is armed or a callback is owed nor  *)
(* later: the jobs counted are exactly those that were started and are not *)
(* cancelled, and those that Terminate has cancelled, which stay counted.  *)
(* (An immediate starts with setImmediate, also when addAuxJob refuses it  *)
(* after Terminate or a panic takes it away with its batch.)               *)
CountedExact ==
  \A j \in Jobs :
    j \in counted <=>
      \/ ~cancelled[j] /\ (Active(j) \/ (j \in Immediates /\ gor[j] # "unused"))
      \/ j \in abandoned

(* No lost wakeup: a loop that can block in select with work in auxJobs    *)
(* has a token waiting, or the submitter has yet to send it.               *)
NoLostWakeup ==
  pc = "loop" /\ executing = <<>> /\ auxJobs # <<>>
    => wakeupChan \/ \E c \in Clients : client[c] = "wakeup"

(* No lost stop: a loop told to stop that has yet to reach its canRun test *)
(* finds a token that leads it there.                                      *)
NoLostStop ==
  running /\ ~canRun /\ pc \in {"begin", "aux0", "loop"} => wakeupChan

(* Stop() is never left waiting on a loop that has already said goodbye.   *)
WaiterHasWaker ==
  ctl = "waiting" => (running /\ ~canRun) \/ bcast > 0

(* "After this function returns there will be no more jobs executed by the *)
(* loop": user code runs while the loop is running, or in Terminate.       *)
CallbackContext ==
  executing # <<>> => running \/ (pc = "tAux" /\ ctl = "terminating")

(* "After it returns there are no active timers or goroutines associated   *)
(* with the loop", and nothing it accepted is left unexecuted.             *)
TerminatedClean ==
  terminated /\ ctl = "idle"
    => /\ \A j \in Jobs : ~Active(j)
       /\ auxJobs = <<>> /\ batch = <<>>

(* The loop's books agree with what its goroutines will do, in run(), in   *)
(* Terminate and after a panic: table, counter and callbacks.              *)
JobsAccounted ==
  TableExact /\ CountExact /\ CountedExact /\ CallbackContext /\ TerminatedClean

(* Whoever blocks, the loop in select or Stop() on stopCond, has somebody  *)
(* who will wake it (wakeup, Stop, the end of run()).                      *)
HandshakesKept == NoLostWakeup /\ NoLostStop /\ WaiterHasWaker

(* When Run() returns on its own (no Stop), no timeout it accepted is left *)
(* behind in the queue.                                                    *)
RunLeavesNothing ==
  ~running /\ canRun => \A j \in Jobs : gor[j] # "queued"

-----------------------------------------------------------------------------
(* What the loop promises about each job.  A job is over when a clear, its *)
(* only run or Terminate has set cancelled.                                *)
Life == [j \in Jobs |-> IF cancelled[j] THEN "over"
                        ELSE IF gor[j] = "unused" THEN "idle" ELSE "scheduled"]

Contract == INSTANCE LoopContract WITH
  Jobs <- Jobs, Repeating <- Intervals, Function <- NoJob,
  life <- Life, executing <- executing

(* Callbacks are serialised; a timeout or immediate runs at most once; no  *)
(* callback starts after its job was cleared.                              *)
ContractHolds == Contract!Spec

-----------------------------------------------------------------------------
(* Liveness.                                                               *)

(* Stop() and Terminate() return.                                          *)
ControlReturns == (ctl # "idle") ~> (ctl = "idle")

(* What a client submits to a background loop is picked up, unless the     *)
(* loop is stopped.                                                        *)
SubmittedPickedUp ==
  (running /\ inBackground /\ auxJobs # <<>>) ~> (auxJobs = <<>> \/ ~running)

(* A timeout armed in a background loop is delivered or cleared, unless    *)
(* the loop is stopped.                                                    *)
TimeoutsDelivered ==
  \A t \in Timers :
    (running /\ inBackground /\ gor[t] = "armed") ~> (gor[t] = "done" \/ ~running)

(* What a background loop has accepted it delivers.                        *)
WorkDelivered == SubmittedPickedUp /\ TimeoutsDelivered

(* Run() "waits until there are no more delayed jobs to run after which it *)
(* stops the loop and returns".                                            *)
Waiting(j) == (Active(j) /\ ~cancelled[j]) \/ gor[j] = "queued"
RunReturns ==
  (running /\ ~inBackground /\ \A j \in Jobs : ~Waiting(j))
    ~> (~running \/ \E j \in Jobs : Waiting(j))

(* Run() returns as its comment says as long as Terminate, which leaves    *)
(* what it cancels counted, is not called: no clear and no delivery leaves *)
(* a job counted that is over.                                             *)
RunEnds == [](ctl # "terminating") => RunReturns
=============================================================================
