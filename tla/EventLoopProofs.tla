--------------------------- MODULE EventLoopProofs ---------------------------
(***************************************************************************)
(* Proofs about EventLoop, for any sets of jobs and clients and any bounds.*)
(***************************************************************************)
EXTENDS EventLoop, SequenceTheorems, FiniteSetTheorems, TLAPS

-----------------------------------------------------------------------------
(* Types of the helpers.                                                   *)

(* Shortening a table by its last entry keeps its type, also when it is    *)
(* already empty.                                                          *)
LEMMA ShortenType ==
  ASSUME NEW S, NEW s \in Seq(S), NEW k
  PROVE  SubSeq([s EXCEPT ![k] = s[Len(s)]], 1, Len(s) - 1) \in Seq(S)
<1> DEFINE t == [s EXCEPT ![k] = s[Len(s)]]
<1>1. Len(s) \in Nat /\ DOMAIN s = 1..Len(s)
  BY LenProperties
<1>2. \A i \in 1..Len(s) : s[i] \in S
  BY ElementOfSeq
<1>3. \A i \in 1..(Len(s) - 1) : t[i] \in S
  BY <1>1, <1>2
<1> HIDE DEF t
<1>4. SubSeq(t, 1, Len(s) - 1) \in Seq(S)
  BY <1>1, <1>3, SubSeqProperties
<1> QED BY <1>4 DEF t

(* removeJob shortens the job table and keeps an index for every job.      *)
LEMMA RemoveJobType ==
  ASSUME jobs \in Seq(Delayed), idx \in [Jobs -> Int], NEW j \in Jobs,
         removeJob(j)
  PROVE  jobs' \in Seq(Delayed) /\ idx' \in [Jobs -> Int]
<1>1. CASE idx[j] < 0
  BY <1>1 DEF removeJob
<1>2. CASE ~(idx[j] < 0)
  <2>1. jobs' \in Seq(Delayed)
    BY <1>2, ShortenType DEF removeJob
  <2>2. idx' = [idx EXCEPT ![jobs[Len(jobs)]] = idx[j], ![j] = -1]
    BY <1>2 DEF removeJob
  <2>3. idx' \in [Jobs -> Int]
    BY <2>2
  <2> QED BY <2>1, <2>3
<1> QED BY <1>1, <1>2

(* Arming or starting a job keeps the types of the table and the count.    *)
LEMMA StartType ==
  ASSUME TypeOK, NEW j \in Delayed, start(j)
  PROVE  /\ jobs' \in Seq(Delayed) /\ idx' \in [Jobs -> Int]
         /\ cancelled' \in [Jobs -> BOOLEAN] /\ gor' \in [Jobs -> GorStates]
         /\ jobCount' \in Int /\ counted' \in SUBSET Jobs
<1>1. j \in Jobs BY DEF Jobs
<1>2. jobs' \in Seq(Delayed)
  BY AppendProperties DEF TypeOK, start
<1>3. Len(jobs) \in Int
  BY LenProperties DEF TypeOK
<1> QED BY <1>1, <1>2, <1>3 DEF TypeOK, start, countIn, GorStates

(* settle() cancels a job and uncounts it at most once.                    *)
LEMMA SettleType ==
  ASSUME TypeOK, NEW j \in Jobs, settle(j)
  PROVE  /\ cancelled' \in [Jobs -> BOOLEAN]
         /\ jobCount' \in Int /\ counted' \in SUBSET Jobs
<1>1. CASE cancelled[j]
  BY <1>1 DEF TypeOK, settle, count
<1>2. CASE ~cancelled[j]
  <2>1. cancelled' = [cancelled EXCEPT ![j] = TRUE] /\ countOut(j)
    BY <1>2 DEF settle
  <2>2. cancelled' \in [Jobs -> BOOLEAN]
    BY <2>1 DEF TypeOK
  <2>3. jobCount' \in Int /\ counted' \in SUBSET Jobs
    BY <2>1 DEF TypeOK, countOut
  <2> QED BY <2>2, <2>3
<1> QED BY <1>1, <1>2

(* Cancelling stops an armed timer and takes it out of the table.          *)
LEMMA DoCancelType ==
  ASSUME TypeOK, NEW j \in Jobs, doCancel(j)
  PROVE  /\ jobs' \in Seq(Delayed) /\ idx' \in [Jobs -> Int]
         /\ gor' \in [Jobs -> GorStates]
BY RemoveJobType DEF TypeOK, doCancel, GorStates

(* clearTimeout and clearInterval.                                         *)
LEMMA ClearType ==
  ASSUME TypeOK, NEW j \in Jobs, clear(j)
  PROVE  /\ jobs' \in Seq(Delayed) /\ idx' \in [Jobs -> Int]
         /\ cancelled' \in [Jobs -> BOOLEAN] /\ gor' \in [Jobs -> GorStates]
         /\ jobCount' \in Int /\ counted' \in SUBSET Jobs
<1>1. /\ cancelled' \in [Jobs -> BOOLEAN]
      /\ jobCount' \in Int /\ counted' \in SUBSET Jobs
  BY SettleType DEF clear
<1>2. /\ jobs' \in Seq(Delayed) /\ idx' \in [Jobs -> Int]
      /\ gor' \in [Jobs -> GorStates]
  <2>1. CASE cancelled[j] BY <2>1 DEF clear, TypeOK
  <2>2. CASE ~cancelled[j] BY <2>2, DoCancelType DEF clear
  <2> QED BY <2>1, <2>2
<1> QED BY <1>1, <1>2

(* What is submitted to the queue is a well-formed pending function.       *)
LEMMA SubmissionType ==
  ASSUME TypeOK, submission
  PROVE  auxJobs' \in Seq(Pending) /\ gor' \in [Jobs -> GorStates]
<1>1. ASSUME NEW p \in Pending, auxJobs' = Append(auxJobs, p)
      PROVE  auxJobs' \in Seq(Pending)
  BY <1>1, AppendProperties DEF TypeOK
<1>2. CASE RunOnLoop
  <2>1. [op |-> "fn", job |-> NoJob] \in Pending BY DEF Pending
  <2> QED BY <1>1, <1>2, <2>1 DEF RunOnLoop, addAuxJob, TypeOK
<1>3. ASSUME NEW j \in Delayed, SetDelayed(j) \/ ClearDelayed(j)
      PROVE  auxJobs' \in Seq(Pending) /\ gor' \in [Jobs -> GorStates]
  <2>1. [op |-> "start", job |-> j] \in Pending
        /\ [op |-> "clear", job |-> j] \in Pending
    BY DEF Pending
  <2>2. auxJobs' \in Seq(Pending)
    BY <1>1, <1>3, <2>1 DEF SetDelayed, ClearDelayed, addAuxJob
  <2>3. gor' \in [Jobs -> GorStates]
    BY <1>3 DEF SetDelayed, ClearDelayed, TypeOK, Jobs, GorStates
  <2> QED BY <2>2, <2>3
<1> QED BY <1>2, <1>3 DEF submission

(* Every step keeps the types, one action at a time.                       *)
LEMMA TypeStep == TypeOK /\ [Next]_vars => TypeOK'
<1> SUFFICES ASSUME TypeOK, [Next]_vars PROVE TypeOK'
  OBVIOUS
<1> USE DEF flags, count, table, queue, control, local
<1>1. CASE Start
  BY <1>1 DEF Start, setRunning, TypeOK, LoopPcs, TermPcs
<1>2. CASE Run
  BY <1>2 DEF Run, setRunning, TypeOK, LoopPcs, TermPcs
<1>3. CASE CallStop
  BY <1>3 DEF CallStop, controlStep, TypeOK, LoopPcs, TermPcs
<1>4. CASE CallTerminate
  BY <1>4 DEF CallTerminate, controlStep, TypeOK, LoopPcs, TermPcs
<1>5. CASE StopWaits
  BY <1>5 DEF StopWaits, controlStep, TypeOK, LoopPcs, TermPcs
<1>6. CASE StopReturns
  BY <1>6 DEF StopReturns, controlStep, TypeOK, LoopPcs, TermPcs
<1>7. CASE TermBegin
  BY <1>7 DEF TermBegin, controlStep, TypeOK, LoopPcs, TermPcs
<1>8. CASE TermRunAux
  BY <1>8, EmptySeq DEF TermRunAux, takeAux, TypeOK, LoopPcs, TermPcs
<1>9. CASE TermAuxDone
  BY <1>9 DEF TermAuxDone, auxDone, TypeOK, LoopPcs, TermPcs
<1>10. CASE TermCancelDone
  BY <1>10 DEF TermCancelDone, TypeOK, LoopPcs, TermPcs
<1>11. CASE TermReturns
  BY <1>11 DEF TermReturns, controlStep, TypeOK, LoopPcs, TermPcs
<1>12. CASE BeginRun
  BY <1>12, EmptySeq DEF BeginRun, takeAux, TypeOK, LoopPcs, TermPcs
<1>13. CASE EnterLoop
  BY <1>13 DEF EnterLoop, auxDone, TypeOK, LoopPcs, TermPcs
<1>14. CASE ReceiveWakeup
  BY <1>14, EmptySeq DEF ReceiveWakeup, takeAux, TypeOK, LoopPcs, TermPcs
<1>15. CASE CheckCanRun
  BY <1>15 DEF CheckCanRun, auxDone, TypeOK, LoopPcs, TermPcs
<1>16. CASE LeaveLoop
  <2>1. jobCount' \in Int /\ bcast' \in Nat
    BY <1>16 DEF LeaveLoop, leaveLoop, TypeOK
  <2> QED BY <1>16, <2>1 DEF LeaveLoop, leaveLoop, TypeOK, LoopPcs
<1>17. CASE Broadcast
  BY <1>17 DEF Broadcast, TypeOK, LoopPcs, TermPcs
<1>18. CASE CallbackReturn
  BY <1>18 DEF CallbackReturn, inCallback, TypeOK, LoopPcs, TermPcs
<1>19. CASE CallbackPanic
  BY <1>19, EmptySeq DEF CallbackPanic, unwinds, TypeOK, LoopPcs, TermPcs
<1>20. CASE StopNoWait
  BY <1>20 DEF StopNoWait, TypeOK, LoopPcs, TermPcs
<1>21. CASE AuxStep
  <2>1. batch' \in Seq(Pending) /\ Head(batch) \in Pending
    BY <1>21, HeadTailProperties DEF AuxStep, TypeOK
  <2> DEFINE op == Head(batch).op
             j == Head(batch).job
  <2>2. /\ jobs' \in Seq(Delayed) /\ idx' \in [Jobs -> Int]
        /\ cancelled' \in [Jobs -> BOOLEAN] /\ gor' \in [Jobs -> GorStates]
        /\ jobCount' \in Int /\ counted' \in SUBSET Jobs
        /\ executing' \in {<<>>} \cup {<<k>> : k \in Jobs \cup {NoJob}}
    <3>1. execAux(op, j) BY <1>21 DEF AuxStep
    <3>2. CASE op = "fn"
      BY <3>1, <3>2 DEF execAux, TypeOK
    <3>3. CASE op = "start"
      <4>1. j \in Delayed BY <2>1, <3>3 DEF Pending
      <4>2. start(j) /\ UNCHANGED executing BY <3>1, <3>3 DEF execAux
      <4> QED BY <4>1, <4>2, StartType DEF TypeOK
    <3>4. CASE op = "clear"
      <4>1. j \in Jobs BY <2>1, <3>4 DEF Pending, Jobs
      <4>2. clear(j) /\ UNCHANGED executing BY <3>1, <3>4 DEF execAux
      <4> QED BY <4>1, <4>2, ClearType DEF TypeOK
    <3>5. CASE op = "immediate"
      <4>1. j \in Jobs BY <2>1, <3>5 DEF Pending, Jobs
      <4>2. /\ settle(j) /\ call(j) /\ UNCHANGED <<jobs, idx>>
            /\ gor' = [gor EXCEPT ![j] = "done"]
        BY <3>1, <3>5 DEF execAux
      <4>3. gor' \in [Jobs -> GorStates] BY <4>1, <4>2 DEF TypeOK, GorStates
      <4>4. executing' \in {<<>>} \cup {<<k>> : k \in Jobs \cup {NoJob}}
        BY <4>1, <4>2 DEF call
      <4> QED BY <4>1, <4>2, <4>3, <4>4, SettleType DEF TypeOK
    <3> QED BY <2>1, <3>2, <3>3, <3>4, <3>5 DEF Pending
  <2> QED BY <1>21, <2>1, <2>2 DEF AuxStep, TypeOK
<1>22. CASE TermCancel
  <2> DEFINE j == jobs[ti + 1]
  <2>1. j \in Jobs
    BY <1>22, ElementOfSeq, LenProperties DEF TermCancel, TypeOK, Jobs
  <2>2. cancelled' = [cancelled EXCEPT ![j] = TRUE]
        /\ IF cancelled[j] THEN UNCHANGED <<gor, jobs, idx>> ELSE doCancel(j)
    BY <1>22 DEF TermCancel
  <2>3. cancelled' \in [Jobs -> BOOLEAN] BY <2>2 DEF TypeOK
  <2> HIDE DEF j
  <2>4. /\ jobs' \in Seq(Delayed) /\ idx' \in [Jobs -> Int]
        /\ gor' \in [Jobs -> GorStates]
    <3>1. CASE cancelled[j] BY <3>1, <2>2 DEF TypeOK
    <3>2. CASE ~cancelled[j] BY <3>2, <2>1, <2>2, DoCancelType
    <3> QED BY <3>1, <3>2
  <2>5. ti' \in Nat BY <1>22 DEF TermCancel, TypeOK
  <2>6. abandoned' \in SUBSET Jobs
    BY <1>22, <2>1 DEF TermCancel, TypeOK, j
  <2> QED BY <1>22, <2>3, <2>4, <2>5, <2>6 DEF TermCancel, TypeOK
<1>23. ASSUME NEW t \in Timers, ReceiveTimeout(t) PROVE TypeOK'
  <2>1. t \in Jobs BY DEF Jobs, Delayed
  <2>2. received(t, "sending", "done") /\ removeJob(t) /\ settle(t) /\ call(t)
    BY <1>23 DEF ReceiveTimeout
  <2>3. gor' \in [Jobs -> GorStates] BY <2>1, <2>2 DEF received, TypeOK, GorStates
  <2>4. executing' \in {<<>>} \cup {<<k>> : k \in Jobs \cup {NoJob}}
    BY <2>1, <2>2 DEF call
  <2>5. jobs' \in Seq(Delayed) /\ idx' \in [Jobs -> Int]
    BY <2>1, <2>2, RemoveJobType DEF TypeOK
  <2>6. /\ cancelled' \in [Jobs -> BOOLEAN]
        /\ jobCount' \in Int /\ counted' \in SUBSET Jobs
    BY <2>1, <2>2, SettleType
  <2> QED BY <2>2, <2>3, <2>4, <2>5, <2>6 DEF received, TypeOK
<1>24. ASSUME NEW i \in Intervals, ReceiveTick(i) PROVE TypeOK'
  <2>1. i \in Jobs BY DEF Jobs, Delayed
  <2>2. executing' \in {<<>>} \cup {<<k>> : k \in Jobs \cup {NoJob}}
    BY <1>24, <2>1 DEF ReceiveTick, call
  <2> QED BY <1>24, <2>1, <2>2 DEF ReceiveTick, received, TypeOK, GorStates
<1>25. ASSUME NEW i \in Intervals, ReceiveRemoval(i) PROVE TypeOK'
  <2>1. i \in Jobs BY DEF Jobs, Delayed
  <2>2. jobs' \in Seq(Delayed) /\ idx' \in [Jobs -> Int]
    BY <1>25, <2>1, RemoveJobType DEF ReceiveRemoval, TypeOK
  <2> QED BY <1>25, <2>1, <2>2 DEF ReceiveRemoval, received, TypeOK, GorStates
<1>26. ASSUME NEW j \in Delayed, CbSchedule(j) PROVE TypeOK'
  BY <1>26, StartType DEF CbSchedule, inCallback, TypeOK
<1>27. ASSUME NEW j \in Delayed, CbClear(j) PROVE TypeOK'
  <2>1. j \in Jobs BY DEF Jobs
  <2> QED BY <1>27, <2>1, ClearType DEF CbClear, inCallback, TypeOK
<1>28. ASSUME NEW m \in Immediates, CbSetImmediate(m) PROVE TypeOK'
  <2>1. m \in Jobs BY DEF Jobs
  <2>2. [op |-> "immediate", job |-> m] \in Pending BY DEF Pending
  <2>3. auxJobs' \in Seq(Pending)
    <3>1. Append(auxJobs, [op |-> "immediate", job |-> m]) \in Seq(Pending)
      BY <2>2, AppendProperties DEF TypeOK
    <3> QED BY <1>28, <3>1 DEF CbSetImmediate, addAuxJob, TypeOK
  <2>4. gor' \in [Jobs -> GorStates]
    BY <1>28, <2>1 DEF CbSetImmediate, TypeOK, GorStates
  <2>5. jobCount' \in Int /\ counted' \in SUBSET Jobs
    BY <1>28, <2>1 DEF CbSetImmediate, countIn, TypeOK
  <2> QED BY <1>28, <2>3, <2>4, <2>5 DEF CbSetImmediate, inCallback, addAuxJob, TypeOK
<1>29. ASSUME NEW m \in Immediates, CbClearImmediate(m) PROVE TypeOK'
  <2>1. m \in Jobs BY DEF Jobs
  <2> QED BY <1>29, <2>1, SettleType DEF CbClearImmediate, inCallback, TypeOK
<1>30. CASE CbSubmit
  BY <1>30, SubmissionType DEF CbSubmit, inCallback, TypeOK
<1>31. ASSUME NEW t \in Timers, TimerFires(t) PROVE TypeOK'
  BY <1>31 DEF TimerFires, gorStep, TypeOK, GorStates
<1>32. ASSUME NEW i \in Intervals, IntervalTicks(i) \/ IntervalStops(i) PROVE TypeOK'
  BY <1>32 DEF IntervalTicks, IntervalStops, gorStep, TypeOK, GorStates
<1>33. ASSUME NEW c \in Clients, Submit(c) PROVE TypeOK'
  BY <1>33, SubmissionType DEF Submit, TypeOK
<1>34. ASSUME NEW c \in Clients, Wakeup(c) PROVE TypeOK'
  BY <1>34 DEF Wakeup, TypeOK
<1>35. CASE UNCHANGED vars
  BY <1>35 DEF vars, TypeOK
<1>36. ASSUME NEW t \in Timers, CbClearPanics(t) PROVE TypeOK'
  <2>1. t \in Jobs BY DEF Jobs, Delayed
  <2>2. unwinds /\ settle(t) BY <1>36 DEF CbClearPanics
  <2> QED BY <2>1, <2>2, SettleType, EmptySeq DEF unwinds, TypeOK, LoopPcs, TermPcs
<1> QED
  BY <1>1, <1>2, <1>3, <1>4, <1>5, <1>6, <1>7, <1>8, <1>9, <1>10, <1>11, <1>12, <1>13, <1>14, <1>15, <1>16, <1>17, <1>18, <1>19, <1>20, <1>21, <1>22, <1>23, <1>24, <1>25, <1>26, <1>27, <1>28, <1>29, <1>30, <1>31, <1>32, <1>33, <1>34, <1>35, <1>36
  DEF Next, ControlNext, LoopNext, CallbackNext, EnvNext

(* A new loop has the types NewEventLoop gives it.                         *)
LEMMA TypeInit == Init => TypeOK
<1> SUFFICES ASSUME Init PROVE TypeOK
  OBVIOUS
<1>1. <<>> \in Seq(Pending) /\ <<>> \in Seq(Delayed)
  BY EmptySeq
<1>2. idx \in [Jobs -> Int] /\ gor \in [Jobs -> GorStates]
      /\ cancelled \in [Jobs -> BOOLEAN]
  BY DEF Init, GorStates
<1>3. client \in [Clients -> {"idle", "wakeup"}] BY DEF Init
<1>4. jobCount \in Int /\ ti \in Nat /\ bcast \in Nat BY DEF Init
<1>5. auxJobs \in Seq(Pending) /\ batch \in Seq(Pending) /\ jobs \in Seq(Delayed)
  BY <1>1 DEF Init
<1>6. pc \in LoopPcs /\ ctl \in {"idle", "stop", "waiting", "terminating"}
  BY DEF Init, LoopPcs
<1>7. counted \in SUBSET Jobs /\ abandoned \in SUBSET Jobs
      /\ executing \in {<<>>} \cup {<<j>> : j \in Jobs \cup {NoJob}}
  BY DEF Init
<1> QED BY <1>2, <1>3, <1>4, <1>5, <1>6, <1>7 DEF Init, TypeOK

(* Every variable of the loop keeps the type its Go declaration gives it.  *)
THEOREM TypeCorrect == Spec => []TypeOK
BY TypeInit, TypeStep, PTL DEF Spec

-----------------------------------------------------------------------------
(* The handshakes between goroutines.                                      *)

(* Work in auxJobs comes with a token in wakeupChan or a submitter about   *)
(* to send one, wherever the loop is: NoLostWakeup without its condition   *)
(* on the loop, which is what a step preserves.                            *)
Announced == auxJobs # <<>> => wakeupChan \/ \E c \in Clients : client[c] = "wakeup"

Handshakes == Announced /\ NoLostStop /\ WaiterHasWaker

(* Each step keeps the three handshakes.                                   *)
LEMMA HandshakeStep == TypeOK /\ Handshakes /\ [Next]_vars => Handshakes'
<1> SUFFICES ASSUME TypeOK, Handshakes, [Next]_vars PROVE Handshakes'
  OBVIOUS
<1> USE DEF flags, count, table, queue, control, local,
            Handshakes, Announced, NoLostStop, WaiterHasWaker
<1>1. CASE Start \/ Run
  BY <1>1 DEF Start, Run, setRunning
<1>2. CASE CallStop \/ CallTerminate
  BY <1>2 DEF CallStop, CallTerminate, controlStep
<1>3. CASE StopWaits \/ StopReturns
  BY <1>3 DEF StopWaits, StopReturns, controlStep
<1>4. CASE TermBegin \/ TermReturns
  BY <1>4 DEF TermBegin, TermReturns, controlStep
<1>5. CASE TermRunAux \/ BeginRun
  BY <1>5 DEF TermRunAux, BeginRun, takeAux
<1>6. CASE TermAuxDone \/ TermCancel \/ TermCancelDone
  BY <1>6 DEF TermAuxDone, TermCancel, TermCancelDone, auxDone
<1>7. CASE AuxStep
  BY <1>7 DEF AuxStep
<1>8. CASE EnterLoop \/ CheckCanRun
  BY <1>8 DEF EnterLoop, CheckCanRun, auxDone
<1>9. CASE ReceiveWakeup
  BY <1>9 DEF ReceiveWakeup, takeAux
<1>10. CASE LeaveLoop
  BY <1>10 DEF LeaveLoop, leaveLoop, TypeOK
<1>11. CASE Broadcast
  BY <1>11 DEF Broadcast
<1>12. ASSUME NEW t \in Timers, ReceiveTimeout(t) PROVE Handshakes'
  BY <1>12 DEF ReceiveTimeout, received
<1>13. ASSUME NEW i \in Intervals, ReceiveTick(i) \/ ReceiveRemoval(i) PROVE Handshakes'
  BY <1>13 DEF ReceiveTick, ReceiveRemoval, received
<1>14. ASSUME NEW j \in Delayed, CbSchedule(j) \/ CbClear(j) PROVE Handshakes'
  BY <1>14 DEF CbSchedule, CbClear, inCallback
<1>15. ASSUME NEW m \in Immediates, CbSetImmediate(m) \/ CbClearImmediate(m) PROVE Handshakes'
  BY <1>15 DEF CbSetImmediate, CbClearImmediate, inCallback
<1>16. CASE CbSubmit
  BY <1>16 DEF CbSubmit, inCallback
<1>17. CASE CallbackReturn \/ CallbackPanic \/ \E t \in Timers : CbClearPanics(t)
  BY <1>17 DEF CallbackReturn, CallbackPanic, CbClearPanics, unwinds, inCallback
<1>18. ASSUME NEW t \in Timers, TimerFires(t) PROVE Handshakes'
  BY <1>18 DEF TimerFires, gorStep
<1>19. ASSUME NEW i \in Intervals, IntervalTicks(i) \/ IntervalStops(i) PROVE Handshakes'
  BY <1>19 DEF IntervalTicks, IntervalStops, gorStep
<1>20. ASSUME NEW c \in Clients, Submit(c) \/ Wakeup(c) PROVE Handshakes'
  BY <1>20 DEF Submit, Wakeup, TypeOK
<1>21. CASE StopNoWait
  BY <1>21 DEF StopNoWait
<1>22. CASE UNCHANGED vars
  BY <1>22 DEF vars
<1> QED
  BY <1>1, <1>2, <1>3, <1>4, <1>5, <1>6, <1>7, <1>8, <1>9, <1>10, <1>11, <1>12, <1>13, <1>14, <1>15, <1>16, <1>17, <1>18, <1>19, <1>20, <1>21, <1>22
  DEF Next, ControlNext, LoopNext, CallbackNext, EnvNext

(* A loop blocked in its select never misses submitted work, a loop told   *)
(* to stop always finds the token that makes it look, and Stop() never     *)
(* sleeps without somebody left to wake it.                                *)
THEOREM HandshakesHold == Spec => []HandshakesKept
<1>1. Init => Handshakes
  BY DEF Init, Handshakes, Announced, NoLostStop, WaiterHasWaker
<1>2. Handshakes => HandshakesKept
  BY DEF Handshakes, Announced, NoLostWakeup, HandshakesKept
<1> QED
  BY <1>1, <1>2, TypeCorrect, HandshakeStep, PTL DEF Spec

-----------------------------------------------------------------------------
(* EventLoop implements LoopContract.                                      *)

(* The six ways a step of the loop shows in the contract: it changes       *)
(* nothing, ...                                                            *)
LEMMA AsStutter ==
  ASSUME TypeOK, UNCHANGED <<executing, cancelled>>,
         \A k \in Jobs : gor'[k] = "unused" <=> gor[k] = "unused"
  PROVE  UNCHANGED Contract!vars
BY DEF Contract!vars, Life, TypeOK

(* ... hands out a job, ...                                                *)
LEMMA AsSchedule ==
  ASSUME TypeOK, TypeOK', NEW j \in Jobs, gor[j] = "unused", gor'[j] # "unused",
         UNCHANGED <<executing, cancelled>>,
         \A k \in Jobs \ {j} : gor'[k] = gor[k]
  PROVE  [Contract!Next]_(Contract!vars)
<1>1. CASE cancelled[j]
  BY <1>1 DEF Contract!vars, Life, TypeOK
<1>2. CASE ~cancelled[j]
  <2>1. Life[j] = "idle" BY <1>2 DEF Life
  <2>2. Life' = [Life EXCEPT ![j] = "scheduled"] BY <1>2 DEF Life
  <2>3. Contract!Schedule(j) BY <2>1, <2>2 DEF Contract!Schedule
  <2> QED BY <2>3 DEF Contract!Next
<1> QED BY <1>1, <1>2

(* ... cancels a job that was handed out, ...                              *)
LEMMA AsCancel ==
  ASSUME TypeOK, NEW j \in Jobs, gor[j] # "unused",
         executing' \in {executing, <<>>},
         cancelled' = [cancelled EXCEPT ![j] = TRUE],
         \A k \in Jobs : gor'[k] = "unused" <=> gor[k] = "unused"
  PROVE  [Contract!Next]_(Contract!vars)
<1>1. CASE cancelled[j]
  <2>1. Life' = Life BY <1>1 DEF Life, TypeOK
  <2> QED BY <2>1 DEF Contract!vars, Contract!Next, Contract!Return
<1>2. CASE ~cancelled[j]
  <2>1. Life[j] = "scheduled" BY <1>2 DEF Life
  <2>2. Life' = [Life EXCEPT ![j] = "over"] BY <1>2 DEF Life, TypeOK
  <2>3. Contract!Cancel(j) BY <2>1, <2>2 DEF Contract!Cancel
  <2> QED BY <2>3 DEF Contract!Next
<1> QED BY <1>1, <1>2

(* ... delivers a one-shot job, calling back unless it was cancelled, ...  *)
LEMMA AsFireOnce ==
  ASSUME TypeOK, NEW j \in Jobs \ Intervals, gor[j] # "unused",
         executing = <<>>, settle(j), call(j),
         \A k \in Jobs : gor'[k] = "unused" <=> gor[k] = "unused"
  PROVE  [Contract!Next]_(Contract!vars)
<1>1. CASE cancelled[j]
  <2>1. UNCHANGED <<executing, cancelled>> BY <1>1 DEF call, settle
  <2> QED BY <2>1, AsStutter
<1>2. CASE ~cancelled[j]
  <2>1. executing' = <<j>> /\ cancelled' = [cancelled EXCEPT ![j] = TRUE]
    BY <1>2 DEF call, settle
  <2>2. Life[j] = "scheduled" BY <1>2 DEF Life
  <2>3. Life' = [Life EXCEPT ![j] = "over"] BY <1>2, <2>1 DEF Life, TypeOK
  <2>4. Contract!Fire(j) BY <2>1, <2>2, <2>3 DEF Contract!Fire
  <2> QED BY <2>4 DEF Contract!Next
<1> QED BY <1>1, <1>2

(* ... delivers a tick, ...                                                *)
LEMMA AsTick ==
  ASSUME TypeOK, NEW i \in Intervals, gor[i] # "unused",
         executing = <<>>, call(i), UNCHANGED cancelled,
         \A k \in Jobs : gor'[k] = "unused" <=> gor[k] = "unused"
  PROVE  [Contract!Next]_(Contract!vars)
<1>0. i \in Jobs BY DEF Jobs, Delayed
<1>1. CASE cancelled[i]
  <2>1. UNCHANGED executing BY <1>1 DEF call
  <2> QED BY <2>1, AsStutter
<1>2. CASE ~cancelled[i]
  <2>1. executing' = <<i>> BY <1>2 DEF call
  <2>2. Life[i] = "scheduled" BY <1>0, <1>2 DEF Life
  <2>3. Life' = Life BY DEF Life
  <2>4. Contract!Fire(i) BY <2>1, <2>2, <2>3 DEF Contract!Fire
  <2> QED BY <1>0, <2>4 DEF Contract!Next
<1> QED BY <1>1, <1>2

(* ... or starts or ends a plain function.                                 *)
LEMMA AsCallOrReturn ==
  ASSUME TypeOK, UNCHANGED <<cancelled, gor>>,
         \/ executing = <<>> /\ executing' = <<NoJob>>
         \/ executing # <<>> /\ executing' = <<>>
  PROVE  [Contract!Next]_(Contract!vars)
<1>1. Life' = Life BY DEF Life
<1> QED BY <1>1 DEF Contract!Next, Contract!Call, Contract!Return

-----------------------------------------------------------------------------
(* A job in the table or named by a queued function has been handed out.   *)

HandedOut ==
  /\ \A j \in Range(jobs) : gor[j] # "unused"
  /\ \A p \in Range(auxJobs) \cup Range(batch) :
       p.op # "fn" => gor[p.job] # "unused"

(* Appending adds one element to the range.                                *)
LEMMA AppendRange ==
  ASSUME NEW S, NEW s \in Seq(S), NEW e \in S
  PROVE  Range(Append(s, e)) \subseteq Range(s) \cup {e}
<1>1. /\ Append(s, e) \in Seq(S) /\ Len(Append(s, e)) = Len(s) + 1
      /\ \A i \in 1..Len(s) : Append(s, e)[i] = s[i]
      /\ Append(s, e)[Len(s) + 1] = e
  BY AppendProperties
<1>2. /\ Len(s) \in Nat /\ DOMAIN s = 1..Len(s)
      /\ DOMAIN Append(s, e) = 1..(Len(s) + 1)
  BY <1>1, LenProperties
<1> QED BY <1>1, <1>2 DEF Range

(* The tail of a sequence has no new elements.                             *)
LEMMA TailRange ==
  ASSUME NEW S, NEW s \in Seq(S), s # <<>>
  PROVE  Range(Tail(s)) \subseteq Range(s) /\ Head(s) \in Range(s)
<1>1. /\ Tail(s) \in Seq(S) /\ Len(Tail(s)) = Len(s) - 1
      /\ \A i \in 1..Len(Tail(s)) : Tail(s)[i] = s[i + 1]
  BY HeadTailProperties
<1>2. /\ Len(s) \in Nat \ {0} /\ DOMAIN s = 1..Len(s)
      /\ DOMAIN Tail(s) = 1..(Len(s) - 1)
  BY <1>1, LenProperties, EmptySeq
<1>3. Head(s) = s[1] /\ 1 \in DOMAIN s
  BY <1>2
<1> QED BY <1>1, <1>2, <1>3 DEF Range

(* Shortening the table as removeJob does leaves only old entries.         *)
LEMMA ShortenRange ==
  ASSUME NEW S, NEW s \in Seq(S), NEW k
  PROVE  Range(SubSeq([s EXCEPT ![k] = s[Len(s)]], 1, Len(s) - 1)) \subseteq Range(s)
<1> DEFINE t == [s EXCEPT ![k] = s[Len(s)]]
           u == SubSeq(t, 1, Len(s) - 1)
<1>1. Len(s) \in Nat /\ DOMAIN s = 1..Len(s)
  BY LenProperties
<1>2. \A i \in 1..(Len(s) - 1) : t[i] \in Range(s)
  BY <1>1 DEF Range
<1> HIDE DEF t
<1>3. u \in Seq(Range(s))
  BY <1>1, <1>2, SubSeqProperties
<1>4. Range(u) \in SUBSET Range(s)
  BY <1>3, RangeOfSeq
<1> QED BY <1>4 DEF t

(* removeJob leaves only old entries in the table.                         *)
LEMMA RemoveJobRange ==
  ASSUME jobs \in Seq(Delayed), NEW j, removeJob(j)
  PROVE  Range(jobs') \subseteq Range(jobs)
<1>1. CASE idx[j] < 0 BY <1>1 DEF removeJob
<1>2. CASE ~(idx[j] < 0) BY <1>2, ShortenRange DEF removeJob
<1> QED BY <1>1, <1>2

(* A cancellation leaves only old entries and un-hands no job.             *)
LEMMA DoCancelRange ==
  ASSUME TypeOK, NEW j \in Jobs, doCancel(j)
  PROVE  /\ Range(jobs') \subseteq Range(jobs)
         /\ \A k \in Jobs : gor'[k] = "unused" <=> gor[k] = "unused"
BY RemoveJobRange DEF doCancel, TypeOK

(* The same for clearTimeout and clearInterval.                            *)
LEMMA ClearRange ==
  ASSUME TypeOK, NEW j \in Jobs, clear(j)
  PROVE  /\ Range(jobs') \subseteq Range(jobs)
         /\ \A k \in Jobs : gor'[k] = "unused" <=> gor[k] = "unused"
<1>1. CASE cancelled[j] BY <1>1 DEF clear
<1>2. CASE ~cancelled[j] BY <1>2, DoCancelRange DEF clear
<1> QED BY <1>1, <1>2

(* A job that is started was handed out before or is now.                  *)
LEMMA StartRange ==
  ASSUME TypeOK, NEW j \in Delayed, start(j)
  PROVE  /\ Range(jobs') \subseteq Range(jobs) \cup {j}
         /\ gor'[j] # "unused" /\ \A k \in Jobs \ {j} : gor'[k] = gor[k]
<1>1. Range(jobs') \subseteq Range(jobs) \cup {j}
  BY AppendRange DEF start, TypeOK
<1>2. j \in Jobs BY DEF Jobs
<1> QED BY <1>1, <1>2 DEF start, TypeOK

(* A submission names a job that is handed out, at the latest, with it.    *)
LEMMA SubmissionRange ==
  ASSUME TypeOK, submission
  PROVE  /\ \A p \in Range(auxJobs') :
              p \in Range(auxJobs) \/ p.op = "fn" \/ gor'[p.job] # "unused"
         /\ \A k \in Jobs : gor[k] # "unused" => gor'[k] # "unused"
<1>1. CASE RunOnLoop
  <2>1. [op |-> "fn", job |-> NoJob] \in Pending BY DEF Pending
  <2> QED BY <1>1, <2>1, AppendRange DEF RunOnLoop, addAuxJob, TypeOK
<1>2. ASSUME NEW j \in Delayed, SetDelayed(j)
      PROVE  /\ \A p \in Range(auxJobs') :
                   p \in Range(auxJobs) \/ p.op = "fn" \/ gor'[p.job] # "unused"
             /\ \A k \in Jobs : gor[k] # "unused" => gor'[k] # "unused"
  <2>1. [op |-> "start", job |-> j] \in Pending /\ j \in Jobs BY DEF Pending, Jobs
  <2>2. gor'[j] # "unused" /\ \A k \in Jobs \ {j} : gor'[k] = gor[k]
    BY <1>2, <2>1 DEF SetDelayed, TypeOK
  <2> QED BY <1>2, <2>1, <2>2, AppendRange DEF SetDelayed, addAuxJob, TypeOK
<1>3. ASSUME NEW j \in Delayed, ClearDelayed(j)
      PROVE  /\ \A p \in Range(auxJobs') :
                   p \in Range(auxJobs) \/ p.op = "fn" \/ gor'[p.job] # "unused"
             /\ \A k \in Jobs : gor[k] # "unused" => gor'[k] # "unused"
  <2>1. [op |-> "clear", job |-> j] \in Pending BY DEF Pending
  <2> QED BY <1>3, <2>1, AppendRange DEF ClearDelayed, addAuxJob, TypeOK
<1> QED BY <1>1, <1>2, <1>3 DEF submission

(* Every step keeps HandedOut.                                             *)
LEMMA HandedOutStep == TypeOK /\ TypeOK' /\ HandedOut /\ [Next]_vars => HandedOut'
<1> SUFFICES ASSUME TypeOK, TypeOK', HandedOut, [Next]_vars PROVE HandedOut'
  OBVIOUS
<1> USE DEF flags, count, table, queue, control, local
<1>r. \A p \in Range(auxJobs) \cup Range(batch) : p \in Pending
  BY RangeOfSeq DEF TypeOK
<1>d. \A j \in Range(jobs) : j \in Jobs
  BY RangeOfSeq DEF TypeOK, Jobs
<1>p. \A p \in Pending : p.op # "fn" => p.job \in Jobs
  BY DEF Pending, Jobs
<1>e. Range(<<>>) = {}
  BY DEF Range
<1>u. ASSUME UNCHANGED <<jobs, auxJobs, batch>>,
             \A k \in Jobs : gor[k] # "unused" => gor'[k] # "unused"
      PROVE  HandedOut'
  BY <1>u, <1>r, <1>d, <1>p DEF HandedOut
<1>t. ASSUME UNCHANGED <<auxJobs, batch>>,
             Range(jobs') \subseteq Range(jobs),
             \A k \in Jobs : gor[k] # "unused" => gor'[k] # "unused"
      PROVE  HandedOut'
  BY <1>t, <1>r, <1>d, <1>p DEF HandedOut
<1>s. ASSUME NEW j \in Delayed, start(j), UNCHANGED <<auxJobs, batch>>
      PROVE  HandedOut'
  <2>1. \A k \in Jobs : gor[k] # "unused" => gor'[k] # "unused"
    BY <1>s, StartRange
  <2> QED BY <1>s, <2>1, StartRange, <1>r, <1>d, <1>p DEF HandedOut
<1>1. CASE Start \/ Run
  BY <1>1, <1>u DEF Start, Run, setRunning
<1>2. CASE CallStop \/ CallTerminate \/ StopWaits \/ StopReturns \/ TermBegin
        \/ TermReturns
  BY <1>2, <1>u DEF CallStop, CallTerminate, StopWaits, StopReturns, TermBegin,
     TermReturns, controlStep
<1>3. CASE TermRunAux \/ BeginRun \/ ReceiveWakeup
  BY <1>3, <1>e DEF TermRunAux, BeginRun, ReceiveWakeup, takeAux, HandedOut
<1>4. CASE TermAuxDone \/ TermCancelDone \/ EnterLoop \/ CheckCanRun
  BY <1>4, <1>u DEF TermAuxDone, TermCancelDone, EnterLoop, CheckCanRun, auxDone
<1>5. CASE TermCancel
  <2> DEFINE j == jobs[ti + 1]
  <2>1. j \in Jobs
    BY <1>5, ElementOfSeq, LenProperties DEF TermCancel, TypeOK, Jobs
  <2>2. IF cancelled[j] THEN UNCHANGED <<gor, jobs, idx>> ELSE doCancel(j)
    BY <1>5 DEF TermCancel
  <2> HIDE DEF j
  <2>3. CASE cancelled[j] BY <1>5, <2>2, <2>3, <1>u DEF TermCancel
  <2>4. CASE ~cancelled[j] BY <1>5, <2>1, <2>2, <2>4, <1>t, DoCancelRange DEF TermCancel
  <2> QED BY <2>3, <2>4
<1>6. CASE AuxStep
  <2> DEFINE p == Head(batch)
  <2>1. p \in Range(batch) /\ Range(batch') \subseteq Range(batch) /\ p \in Pending
    BY <1>6, TailRange, <1>r DEF AuxStep, TypeOK
  <2>2. execAux(p.op, p.job) BY <1>6 DEF AuxStep
  <2>3. ASSUME Range(jobs') \subseteq Range(jobs) \cup {k \in Jobs : gor'[k] # "unused"},
               \A k \in Jobs : gor[k] # "unused" => gor'[k] # "unused"
        PROVE  HandedOut'
    <3>1. UNCHANGED auxJobs BY <1>6 DEF AuxStep
    <3> HIDE DEF p
    <3> QED BY <2>1, <2>3, <3>1, <1>r, <1>d, <1>p DEF HandedOut
  <2>4. CASE p.op = "fn" BY <2>2, <2>3, <2>4 DEF execAux
  <2>5. CASE p.op = "start"
    <3>1. p.job \in Delayed /\ p.job \in Jobs BY <2>1, <2>5 DEF Pending, Jobs
    <3>2. start(p.job) BY <2>2, <2>5 DEF execAux
    <3> HIDE DEF p
    <3> QED BY <2>3, <3>1, <3>2, StartRange
  <2>6. CASE p.op = "clear"
    <3>1. p.job \in Jobs BY <2>1, <2>6 DEF Pending, Jobs
    <3>2. clear(p.job) BY <2>2, <2>6 DEF execAux
    <3> HIDE DEF p
    <3> QED BY <2>3, <3>1, <3>2, ClearRange
  <2>7. CASE p.op = "immediate"
    <3>1. p.job \in Jobs BY <2>1, <2>7 DEF Pending, Jobs
    <3>2. gor' = [gor EXCEPT ![p.job] = "done"] /\ UNCHANGED jobs
      BY <2>2, <2>7 DEF execAux
    <3> HIDE DEF p
    <3> QED BY <2>3, <3>1, <3>2 DEF TypeOK
  <2> QED BY <2>1, <2>4, <2>5, <2>6, <2>7 DEF Pending
<1>7. CASE LeaveLoop \/ Broadcast
  BY <1>7, <1>u DEF LeaveLoop, leaveLoop, Broadcast
<1>8. ASSUME NEW t \in Timers, ReceiveTimeout(t) PROVE HandedOut'
  BY <1>8, <1>t, RemoveJobRange DEF ReceiveTimeout, received, TypeOK
<1>9. ASSUME NEW i \in Intervals, ReceiveTick(i) PROVE HandedOut'
  BY <1>9, <1>u DEF ReceiveTick, received, TypeOK
<1>10. ASSUME NEW i \in Intervals, ReceiveRemoval(i) PROVE HandedOut'
  BY <1>10, <1>t, RemoveJobRange DEF ReceiveRemoval, received, TypeOK
<1>11. ASSUME NEW j \in Delayed, CbSchedule(j) PROVE HandedOut'
  BY <1>11, <1>s DEF CbSchedule, inCallback
<1>12. ASSUME NEW j \in Delayed, CbClear(j) PROVE HandedOut'
  <2>1. j \in Jobs BY DEF Jobs
  <2> QED BY <1>12, <2>1, <1>t, ClearRange DEF CbClear, inCallback
<1>13. ASSUME NEW m \in Immediates, CbSetImmediate(m) PROVE HandedOut'
  <2>1. [op |-> "immediate", job |-> m] \in Pending /\ m \in Jobs BY DEF Pending, Jobs
  <2>2. gor'[m] # "unused" /\ \A k \in Jobs : gor[k] # "unused" => gor'[k] # "unused"
    BY <1>13, <2>1 DEF CbSetImmediate, TypeOK
  <2>3. Range(auxJobs') \subseteq Range(auxJobs) \cup {[op |-> "immediate", job |-> m]}
    <3>1. auxJobs' = Append(auxJobs, [op |-> "immediate", job |-> m])
          \/ auxJobs' = auxJobs
      BY <1>13 DEF CbSetImmediate, addAuxJob
    <3>2. Range(Append(auxJobs, [op |-> "immediate", job |-> m]))
            \subseteq Range(auxJobs) \cup {[op |-> "immediate", job |-> m]}
      BY <2>1, AppendRange DEF TypeOK
    <3> QED BY <3>1, <3>2
  <2> QED BY <1>13, <2>2, <2>3, <1>r, <1>d, <1>p DEF CbSetImmediate, inCallback, HandedOut
<1>14. ASSUME NEW m \in Immediates, CbClearImmediate(m) PROVE HandedOut'
  BY <1>14, <1>u DEF CbClearImmediate, inCallback
<1>15. CASE CbSubmit
  BY <1>15, SubmissionRange, <1>r, <1>d, <1>p DEF CbSubmit, inCallback, HandedOut
<1>16. CASE CallbackReturn
  BY <1>16, <1>u DEF CallbackReturn, inCallback
<1>17. CASE CallbackPanic \/ \E t \in Timers : CbClearPanics(t)
  BY <1>17, <1>e DEF CallbackPanic, CbClearPanics, unwinds, HandedOut
<1>18. ASSUME NEW t \in Timers, TimerFires(t) PROVE HandedOut'
  BY <1>18, <1>u DEF TimerFires, gorStep, TypeOK
<1>19. ASSUME NEW i \in Intervals, IntervalTicks(i) \/ IntervalStops(i) PROVE HandedOut'
  BY <1>19, <1>u DEF IntervalTicks, IntervalStops, gorStep, TypeOK
<1>20. ASSUME NEW c \in Clients, Submit(c) PROVE HandedOut'
  BY <1>20, SubmissionRange, <1>r, <1>d, <1>p DEF Submit, HandedOut
<1>21. ASSUME NEW c \in Clients, Wakeup(c) PROVE HandedOut'
  BY <1>21, <1>u DEF Wakeup
<1>22. CASE StopNoWait
  BY <1>22, <1>u DEF StopNoWait
<1>23. CASE UNCHANGED vars
  BY <1>23, <1>u DEF vars
<1> QED
  BY <1>1, <1>2, <1>3, <1>4, <1>5, <1>6, <1>7, <1>8, <1>9, <1>10, <1>11, <1>12,
     <1>13, <1>14, <1>15, <1>16, <1>17, <1>18, <1>19, <1>20, <1>21, <1>22, <1>23
  DEF Next, ControlNext, LoopNext, CallbackNext, EnvNext

(* No user code is on the stack of a loop that is not running.             *)
StoppedIdle == pc = "stopped" => executing = <<>>

(* Every step keeps StoppedIdle.                                           *)
LEMMA StoppedIdleStep == StoppedIdle /\ [Next]_vars => StoppedIdle'
<1> SUFFICES ASSUME StoppedIdle, [Next]_vars PROVE StoppedIdle'
  OBVIOUS
<1> USE DEF flags, count, table, queue, control, local, StoppedIdle
<1>1. CASE ControlNext
  BY <1>1 DEF ControlNext, Start, Run, setRunning, CallStop, CallTerminate,
     StopWaits, StopReturns, TermBegin, TermReturns, controlStep, TermRunAux,
     takeAux, TermAuxDone, auxDone, TermCancel, TermCancelDone
<1>2. CASE LoopNext
  <2>1. CASE BeginRun \/ EnterLoop \/ ReceiveWakeup \/ CheckCanRun
    BY <2>1 DEF BeginRun, EnterLoop, ReceiveWakeup, CheckCanRun, takeAux, auxDone
  <2>2. CASE LeaveLoop \/ Broadcast BY <2>2 DEF LeaveLoop, leaveLoop, Broadcast
  <2>3. CASE AuxStep BY <2>3 DEF AuxStep
  <2>4. ASSUME NEW t \in Timers, ReceiveTimeout(t) PROVE StoppedIdle'
    BY <2>4 DEF ReceiveTimeout, received, receiving
  <2>5. ASSUME NEW i \in Intervals, ReceiveTick(i) \/ ReceiveRemoval(i)
        PROVE  StoppedIdle'
    BY <2>5 DEF ReceiveTick, ReceiveRemoval, received, receiving
  <2> QED BY <1>2, <2>1, <2>2, <2>3, <2>4, <2>5 DEF LoopNext
<1>3. CASE CallbackNext
  BY <1>3 DEF CallbackNext, CbSchedule, CbClear, CbSetImmediate, CbClearImmediate,
     CbClearPanics, CbSubmit, CallbackReturn, CallbackPanic, unwinds, inCallback
<1>4. CASE EnvNext
  BY <1>4 DEF EnvNext, TimerFires, IntervalTicks, IntervalStops, gorStep, Submit,
     Wakeup, StopNoWait
<1>5. CASE UNCHANGED vars BY <1>5 DEF vars
<1> QED BY <1>1, <1>2, <1>3, <1>4, <1>5 DEF Next

(* Every step of the loop is a step of the contract or invisible to it.    *)
LEMMA ContractStep ==
  TypeOK /\ TypeOK' /\ HandedOut /\ StoppedIdle /\ [Next]_vars
    => [Contract!Next]_(Contract!vars)
<1> SUFFICES ASSUME TypeOK, TypeOK', HandedOut, StoppedIdle, [Next]_vars
             PROVE  [Contract!Next]_(Contract!vars)
  OBVIOUS
<1> DEFINE Step == [Contract!Next]_(Contract!vars)
<1> USE DEF flags, count, table, queue, control, local
<1>u. ASSUME UNCHANGED <<executing, cancelled, gor>> PROVE Step
  BY <1>u, AsStutter
<1>c. ASSUME NEW j \in Jobs, settle(j), gor[j] # "unused", UNCHANGED executing,
             \A k \in Jobs : gor'[k] = "unused" <=> gor[k] = "unused"
      PROVE  Step
  <2>1. CASE cancelled[j] BY <1>c, <2>1, AsStutter DEF settle
  <2>2. CASE ~cancelled[j] BY <1>c, <2>2, AsCancel DEF settle
  <2> QED BY <2>1, <2>2
<1>b. ASSUME submission, UNCHANGED <<executing, cancelled>> PROVE Step
  <2>1. CASE RunOnLoop BY <1>b, <2>1, <1>u DEF RunOnLoop
  <2>2. ASSUME NEW j \in Delayed, SetDelayed(j) PROVE Step
    <3>1. j \in Jobs BY DEF Jobs
    <3>2. /\ gor[j] = "unused" /\ gor'[j] # "unused"
          /\ \A k \in Jobs \ {j} : gor'[k] = gor[k]
      BY <2>2, <3>1 DEF SetDelayed, TypeOK
    <3> QED BY <1>b, <3>1, <3>2, AsSchedule
  <2>3. ASSUME NEW j \in Delayed, ClearDelayed(j) PROVE Step
    BY <1>b, <2>3, <1>u DEF ClearDelayed
  <2> QED BY <1>b, <2>1, <2>2, <2>3 DEF submission
<1>1. CASE Start
  BY <1>1, <1>u DEF Start, setRunning
<1>2. CASE Run
  <2>1. executing = <<>> BY <1>2 DEF Run, setRunning, StoppedIdle
  <2> QED BY <1>2, <2>1, AsCallOrReturn DEF Run, setRunning
<1>3. CASE CallStop \/ CallTerminate \/ StopWaits \/ StopReturns \/ TermBegin
        \/ TermReturns
  BY <1>3, <1>u DEF CallStop, CallTerminate, StopWaits, StopReturns, TermBegin,
     TermReturns, controlStep
<1>4. CASE TermRunAux \/ BeginRun \/ ReceiveWakeup
  BY <1>4, <1>u DEF TermRunAux, BeginRun, ReceiveWakeup, takeAux
<1>5. CASE TermAuxDone \/ TermCancelDone \/ EnterLoop \/ CheckCanRun
  BY <1>5, <1>u DEF TermAuxDone, TermCancelDone, EnterLoop, CheckCanRun, auxDone
<1>6. CASE TermCancel
  <2> DEFINE j == jobs[ti + 1]
  <2>1. ti + 1 \in DOMAIN jobs /\ j \in Jobs
    BY <1>6, ElementOfSeq, LenProperties DEF TermCancel, TypeOK, Jobs
  <2>2. gor[j] # "unused" BY <2>1 DEF HandedOut, Range
  <2>3. /\ cancelled' = [cancelled EXCEPT ![j] = TRUE] /\ UNCHANGED executing
        /\ IF cancelled[j] THEN UNCHANGED <<gor, jobs, idx>> ELSE doCancel(j)
    BY <1>6 DEF TermCancel
  <2> HIDE DEF j
  <2>4. \A k \in Jobs : gor'[k] = "unused" <=> gor[k] = "unused"
    <3>1. CASE cancelled[j] BY <2>3, <3>1
    <3>2. CASE ~cancelled[j] BY <2>1, <2>3, <3>2, DoCancelRange
    <3> QED BY <3>1, <3>2
  <2> QED BY <2>1, <2>2, <2>3, <2>4, AsCancel
<1>7. CASE AuxStep
  <2> DEFINE p == Head(batch)
  <2>1. p \in Range(batch) /\ p \in Pending
    BY <1>7, TailRange, RangeOfSeq DEF AuxStep, TypeOK
  <2>2. execAux(p.op, p.job) /\ executing = <<>> BY <1>7 DEF AuxStep
  <2>3. p.op # "fn" => p.job \in Jobs /\ gor[p.job] # "unused"
    BY <2>1 DEF HandedOut, Pending, Jobs
  <2>4. CASE p.op = "fn" BY <2>2, <2>4, AsCallOrReturn DEF execAux
  <2>5. CASE p.op = "start"
    <3>1. p.job \in Delayed BY <2>1, <2>5 DEF Pending
    <3>2. start(p.job) /\ UNCHANGED executing BY <2>2, <2>5 DEF execAux
    <3> HIDE DEF p
    <3>3. UNCHANGED cancelled BY <3>2 DEF start
    <3>4. \A k \in Jobs : gor'[k] = "unused" <=> gor[k] = "unused"
      BY <2>3, <2>5, <3>1, <3>2, StartRange
    <3> QED BY <3>2, <3>3, <3>4, AsStutter
  <2>6. CASE p.op = "clear"
    <3>1. clear(p.job) /\ UNCHANGED executing BY <2>2, <2>6 DEF execAux
    <3> HIDE DEF p
    <3>2. settle(p.job) BY <3>1 DEF clear
    <3> QED BY <2>3, <2>6, <3>1, <3>2, <1>c, ClearRange
  <2>7. CASE p.op = "immediate"
    <3>1. p.job \in Jobs \ Intervals
      BY <2>1, <2>7, EventLoopAssumption DEF Pending, Jobs, Delayed
    <3>2. /\ settle(p.job) /\ call(p.job)
          /\ gor' = [gor EXCEPT ![p.job] = "done"]
      BY <2>2, <2>7 DEF execAux
    <3> HIDE DEF p
    <3>3. \A k \in Jobs : gor'[k] = "unused" <=> gor[k] = "unused"
      BY <2>3, <2>7, <3>2 DEF TypeOK
    <3> QED BY <2>2, <2>3, <2>7, <3>1, <3>2, <3>3, AsFireOnce
  <2> QED BY <2>1, <2>4, <2>5, <2>6, <2>7 DEF Pending
<1>8. CASE LeaveLoop \/ Broadcast
  BY <1>8, <1>u DEF LeaveLoop, leaveLoop, Broadcast
<1>9. ASSUME NEW t \in Timers, ReceiveTimeout(t) PROVE Step
  <2>1. t \in Jobs \ Intervals BY EventLoopAssumption DEF Jobs, Delayed
  <2>2. /\ gor[t] # "unused" /\ executing = <<>> /\ settle(t) /\ call(t)
        /\ \A k \in Jobs : gor'[k] = "unused" <=> gor[k] = "unused"
    BY <1>9 DEF ReceiveTimeout, received, receiving, TypeOK
  <2> QED BY <2>1, <2>2, AsFireOnce
<1>10. ASSUME NEW i \in Intervals, ReceiveTick(i) PROVE Step
  <2>1. /\ gor[i] # "unused" /\ executing = <<>> /\ call(i) /\ UNCHANGED cancelled
        /\ \A k \in Jobs : gor'[k] = "unused" <=> gor[k] = "unused"
    BY <1>10 DEF ReceiveTick, received, receiving, TypeOK
  <2> QED BY <2>1, AsTick
<1>11. ASSUME NEW i \in Intervals, ReceiveRemoval(i) PROVE Step
  <2>1. \A k \in Jobs : gor'[k] = "unused" <=> gor[k] = "unused"
    BY <1>11 DEF ReceiveRemoval, received, TypeOK
  <2> QED BY <1>11, <2>1, AsStutter DEF ReceiveRemoval
<1>12. ASSUME NEW j \in Delayed, CbSchedule(j) PROVE Step
  <2>1. j \in Jobs BY DEF Jobs
  <2>2. /\ gor[j] = "unused" /\ gor'[j] # "unused"
        /\ \A k \in Jobs \ {j} : gor'[k] = gor[k]
    BY <1>12, StartRange DEF CbSchedule
  <2> QED BY <1>12, <2>1, <2>2, AsSchedule DEF CbSchedule, start
<1>13. ASSUME NEW j \in Delayed, CbClear(j) PROVE Step
  <2>1. j \in Jobs BY DEF Jobs
  <2> QED BY <1>13, <2>1, <1>c, ClearRange DEF CbClear, clear
<1>14. ASSUME NEW m \in Immediates, CbSetImmediate(m) PROVE Step
  <2>1. m \in Jobs BY DEF Jobs
  <2>2. /\ gor[m] = "unused" /\ gor'[m] # "unused"
        /\ \A k \in Jobs \ {m} : gor'[k] = gor[k]
    BY <1>14, <2>1 DEF CbSetImmediate, TypeOK
  <2> QED BY <1>14, <2>1, <2>2, AsSchedule DEF CbSetImmediate
<1>15. ASSUME NEW m \in Immediates, CbClearImmediate(m) PROVE Step
  <2>1. m \in Jobs BY DEF Jobs
  <2> QED BY <1>15, <2>1, <1>c DEF CbClearImmediate
<1>16. CASE CbSubmit
  BY <1>16, <1>b DEF CbSubmit
<1>17. CASE CallbackReturn \/ CallbackPanic
  BY <1>17, AsCallOrReturn DEF CallbackReturn, CallbackPanic, unwinds, inCallback
<1>24. ASSUME NEW t \in Timers, CbClearPanics(t) PROVE Step
  <2>1. t \in Jobs BY DEF Jobs, Delayed
  <2>2. /\ gor[t] # "unused" /\ gor' = gor /\ settle(t)
        /\ executing # <<>> /\ executing' = <<>>
    BY <1>24 DEF CbClearPanics, unwinds
  <2>3. CASE cancelled[t] BY <2>2, <2>3, AsCallOrReturn DEF settle
  <2>4. CASE ~cancelled[t] BY <2>1, <2>2, <2>4, AsCancel DEF settle
  <2> QED BY <2>3, <2>4
<1>18. ASSUME NEW t \in Timers, TimerFires(t) PROVE Step
  <2>1. \A k \in Jobs : gor'[k] = "unused" <=> gor[k] = "unused"
    BY <1>18 DEF TimerFires, gorStep, TypeOK
  <2> QED BY <1>18, <2>1, AsStutter DEF TimerFires, gorStep
<1>19. ASSUME NEW i \in Intervals, IntervalTicks(i) \/ IntervalStops(i) PROVE Step
  <2>1. \A k \in Jobs : gor'[k] = "unused" <=> gor[k] = "unused"
    BY <1>19 DEF IntervalTicks, IntervalStops, gorStep, TypeOK
  <2> QED BY <1>19, <2>1, AsStutter DEF IntervalTicks, IntervalStops, gorStep
<1>20. ASSUME NEW c \in Clients, Submit(c) PROVE Step
  BY <1>20, <1>b DEF Submit
<1>21. ASSUME NEW c \in Clients, Wakeup(c) PROVE Step
  BY <1>21, <1>u DEF Wakeup
<1>22. CASE StopNoWait
  BY <1>22, <1>u DEF StopNoWait
<1>23. CASE UNCHANGED vars
  BY <1>23, <1>u DEF vars
<1> QED
  BY <1>1, <1>2, <1>3, <1>4, <1>5, <1>6, <1>7, <1>8, <1>9, <1>10, <1>11, <1>12,
     <1>13, <1>14, <1>15, <1>16, <1>17, <1>18, <1>19, <1>20, <1>21, <1>22, <1>23,
     <1>24
  DEF Next, ControlNext, LoopNext, CallbackNext, EnvNext

(* The loop keeps its contract: callbacks are serialised, a timeout or an  *)
(* immediate runs at most once, and no callback starts after its job was   *)
(* cleared or the loop terminated.                                         *)
THEOREM ContractKept == Spec => ContractHolds
<1>1. Init => Contract!Init
  BY DEF Init, Contract!Init, Life
<1>2. Init => HandedOut
  BY DEF Init, HandedOut, Range
<1>3. Spec => []HandedOut
  BY <1>2, TypeCorrect, HandedOutStep, PTL DEF Spec
<1>4. Init => StoppedIdle
  BY DEF Init, StoppedIdle
<1>5. Spec => []StoppedIdle
  BY <1>4, StoppedIdleStep, PTL DEF Spec
<1> QED
  BY <1>1, <1>3, <1>5, TypeCorrect, ContractStep, PTL DEF Spec, ContractHolds, Contract!Spec

-----------------------------------------------------------------------------
(* The loop's books agree with what its goroutines will do: the proof of   *)
(* JobsAccounted.  The inductive invariant says where user code and the    *)
(* two queues may be (Phases), what Terminate has cancelled (Cancelling),  *)
(* which jobs are counted (Counting) and that the queue starts a job once  *)
(* and before it clears it (Ordered).                                      *)

(* The invariant.                                                          *)

RunPcs == {"begin", "aux0", "loop", "aux", "exit"}

(* Control: the flags say which goroutine owns the loop's state, and user  *)
(* code and an unfinished batch are found only where runAux or a receive   *)
(* left them.                                                              *)
Phases ==
  /\ pc \in RunPcs => running
  /\ pc \in TermPcs <=> ctl = "terminating"
  /\ pc \in TermPcs => terminated
  /\ terminated => ~running
  /\ executing # <<>> => pc \in {"begin", "aux0", "loop", "aux", "tAux"}
  /\ batch # <<>> => pc \in {"aux0", "aux", "tAux"}
  /\ terminated /\ pc # "tBegin" => auxJobs = <<>>
  /\ pc # "tCancel" => ti = 0

(* The table, and that immediates never own a timer or a goroutine.        *)
Tabled ==
  /\ TableExact
  /\ \A m \in Immediates : ~Active(m)

(* Terminate has cancelled what its loop has passed, everything once it    *)
(* drains, and nobody is left when it is done.                             *)
Cancelling ==
  /\ pc = "tCancel" => \A n \in 1..Len(jobs) : n <= ti => cancelled[jobs[n]]
  /\ pc = "tDrain" => \A j \in Delayed : Active(j) => cancelled[j]
  /\ terminated /\ pc = "stopped" => \A j \in Jobs : ~Active(j)

(* Not handed out, or handed out by SetTimeout and still in the queue.     *)
NotYet(j) == gor[j] = "unused" \/ (j \in Delayed /\ gor[j] = "queued")

(* What the books say of one job.  It is counted from its start until it   *)
(* is cancelled, and stays so when Terminate cancels it.  It is cancelled  *)
(* before its start only as an Interval of the Go API that a script clears *)
(* (a Timer so cleared unwinds the loop).                                  *)
Entry(j) ==
  /\ NotYet(j) => j \notin counted /\ j \notin abandoned
  /\ ~NotYet(j) => /\ ~cancelled[j] => Active(j) \/ j \in Immediates
                   /\ j \in counted <=> ~cancelled[j] \/ j \in abandoned
  /\ j \in abandoned => cancelled[j]
  /\ gor[j] = "unused" => ~cancelled[j]
  /\ j \in Timers /\ gor[j] = "queued" /\ cancelled[j] => Unwound
  /\ gor[j] = "removing" => cancelled[j]

Counting == \A j \in Jobs : Entry(j)

(* Everything accepted and not yet executed, in the order of execution.    *)
Line == batch \o auxJobs

(* s starts the queued jobs of g and no others, each once, and clears only *)
(* what was handed out, after its start.                                   *)
StartOf(s, n, j) == s[n].op = "start" /\ s[n].job = j
Orderly(s, g) ==
  /\ \A n \in 1..Len(s) : s[n].op = "start" => g[s[n].job] = "queued"
  /\ \A j \in Delayed : \A m, n \in 1..Len(s) :
       StartOf(s, m, j) /\ StartOf(s, n, j) => m = n
  /\ \A n \in 1..Len(s) : s[n].op # "fn" => g[s[n].job] # "unused"
  /\ \A n \in 1..Len(s) : s[n].op = "clear" /\ g[s[n].job] = "queued"
       => \E m \in 1..(n - 1) : StartOf(s, m, s[n].job)
  /\ \A j \in Delayed : g[j] = "queued" => \E m \in 1..Len(s) : StartOf(s, m, j)

(* (After a panic has unwound run() nothing is executed any more.)         *)
Ordered == ~Unwound => Orderly(Line, gor)

Books ==
  TypeOK /\ Phases /\ Tabled /\ Cancelling /\ Counting /\ CountExact /\ Ordered
-----------------------------------------------------------------------------
(* What a step may do to the books.                                        *)

Working == {"armed", "ticking", "sending", "removing"}

(* The job is armed, counted and entered in the table.                     *)
Started(j) ==
  gor[j] \in {"unused", "queued"} /\ start(j) /\ UNCHANGED abandoned /\ ~Unwound

(* Its timer or goroutine goes on.                                         *)
Moved(j) ==
  /\ gor[j] \in Working
  /\ \E s \in Working : gor' = [gor EXCEPT ![j] = s] /\ (s = "removing" => cancelled[j])
  /\ UNCHANGED <<jobs, idx, cancelled, count, abandoned>>

(* It is cancelled, by a clear or by Terminate, or was before.             *)
Ended(j) ==
  \/ settle(j) /\ UNCHANGED abandoned
  \/ /\ cancelled' = [cancelled EXCEPT ![j] = TRUE] /\ UNCHANGED count
     /\ abandoned' = IF cancelled[j] THEN abandoned ELSE abandoned \cup {j}
  \/ cancelled[j] /\ UNCHANGED <<cancelled, count, abandoned>>

Marked(j) == ~NotYet(j) /\ Ended(j) /\ UNCHANGED <<gor, jobs, idx>>

(* It gives up its timer or goroutine and its entry.                       *)
Removed(j) ==
  /\ gor[j] \in Working /\ gor' = [gor EXCEPT ![j] = "done"]
  /\ removeJob(j) /\ Ended(j)

(* A handle is handed out; its start is in the queue.                      *)
Handed(j) ==
  /\ gor[j] = "unused" /\ gor' = [gor EXCEPT ![j] = "queued"]
  /\ UNCHANGED <<jobs, idx, cancelled, count, abandoned>>

(* A script clears it while its start is in the queue.                     *)
Overtaken(i) ==
  /\ i \in Intervals /\ gor[i] = "queued" /\ settle(i)
  /\ UNCHANGED <<gor, jobs, idx, abandoned>>

(* An immediate is counted and queued, or refused after Terminate; it runs.*)
Promised(m) ==
  /\ gor[m] = "unused" /\ countIn(m)
  /\ \E s \in {"queued", "done"} : gor' = [gor EXCEPT ![m] = s]
  /\ UNCHANGED <<jobs, idx, cancelled, abandoned>>
Performed(m) ==
  /\ gor[m] # "unused" /\ settle(m) /\ gor' = [gor EXCEPT ![m] = "done"]
  /\ UNCHANGED <<jobs, idx, abandoned>>

OnDelayed(j) ==
  Started(j) \/ Moved(j) \/ Removed(j) \/ Marked(j) \/ Handed(j) \/ Overtaken(j)
OnImmediate(m) == Marked(m) \/ Promised(m) \/ Performed(m)

(* What jobCount counts besides jobs: the background loop.                 *)
Background == IF pc \in {"loop", "aux", "exit"} /\ inBackground THEN 1 ELSE 0

(* One job's books change, while control stays where it is, ...            *)
OneJob ==
  /\ UNCHANGED <<running, pc, inBackground>>
  /\ (\E j \in Delayed : OnDelayed(j)) \/ (\E m \in Immediates : OnImmediate(m))

(* ... or none's, and only the loop itself is counted in or out, ...       *)
NoJobs ==
  /\ UNCHANGED <<table, counted, abandoned>>
  /\ ~Unwound' => ~Unwound /\ jobCount' - Background' = jobCount - Background

(* ... or clearing a queued Timer unwinds the loop.                        *)
Crashed ==
  /\ Unwound' /\ UNCHANGED <<jobs, idx, gor, abandoned>>
  /\ \E t \in Timers : gor[t] = "queued" /\ settle(t)

(* A script's clear of a job that is not started is that of an Interval.   *)
LEMMA ClearOvertakes ==
  ASSUME NEW j \in Delayed, clear(j), UNCHANGED abandoned, gor[j] = "queued",
         ~(j \in Timers)
  PROVE  Overtaken(j)
<1>1. j \in Intervals BY DEF Delayed
<1> QED BY <1>1 DEF Overtaken, clear, doCancel

(* A clear of a job that was started ends it, and takes an armed timer out *)
(* of the table.                                                           *)
LEMMA ClearMarks ==
  ASSUME TypeOK, NEW j \in Delayed, clear(j), UNCHANGED abandoned, ~NotYet(j)
  PROVE  Removed(j) \/ Marked(j)
<1>1. settle(j) BY DEF clear
<1>2. CASE cancelled[j] BY <1>1, <1>2 DEF clear, Marked, Ended
<1>3. CASE ~cancelled[j] /\ j \in Timers /\ gor[j] = "armed"
  BY <1>1, <1>3 DEF clear, doCancel, Removed, Ended, Working
<1>4. CASE ~cancelled[j] /\ ~(j \in Timers /\ gor[j] = "armed")
  BY <1>1, <1>4 DEF clear, doCancel, Marked, Ended
<1> QED BY <1>2, <1>3, <1>4

(* The job at the head of the batch is a job that is queued, or one that   *)
(* was started before it is cleared.                                       *)
LEMMA HeadOfLine ==
  ASSUME TypeOK, Ordered, ~Unwound, batch # <<>>,
         NEW p, p = Head(batch)
  PROVE  /\ p \in Pending /\ Line \in Seq(Pending) /\ Line # <<>>
         /\ p = Head(Line) /\ Tail(Line) = Tail(batch) \o auxJobs
         /\ p.op = "start" => gor[p.job] = "queued"
         /\ p.op = "clear" => ~NotYet(p.job)
         /\ p.op = "immediate" => gor[p.job] # "unused"
<1>1. /\ batch \in Seq(Pending) /\ auxJobs \in Seq(Pending)
      /\ Len(batch) \in Nat \ {0} /\ Len(auxJobs) \in Nat
  BY EmptySeq, LenProperties DEF TypeOK
<1>2. /\ Line \in Seq(Pending) /\ Len(Line) = Len(batch) + Len(auxJobs)
      /\ Line[1] = batch[1]
  BY <1>1, ConcatProperties DEF Line
<1>3. p \in Pending /\ p = Line[1] /\ Line # <<>> /\ p = Head(Line)
  BY <1>1, <1>2, EmptySeq, HeadTailProperties
<1>4. Tail(Line) = Tail(batch) \o auxJobs
  <2>1. /\ Tail(batch) \in Seq(Pending) /\ Len(Tail(batch)) = Len(batch) - 1
        /\ \A i \in 1..(Len(batch) - 1) : Tail(batch)[i] = batch[i + 1]
    BY <1>1, HeadTailProperties
  <2>2. /\ Tail(Line) \in Seq(Pending) /\ Len(Tail(Line)) = Len(Line) - 1
        /\ \A i \in 1..(Len(Line) - 1) : Tail(Line)[i] = Line[i + 1]
    BY <1>2, <1>3, HeadTailProperties
  <2>3. /\ Tail(batch) \o auxJobs \in Seq(Pending)
        /\ Len(Tail(batch) \o auxJobs) = Len(batch) - 1 + Len(auxJobs)
        /\ \A i \in 1..(Len(batch) - 1 + Len(auxJobs)) :
             (Tail(batch) \o auxJobs)[i] =
               IF i <= Len(batch) - 1 THEN Tail(batch)[i]
               ELSE auxJobs[i - (Len(batch) - 1)]
    BY <1>1, <2>1, ConcatProperties
  <2>4. \A i \in 1..(Len(batch) + Len(auxJobs)) :
          Line[i] = IF i <= Len(batch) THEN batch[i] ELSE auxJobs[i - Len(batch)]
    BY <1>1, ConcatProperties DEF Line
  <2>5. \A i \in 1..(Len(batch) - 1 + Len(auxJobs)) :
          Tail(Line)[i] = (Tail(batch) \o auxJobs)[i]
    BY <1>1, <1>2, <2>1, <2>2, <2>3, <2>4
  <2>6. Len(Tail(Line)) = Len(batch) - 1 + Len(auxJobs)
    BY <1>1, <1>2, <2>2
  <2>7. Len(Tail(Line)) = Len(Tail(batch) \o auxJobs)
    BY <2>3, <2>6
  <2>8. \A i \in 1..Len(Tail(Line)) : Tail(Line)[i] = (Tail(batch) \o auxJobs)[i]
    BY <2>5, <2>6
  <2> HIDE DEF Line
  <2> QED BY <2>2, <2>3, <2>7, <2>8, SeqEqual
<1>5. Orderly(Line, gor) BY DEF Ordered
<1>6. 1 \in 1..Len(Line) BY <1>1, <1>2
<1>7. p.op = "start" => gor[p.job] = "queued"
  BY <1>3, <1>5, <1>6 DEF Orderly
<1>8. p.op # "fn" => gor[p.job] # "unused"
  BY <1>3, <1>5, <1>6 DEF Orderly
<1>9. p.op = "clear" => gor[p.job] # "queued"
  <2>1. ~ \E m \in 1..(1 - 1) : StartOf(Line, m, p.job) OBVIOUS
  <2> QED BY <1>3, <1>5, <1>6, <2>1 DEF Orderly
<1> QED BY <1>2, <1>3, <1>4, <1>7, <1>8, <1>9 DEF NotYet
(* The same for the first entry of the batch, as AuxStep executes it.      *)
LEMMA HeadEffect ==
  ASSUME Books, AuxStep
  PROVE  OneJob \/ NoJobs
<1> DEFINE p == Head(batch)
<1>0. TypeOK /\ Ordered /\ ~Unwound /\ batch # <<>>
  BY DEF AuxStep, Books, Unwound
<1>1. /\ p \in Pending
      /\ p.op = "start" => gor[p.job] = "queued"
      /\ p.op = "clear" => ~NotYet(p.job)
      /\ p.op = "immediate" => gor[p.job] # "unused"
  BY <1>0, HeadOfLine
<1>2. execAux(p.op, p.job) /\ UNCHANGED <<running, pc, inBackground, abandoned>>
  BY DEF AuxStep, flags, control
<1> HIDE DEF p
<1>3. CASE p.op = "fn"
  BY <1>0, <1>2, <1>3 DEF execAux, NoJobs, count, Background, Unwound
<1>4. CASE p.op = "start"
  <2>1. p.job \in Delayed BY <1>1, <1>4 DEF Pending
  <2>2. Started(p.job) BY <1>0, <1>1, <1>2, <1>4 DEF execAux, Started
  <2> QED BY <1>2, <2>1, <2>2 DEF OneJob, OnDelayed
<1>5. CASE p.op = "clear"
  <2>1. p.job \in Delayed BY <1>1, <1>5 DEF Pending
  <2>2. clear(p.job) BY <1>2, <1>5 DEF execAux
  <2>3. Removed(p.job) \/ Marked(p.job)
    BY <1>0, <1>1, <1>2, <1>5, <2>1, <2>2, ClearMarks
  <2> QED BY <1>2, <2>1, <2>3 DEF OneJob, OnDelayed
<1>6. CASE p.op = "immediate"
  <2>1. p.job \in Immediates BY <1>1, <1>6 DEF Pending
  <2>2. Performed(p.job) BY <1>1, <1>2, <1>6 DEF execAux, Performed
  <2> QED BY <1>2, <2>1, <2>2 DEF OneJob, OnImmediate
<1> QED BY <1>1, <1>3, <1>4, <1>5, <1>6 DEF Pending

(* A submission hands out at most one handle.                              *)
LEMMA SubmissionHands ==
  ASSUME submission, UNCHANGED <<jobs, idx, cancelled, count, abandoned>>
  PROVE  UNCHANGED gor \/ \E j \in Delayed : Handed(j)
BY DEF submission, RunOnLoop, SetDelayed, ClearDelayed, Handed

(* Every step changes the books of one job at most, and in a way listed    *)
(* above.                                                                  *)
LEMMA StepEffect == ASSUME Books, [Next]_vars PROVE OneJob \/ NoJobs \/ Crashed
<1> USE DEF flags, count, table, queue, control, local
<1>t. TypeOK /\ Phases /\ Counting BY DEF Books
<1>q. ASSUME UNCHANGED <<table, count, pc, inBackground, abandoned>>, Unwound => Unwound'
      PROVE  NoJobs
  BY <1>q DEF NoJobs, Background
<1>d. ASSUME NEW j \in Delayed, OnDelayed(j), UNCHANGED <<running, pc, inBackground>>
      PROVE  OneJob
  BY <1>d DEF OneJob
<1>i. ASSUME NEW m \in Immediates, OnImmediate(m), UNCHANGED <<running, pc, inBackground>>
      PROVE  OneJob
  BY <1>i DEF OneJob
<1>j. ASSUME NEW j \in Delayed PROVE j \in Jobs /\ j \notin Immediates
  BY <1>j, EventLoopAssumption DEF Jobs
<1>1. CASE Start \/ Run
  <2>1. pc = "stopped" /\ pc' = "begin" /\ ~running /\ UNCHANGED <<table, count, abandoned>>
    BY <1>1 DEF Start, Run, setRunning
  <2> QED BY <2>1 DEF NoJobs, Unwound, Background
<1>2. CASE CallStop \/ CallTerminate \/ StopWaits \/ StopReturns
  BY <1>2, <1>q DEF CallStop, CallTerminate, StopWaits, StopReturns, controlStep, Unwound
<1>3. CASE TermBegin
  <2>1. ~running /\ pc \notin TermPcs /\ pc' = "tBegin" /\ UNCHANGED <<table, count, running, abandoned>>
    BY <1>3, <1>t DEF TermBegin, controlStep, Phases
  <2>2. pc = "stopped" BY <2>1, <1>t DEF Phases, TypeOK, LoopPcs, RunPcs, TermPcs
  <2> QED BY <2>1, <2>2 DEF NoJobs, Unwound, Background
<1>4. CASE TermRunAux \/ BeginRun
  <2>1. /\ pc \in {"tBegin", "begin"} /\ pc' \in {"tAux", "aux0"}
        /\ UNCHANGED <<table, count, abandoned>>
    BY <1>4 DEF TermRunAux, BeginRun, takeAux
  <2> QED BY <2>1 DEF NoJobs, Unwound, Background
<1>5. CASE TermAuxDone \/ TermCancelDone
  <2>1. /\ pc \in {"tAux", "tCancel"} /\ pc' \in {"tCancel", "tDrain"}
        /\ UNCHANGED <<table, count, abandoned>>
    BY <1>5 DEF TermAuxDone, TermCancelDone, auxDone
  <2> QED BY <2>1 DEF NoJobs, Unwound, Background
<1>6. CASE TermReturns
  <2>1. pc = "tDrain" /\ pc' = "stopped" /\ UNCHANGED <<table, count, abandoned>>
    BY <1>6 DEF TermReturns, controlStep
  <2> QED BY <2>1 DEF NoJobs, Unwound, Background
<1>7. CASE EnterLoop
  <2>1. /\ pc = "aux0" /\ pc' = "loop" /\ UNCHANGED <<table, counted, inBackground, abandoned>>
        /\ jobCount' = jobCount + (IF inBackground THEN 1 ELSE 0)
    BY <1>7 DEF EnterLoop, auxDone
  <2> QED BY <2>1, <1>t DEF NoJobs, Unwound, Background, TypeOK
<1>8. CASE ReceiveWakeup \/ CheckCanRun
  <2>1. /\ pc \in {"loop", "aux"} /\ pc' \in {"loop", "aux", "exit"}
        /\ UNCHANGED <<table, count, inBackground, abandoned>>
    BY <1>8 DEF ReceiveWakeup, CheckCanRun, takeAux, auxDone
  <2> QED BY <2>1 DEF NoJobs, Unwound, Background
<1>9. CASE LeaveLoop
  <2>1. /\ pc \in {"loop", "exit"} /\ pc' = "stopped" /\ running' = FALSE
        /\ UNCHANGED <<table, counted, inBackground, abandoned>>
        /\ jobCount' = jobCount - (IF inBackground THEN 1 ELSE 0)
    BY <1>9 DEF LeaveLoop, leaveLoop
  <2> QED BY <2>1, <1>t DEF NoJobs, Unwound, Background, TypeOK
<1>10. CASE Broadcast \/ StopNoWait
  BY <1>10, <1>q DEF Broadcast, StopNoWait, Unwound
<1>11. CASE AuxStep
  BY <1>11, HeadEffect
<1>12. CASE TermCancel
  <2> DEFINE j == jobs[ti + 1]
  <2>1. ti + 1 \in 1..Len(jobs) /\ j \in Delayed
    BY <1>12, <1>t, ElementOfSeq, LenProperties DEF TermCancel, TypeOK
  <2>2. Active(j) BY <2>1 DEF Books, Tabled, TableExact
  <2>3. /\ cancelled' = [cancelled EXCEPT ![j] = TRUE] /\ UNCHANGED count
        /\ IF cancelled[j] THEN UNCHANGED <<gor, jobs, idx>> ELSE doCancel(j)
        /\ UNCHANGED <<running, pc, inBackground>>
    BY <1>12 DEF TermCancel
  <2> HIDE DEF j
  <2>4. ~NotYet(j) BY <2>2 DEF Active, NotYet
  <2>5. Ended(j) BY <1>12, <2>3 DEF Ended, TermCancel, j
  <2>6. Removed(j) \/ Marked(j)
    BY <2>2, <2>3, <2>4, <2>5 DEF doCancel, Removed, Marked, Working
  <2> QED BY <2>1, <2>3, <2>6, <1>d DEF OnDelayed
<1>13. ASSUME NEW t \in Timers, ReceiveTimeout(t) PROVE OneJob
  <2>1. t \in Delayed BY DEF Delayed
  <2>2. Removed(t)
    BY <1>13 DEF ReceiveTimeout, received, Removed, Working, Ended
  <2> QED BY <1>13, <2>1, <2>2, <1>d DEF OnDelayed, ReceiveTimeout, received
<1>14. ASSUME NEW i \in Intervals, ReceiveTick(i) PROVE OneJob
  <2>1. i \in Delayed BY DEF Delayed
  <2>2. Moved(i) BY <1>14 DEF ReceiveTick, received, Moved, Working
  <2> QED BY <1>14, <2>1, <2>2, <1>d DEF OnDelayed, ReceiveTick, received
<1>15. ASSUME NEW i \in Intervals, ReceiveRemoval(i) PROVE OneJob
  <2>1. i \in Delayed BY DEF Delayed
  <2>2. cancelled[i]
    BY <1>15, <1>t, <2>1, <1>j DEF ReceiveRemoval, received, Counting, Entry
  <2>3. Removed(i)
    BY <1>15, <2>2 DEF ReceiveRemoval, received, Removed, Working, Ended
  <2> QED BY <1>15, <2>1, <2>3, <1>d DEF OnDelayed, ReceiveRemoval, received
<1>16. ASSUME NEW j \in Delayed, CbSchedule(j) PROVE OneJob
  <2>0. ~Unwound BY <1>16, <1>t DEF CbSchedule, inCallback, Phases, Unwound
  <2>1. Started(j) BY <1>16, <2>0 DEF CbSchedule, inCallback, Started
  <2> QED BY <1>16, <2>1, <1>d DEF OnDelayed, CbSchedule, inCallback
<1>17. ASSUME NEW j \in Delayed, CbClear(j) PROVE OneJob
  <2>1. /\ clear(j) /\ UNCHANGED abandoned
        /\ ~NotYet(j) \/ (gor[j] = "queued" /\ ~(j \in Timers))
    BY <1>17 DEF CbClear, inCallback, NotYet
  <2>2. Removed(j) \/ Marked(j) \/ Overtaken(j)
    BY <2>1, <1>t, ClearMarks, ClearOvertakes
  <2> QED BY <1>17, <2>2, <1>d DEF OnDelayed, CbClear, inCallback
<1>18. ASSUME NEW m \in Immediates, CbSetImmediate(m) PROVE OneJob
  <2>1. Promised(m) BY <1>18 DEF CbSetImmediate, inCallback, Promised
  <2> QED BY <1>18, <2>1, <1>i DEF OnImmediate, CbSetImmediate, inCallback
<1>19. ASSUME NEW m \in Immediates, CbClearImmediate(m) PROVE OneJob
  <2>1. Marked(m)
    BY <1>19, <1>j DEF CbClearImmediate, inCallback, Marked, Ended, NotYet
  <2> QED BY <1>19, <2>1, <1>i DEF OnImmediate, CbClearImmediate, inCallback
<1>20. CASE CbSubmit
  <2>1. UNCHANGED gor \/ \E j \in Delayed : Handed(j)
    BY <1>20, SubmissionHands DEF CbSubmit, inCallback
  <2>2. CASE UNCHANGED gor
    BY <1>20, <2>2, <1>q DEF CbSubmit, inCallback, Unwound
  <2>3. CASE \E j \in Delayed : Handed(j)
    BY <1>20, <2>3, <1>d DEF CbSubmit, inCallback, OnDelayed
  <2> QED BY <2>1, <2>2, <2>3
<1>21. CASE CallbackReturn
  BY <1>21, <1>q DEF CallbackReturn, inCallback, Unwound
<1>22. CASE CallbackPanic
  <2>1. pc \in RunPcs
    BY <1>22, <1>t DEF CallbackPanic, unwinds, Phases, RunPcs, TermPcs
  <2>2. Unwound' BY <1>22, <2>1, <1>t DEF CallbackPanic, unwinds, Phases, Unwound
  <2> QED BY <1>22, <2>2 DEF CallbackPanic, unwinds, NoJobs
<1>23. ASSUME NEW t \in Timers, TimerFires(t) PROVE OneJob
  <2>1. t \in Delayed BY DEF Delayed
  <2>2. Moved(t) BY <1>23 DEF TimerFires, gorStep, Moved, Working
  <2> QED BY <1>23, <2>1, <2>2, <1>d DEF OnDelayed, TimerFires, gorStep
<1>24. ASSUME NEW i \in Intervals, IntervalTicks(i) \/ IntervalStops(i) PROVE OneJob
  <2>1. i \in Delayed BY DEF Delayed
  <2>2. Moved(i)
    BY <1>24 DEF IntervalTicks, IntervalStops, gorStep, Moved, Working
  <2> QED BY <1>24, <2>1, <2>2, <1>d DEF OnDelayed, IntervalTicks, IntervalStops, gorStep
<1>25. ASSUME NEW c \in Clients, Submit(c) PROVE OneJob \/ NoJobs
  <2>1. UNCHANGED gor \/ \E j \in Delayed : Handed(j)
    BY <1>25, SubmissionHands DEF Submit
  <2>2. CASE UNCHANGED gor BY <1>25, <2>2, <1>q DEF Submit, Unwound
  <2>3. CASE \E j \in Delayed : Handed(j) BY <1>25, <2>3, <1>d DEF Submit, OnDelayed
  <2> QED BY <2>1, <2>2, <2>3
<1>26. ASSUME NEW c \in Clients, Wakeup(c) PROVE NoJobs
  BY <1>26, <1>q DEF Wakeup, Unwound
<1>27. CASE UNCHANGED vars
  BY <1>27, <1>q DEF vars, Unwound
<1>28. ASSUME NEW t \in Timers, CbClearPanics(t) PROVE Crashed
  <2>1. pc \in RunPcs
    BY <1>28, <1>t DEF CbClearPanics, unwinds, Phases, RunPcs, TermPcs
  <2>2. Unwound' BY <1>28, <2>1, <1>t DEF CbClearPanics, unwinds, Phases, Unwound
  <2> QED BY <1>28, <2>2 DEF CbClearPanics, unwinds, Crashed
<1> QED
  BY <1>1, <1>2, <1>3, <1>4, <1>5, <1>6, <1>7, <1>8, <1>9, <1>10, <1>11, <1>12,
     <1>13, <1>14, <1>15, <1>16, <1>17, <1>18, <1>19, <1>20, <1>21, <1>22, <1>23,
     <1>24, <1>25, <1>26, <1>27, <1>28
  DEF Next, ControlNext, LoopNext, CallbackNext, EnvNext
-----------------------------------------------------------------------------
(* The table.                                                              *)

(* What removeJob does to an entry of the table: it overwrites the entry   *)
(* with the last one and drops the last.                                   *)
LEMMA RemoveJobEffect ==
  ASSUME TypeOK, TableExact, NEW j \in Delayed, Active(j), removeJob(j)
  PROVE  LET n == Len(jobs)
             k == idx[j] + 1
         IN /\ n \in Nat /\ k \in 1..n /\ jobs[k] = j
            /\ Len(jobs') = n - 1
            /\ \A i \in 1..(n - 1) : jobs'[i] = IF i = k THEN jobs[n] ELSE jobs[i]
            /\ \A l \in Delayed :
                 idx'[l] = IF l = j THEN -1 ELSE IF l = jobs[n] THEN k - 1 ELSE idx[l]
<1> DEFINE n == Len(jobs)
           k == idx[j] + 1
           last == jobs[n]
           t == [jobs EXCEPT ![k] = last]
<1>1. /\ n \in Nat /\ jobs \in Seq(Delayed) /\ j \in Jobs /\ idx[j] \in Int
      /\ idx \in [Jobs -> Int]
  BY LenProperties DEF TypeOK, Jobs
<1>2. k \in 1..n /\ jobs[k] = j BY DEF TableExact
<1>3. last \in Delayed /\ n \in 1..n BY <1>1, <1>2, ElementOfSeq
<1>4. ~(idx[j] < 0) BY <1>1, <1>2
<1>5. jobs' = SubSeq(t, 1, n - 1) /\ idx' = [idx EXCEPT ![last] = idx[j], ![j] = -1]
  BY <1>4 DEF removeJob
<1>6. /\ t \in Seq(Delayed) /\ Len(t) = n
      /\ \A i \in 1..n : t[i] = IF i = k THEN last ELSE jobs[i]
  BY <1>1, <1>2, <1>3, ExceptSeq
<1> HIDE DEF t
<1>7. Len(jobs') = n - 1 /\ \A i \in 1..(n - 1) : jobs'[i] = t[i]
  <2>1. /\ Len(SubSeq(t, 1, n - 1)) = IF 1 <= n - 1 THEN (n - 1) - 1 + 1 ELSE 0
        /\ \A i \in 1..((n - 1) - 1 + 1) : SubSeq(t, 1, n - 1)[i] = t[1 + i - 1]
    BY <1>1, <1>2, <1>3, <1>6, SubSeqProperties
  <2>2. Len(jobs') = n - 1
    <3>1. Len(SubSeq(t, 1, n - 1)) = n - 1
      <4> DEFINE l == Len(SubSeq(t, 1, n - 1))
      <4>1. l = IF 1 <= n - 1 THEN (n - 1) - 1 + 1 ELSE 0 BY <2>1
      <4> HIDE DEF l
      <4>2. n \in Nat /\ n >= 1 BY <1>1, <1>3
      <4>3. l = n - 1
        <5> HIDE DEF n
        <5> QED BY <4>1, <4>2
      <4> QED BY <4>3 DEF l
    <3> QED BY <1>5, <3>1
  <2>3. ASSUME NEW i \in 1..(n - 1) PROVE jobs'[i] = t[i]
    <3>1. i \in 1..((n - 1) - 1 + 1) /\ 1 + i - 1 = i
      BY <1>1
    <3>2. SubSeq(t, 1, n - 1)[i] = t[1 + i - 1]
      BY <2>1, <3>1
    <3> QED BY <1>5, <3>1, <3>2
  <2> QED BY <2>2, <2>3
<1>8. \A l \in Delayed :
        idx'[l] = IF l = j THEN -1 ELSE IF l = last THEN k - 1 ELSE idx[l]
  BY <1>1, <1>5 DEF Jobs
<1> QED BY <1>1, <1>2, <1>6, <1>7, <1>8

(* Removing the entry of a job that is done keeps the table exact.         *)
LEMMA RemoveExact ==
  ASSUME TypeOK, TableExact, NEW j \in Delayed, Active(j), removeJob(j),
         gor' = [gor EXCEPT ![j] = "done"]
  PROVE  TableExact'
<1> DEFINE n == Len(jobs)
           k == idx[j] + 1
           last == jobs[n]
<1>1. /\ n \in Nat /\ k \in 1..n /\ jobs[k] = j /\ Len(jobs') = n - 1
      /\ \A i \in 1..(n - 1) : jobs'[i] = IF i = k THEN last ELSE jobs[i]
      /\ \A l \in Delayed :
           idx'[l] = IF l = j THEN -1 ELSE IF l = last THEN k - 1 ELSE idx[l]
  BY RemoveJobEffect
<1>2. \A i \in 1..n : jobs[i] \in Delayed /\ gor[jobs[i]] \in Working /\ idx[jobs[i]] = i - 1
  BY ElementOfSeq DEF TypeOK, TableExact, Active, Working
<1>3. \A i \in 1..n : jobs[i] = j <=> i = k
  BY <1>1, <1>2
<1>4. /\ gor'[j] \notin Working
      /\ \A l \in Delayed : l # j => gor'[l] = gor[l]
  BY DEF TypeOK, Working, Jobs
<1>i. \A l \in Delayed : idx[l] \in Int BY DEF TypeOK, Jobs
<1>5. ASSUME NEW i \in 1..Len(jobs') PROVE gor'[jobs'[i]] \in Working /\ idx'[jobs'[i]] = i - 1
  <2>1. i \in 1..(n - 1) /\ i \in 1..n /\ n \in 1..n BY <1>1
  <2>2. CASE i = k
    <3>1. jobs'[i] = last /\ last # j /\ last \in Delayed /\ gor[last] \in Working
      BY <1>1, <1>2, <1>3, <2>1, <2>2
    <3>2. gor'[last] \in Working BY <1>4, <3>1
    <3>3. idx'[last] = k - 1 BY <1>1, <3>1
    <3> QED BY <2>2, <3>1, <3>2, <3>3
  <2>3. CASE i # k
    <3>1. jobs'[i] = jobs[i] /\ jobs[i] # j /\ jobs[i] \in Delayed /\ gor[jobs[i]] \in Working
      BY <1>1, <1>2, <1>3, <2>1, <2>3
    <3>2. jobs[i] # last BY <1>1, <1>2, <2>1
    <3>3. gor'[jobs[i]] \in Working BY <1>4, <3>1
    <3>4. idx'[jobs[i]] = i - 1 BY <1>1, <1>2, <2>1, <3>1, <3>2
    <3> QED BY <3>1, <3>3, <3>4
  <2> QED BY <2>2, <2>3
<1>6. ASSUME NEW l \in Delayed, gor'[l] \in Working
      PROVE  idx'[l] + 1 \in 1..Len(jobs') /\ jobs'[idx'[l] + 1] = l
  <2>1. l # j /\ gor[l] \in Working BY <1>4, <1>6
  <2>2. idx[l] + 1 \in 1..n /\ jobs[idx[l] + 1] = l BY <2>1 DEF TableExact, Active, Working
  <2>3. idx[l] + 1 # k BY <1>1, <2>1, <2>2
  <2>4. CASE l = last
    <3>1. idx'[l] = k - 1 BY <1>1, <2>1, <2>4
    <3>2. n \in 1..n /\ idx[l] = n - 1 BY <1>1, <1>2, <2>4
    <3>3. k \in 1..(n - 1) BY <1>1, <1>i, <2>3, <3>2
    <3>4. jobs'[k] = last BY <1>1, <3>3
    <3> QED BY <1>1, <2>4, <3>1, <3>3, <3>4
  <2>5. CASE l # last
    <3>1. idx'[l] = idx[l] BY <1>1, <2>1, <2>5
    <3>2. idx[l] + 1 # n BY <2>2, <2>5
    <3>3. idx[l] + 1 \in 1..(n - 1) BY <1>1, <1>i, <2>2, <3>2
    <3>4. jobs'[idx[l] + 1] = l BY <1>1, <2>2, <2>3, <3>3
    <3> QED BY <1>1, <3>1, <3>3, <3>4
  <2> QED BY <2>4, <2>5
<1> QED BY <1>5, <1>6 DEF TableExact, Active, Working

(* Starting a job that is not in the table appends it.                     *)
LEMMA StartExact ==
  ASSUME TypeOK, TableExact, NEW j \in Delayed, ~Active(j), start(j)
  PROVE  TableExact'
<1> DEFINE n == Len(jobs)
<1>1. /\ n \in Nat /\ Len(jobs') = n + 1 /\ jobs'[n + 1] = j
      /\ \A i \in 1..n : jobs'[i] = jobs[i]
  BY AppendProperties, LenProperties DEF TypeOK, start
<1>2. \A l \in Delayed : idx'[l] = IF l = j THEN n ELSE idx[l]
  BY DEF TypeOK, start, Jobs
<1>3. /\ gor'[j] \in Working
      /\ \A l \in Delayed : l # j => gor'[l] = gor[l]
  BY DEF TypeOK, start, Working, Jobs
<1>4. \A i \in 1..n : jobs[i] \in Delayed /\ gor[jobs[i]] \in Working /\ idx[jobs[i]] = i - 1
  BY ElementOfSeq DEF TypeOK, TableExact, Active, Working
<1>5. ASSUME NEW i \in 1..Len(jobs') PROVE gor'[jobs'[i]] \in Working /\ idx'[jobs'[i]] = i - 1
  <2>1. CASE i = n + 1 BY <1>1, <1>2, <1>3, <2>1
  <2>2. CASE i # n + 1
    <3>1. i \in 1..n BY <1>1, <2>2
    <3>2. jobs'[i] = jobs[i] /\ jobs[i] # j
      BY <1>1, <1>4, <3>1 DEF Active, Working
    <3> QED BY <1>2, <1>3, <1>4, <3>1, <3>2
  <2> QED BY <2>1, <2>2
<1>6. ASSUME NEW l \in Delayed, gor'[l] \in Working
      PROVE  idx'[l] + 1 \in 1..Len(jobs') /\ jobs'[idx'[l] + 1] = l
  <2>1. CASE l = j BY <1>1, <1>2, <2>1
  <2>2. CASE l # j
    <3>1. idx[l] + 1 \in 1..n /\ jobs[idx[l] + 1] = l
      BY <1>3, <1>6, <2>2 DEF TableExact, Active, Working
    <3> QED BY <1>1, <1>2, <2>2, <3>1
  <2> QED BY <2>1, <2>2
<1> QED BY <1>5, <1>6 DEF TableExact, Active, Working
(* Every step keeps the table exact.                                       *)
LEMMA TabledStep ==
  ASSUME TypeOK, Tabled, OneJob \/ NoJobs \/ Crashed
  PROVE  Tabled'
<1> USE DEF table, count
<1>0. \A j \in Delayed : j \in Jobs /\ j \notin Immediates
  BY EventLoopAssumption DEF Jobs
<1>u. ASSUME UNCHANGED <<jobs, idx, gor>> PROVE Tabled'
  BY <1>u DEF Tabled, TableExact, Active
<1>1. CASE NoJobs \/ Crashed BY <1>1, <1>u DEF NoJobs, Crashed
<1>2. ASSUME NEW j \in Delayed, OnDelayed(j) PROVE Tabled'
  <2>i. ASSUME \A k \in Jobs \ {j} : gor'[k] = gor[k] PROVE \A m \in Immediates : ~Active(m)'
    BY <2>i, <1>0 DEF Tabled, Active, Jobs
  <2>1. CASE Started(j)
    <3>1. ~Active(j) /\ start(j) BY <2>1 DEF Started, Active
    <3>2. TableExact' BY <3>1, StartExact DEF Tabled
    <3>3. \A k \in Jobs \ {j} : gor'[k] = gor[k] BY <3>1 DEF start, TypeOK
    <3> QED BY <3>2, <3>3, <2>i DEF Tabled
  <2>2. CASE Moved(j)
    <3>1. PICK s \in Working : gor' = [gor EXCEPT ![j] = s] BY <2>2 DEF Moved
    <3>2. \A k \in Jobs : gor'[k] \in Working <=> gor[k] \in Working
      BY <2>2, <3>1 DEF Moved, TypeOK
    <3>3. UNCHANGED <<jobs, idx>> BY <2>2 DEF Moved
    <3>4. \A n \in 1..Len(jobs) : jobs[n] \in Jobs
      BY ElementOfSeq DEF TypeOK, Jobs
    <3>5. TableExact'
      BY <1>0, <3>2, <3>3, <3>4 DEF Tabled, TableExact, Active, Working
    <3>6. \A m \in Immediates : ~Active(m)'
      BY <3>2 DEF Tabled, Active, Working, Jobs
    <3> QED BY <3>5, <3>6 DEF Tabled
  <2>3. CASE Removed(j)
    <3>1. Active(j) /\ removeJob(j) /\ gor' = [gor EXCEPT ![j] = "done"]
      BY <2>3 DEF Removed, Active, Working
    <3>2. TableExact' BY <3>1, RemoveExact DEF Tabled
    <3>3. \A k \in Jobs \ {j} : gor'[k] = gor[k] BY <3>1 DEF TypeOK
    <3> QED BY <3>2, <3>3, <2>i DEF Tabled
  <2>4. CASE Marked(j) \/ Overtaken(j) BY <2>4, <1>u DEF Marked, Overtaken
  <2>5. CASE Handed(j)
    <3>1. \A k \in Jobs : gor'[k] \in Working <=> gor[k] \in Working
      BY <2>5 DEF Handed, TypeOK, Working
    <3>2. UNCHANGED <<jobs, idx>> BY <2>5 DEF Handed
    <3>3. \A n \in 1..Len(jobs) : jobs[n] \in Jobs
      BY ElementOfSeq DEF TypeOK, Jobs
    <3>4. TableExact'
      BY <1>0, <3>1, <3>2, <3>3 DEF Tabled, TableExact, Active, Working
    <3>5. \A m \in Immediates : ~Active(m)'
      BY <3>1 DEF Tabled, Active, Working, Jobs
    <3> QED BY <3>4, <3>5 DEF Tabled
  <2> QED BY <1>2, <2>1, <2>2, <2>3, <2>4, <2>5 DEF OnDelayed
<1>3. ASSUME NEW m \in Immediates, OnImmediate(m) PROVE Tabled'
  <2>1. CASE Marked(m) BY <2>1, <1>u DEF Marked
  <2>2. CASE Promised(m) \/ Performed(m)
    <3>1. /\ \A k \in Jobs \ {m} : gor'[k] = gor[k]
          /\ gor'[m] \in {"queued", "done"}
          /\ UNCHANGED <<jobs, idx>>
      BY <2>2 DEF Promised, Performed, TypeOK, Jobs
    <3>2. \A n \in 1..Len(jobs) : jobs[n] \in Delayed
      BY ElementOfSeq DEF TypeOK
    <3>3. \A j \in Delayed : j \in Jobs \ {m} BY <1>0
    <3>4. TableExact' BY <3>1, <3>2, <3>3 DEF Tabled, TableExact, Active
    <3>5. \A l \in Immediates : ~Active(l)' BY <3>1 DEF Tabled, Active, Jobs
    <3> QED BY <3>4, <3>5 DEF Tabled
  <2> QED BY <1>3, <2>1, <2>2 DEF OnImmediate
<1> QED BY <1>1, <1>2, <1>3 DEF OneJob

-----------------------------------------------------------------------------
(* The count.                                                              *)

(* What ending a job does to its entry: it is cancelled, and counted only  *)
(* if Terminate ends it; it leaves the count at most once.                 *)
LEMMA EndedCount ==
  ASSUME TypeOK, Counting, NEW j \in Jobs, ~NotYet(j), Ended(j)
  PROVE  /\ \A k \in Jobs \ {j} : /\ cancelled'[k] = cancelled[k]
                                  /\ k \in counted' <=> k \in counted
                                  /\ k \in abandoned' <=> k \in abandoned
         /\ cancelled'[j] /\ (j \in counted' <=> j \in abandoned')
         /\ \/ UNCHANGED count
            \/ j \in counted /\ countOut(j)
<1>0. /\ j \in counted <=> ~cancelled[j] \/ j \in abandoned
      /\ j \in abandoned => cancelled[j]
  BY DEF Counting, Entry
<1>1. CASE settle(j) /\ UNCHANGED abandoned
  <2>1. CASE cancelled[j] BY <1>0, <1>1, <2>1 DEF settle, count
  <2>2. CASE ~cancelled[j]
    BY <1>0, <1>1, <2>2 DEF settle, countOut, TypeOK
  <2> QED BY <2>1, <2>2
<1>2. CASE /\ cancelled' = [cancelled EXCEPT ![j] = TRUE] /\ UNCHANGED count
           /\ abandoned' = IF cancelled[j] THEN abandoned ELSE abandoned \cup {j}
  BY <1>0, <1>2 DEF count, TypeOK
<1>3. CASE cancelled[j] /\ UNCHANGED <<cancelled, count, abandoned>>
  BY <1>0, <1>3 DEF count
<1> QED BY <1>1, <1>2, <1>3 DEF Ended

(* An entry changes only with what it is about.                            *)
LEMMA EntryKeeps ==
  ASSUME NEW k, Entry(k), gor'[k] = gor[k], cancelled'[k] = cancelled[k],
         k \in counted' <=> k \in counted, k \in abandoned' <=> k \in abandoned,
         Unwound => Unwound'
  PROVE  Entry(k)'
BY DEF Entry, NotYet, Active

(* Every step counts jobs in when they start and out when they end.        *)
LEMMA CountingStep ==
  ASSUME TypeOK, Tabled, Counting, OneJob \/ NoJobs \/ Crashed
  PROVE  Counting'
<1> USE DEF table, count
<1>0. \A j \in Delayed : j \in Jobs /\ j \notin Immediates
  BY EventLoopAssumption DEF Jobs
<1>t. \A t \in Timers : t \in Delayed /\ t \in Jobs /\ t \notin Intervals
  BY EventLoopAssumption DEF Delayed, Jobs
<1>c. \A k \in Jobs : Entry(k) BY DEF Counting
<1>w. Unwound => Unwound' BY DEF OneJob, NoJobs, Crashed, Unwound
<1>k. ASSUME NEW j \in Jobs, Entry(j)',
             \A k \in Jobs \ {j} : /\ gor'[k] = gor[k] /\ cancelled'[k] = cancelled[k]
                                   /\ k \in counted' <=> k \in counted
                                   /\ k \in abandoned' <=> k \in abandoned
      PROVE  Counting'
  <2>1. \A k \in Jobs \ {j} : Entry(k)' BY <1>c, <1>k, <1>w, EntryKeeps
  <2> QED BY <1>k, <2>1 DEF Counting
<1>e. ASSUME NEW j \in Jobs, ~NotYet(j), Ended(j),
             \A k \in Jobs \ {j} : gor'[k] = gor[k],
             gor'[j] = gor[j] \/ gor'[j] = "done"
      PROVE  Counting'
  <2>1. /\ \A k \in Jobs \ {j} : /\ cancelled'[k] = cancelled[k]
                                 /\ k \in counted' <=> k \in counted
                                 /\ k \in abandoned' <=> k \in abandoned
        /\ cancelled'[j] /\ (j \in counted' <=> j \in abandoned')
    BY <1>e, EndedCount
  <2>2. gor'[j] # "unused" /\ ~(j \in Delayed /\ gor'[j] = "queued")
    BY <1>e DEF NotYet
  <2>3. Entry(j)' BY <1>t, <2>1, <2>2 DEF Entry, NotYet
  <2> QED BY <1>e, <1>k, <2>1, <2>3
<1>s. ASSUME NEW j \in Jobs, settle(j), NotYet(j), UNCHANGED <<gor, abandoned>>
      PROVE  /\ \A k \in Jobs \ {j} : /\ gor'[k] = gor[k] /\ cancelled'[k] = cancelled[k]
                                      /\ k \in counted' <=> k \in counted
                                      /\ k \in abandoned' <=> k \in abandoned
             /\ j \notin counted' /\ j \notin abandoned'
  <2>1. j \notin counted /\ j \notin abandoned BY <1>c, <1>s DEF Entry
  <2>2. CASE cancelled[j] BY <1>s, <2>1, <2>2 DEF settle
  <2>3. CASE ~cancelled[j] BY <1>s, <2>1, <2>3 DEF settle, countOut, TypeOK
  <2> QED BY <2>2, <2>3
<1>1. CASE NoJobs
  BY <1>1, <1>c, <1>w, EntryKeeps DEF NoJobs, Counting
<1>4. CASE Crashed
  <2>1. PICK t \in Timers : gor[t] = "queued" /\ settle(t) BY <1>4 DEF Crashed
  <2>2. NotYet(t) /\ t \in Jobs BY <1>t, <2>1 DEF NotYet
  <2>3. UNCHANGED <<gor, abandoned>> /\ Unwound' BY <1>4 DEF Crashed
  <2>4. t \notin counted' /\ t \notin abandoned' BY <1>s, <2>1, <2>2, <2>3
  <2>5. Entry(t)' BY <2>1, <2>2, <2>3, <2>4 DEF Entry, NotYet
  <2> QED BY <1>k, <1>s, <2>1, <2>2, <2>3, <2>5
<1>2. ASSUME NEW j \in Delayed, OnDelayed(j) PROVE Counting'
  <2>1. CASE Started(j)
    <3>1. /\ NotYet(j) /\ UNCHANGED <<cancelled, abandoned>>
          /\ counted' = IF cancelled[j] THEN counted ELSE counted \cup {j}
          /\ \A k \in Jobs \ {j} : gor'[k] = gor[k]
          /\ gor'[j] \in {"armed", "ticking"}
      BY <1>0, <2>1 DEF Started, start, NotYet, countIn, TypeOK
    <3>2. j \notin counted /\ j \notin abandoned BY <1>0, <1>c, <3>1 DEF Entry
    <3>3. Entry(j)' BY <3>1, <3>2 DEF Entry, NotYet, Active
    <3>4. \A k \in Jobs \ {j} : k \in counted' <=> k \in counted BY <3>1
    <3> QED BY <1>0, <1>k, <3>1, <3>3, <3>4
  <2>2. CASE Moved(j)
    <3>1. PICK s \in Working : gor' = [gor EXCEPT ![j] = s] /\ (s = "removing" => cancelled[j])
      BY <2>2 DEF Moved
    <3>2. /\ gor[j] \in Working /\ gor'[j] = s /\ \A k \in Jobs \ {j} : gor'[k] = gor[k]
          /\ UNCHANGED <<cancelled, counted, abandoned>>
      BY <1>0, <2>2, <3>1 DEF Moved, TypeOK
    <3>3. Entry(j) BY <1>0, <1>c
    <3>4. gor'[j] \in Working /\ (gor'[j] = "removing" => cancelled[j]) BY <3>1, <3>2
    <3>5. Entry(j)' BY <3>2, <3>3, <3>4 DEF Entry, NotYet, Active, Working
    <3> QED BY <1>0, <1>k, <3>2, <3>5
  <2>5. CASE Handed(j)
    <3>1. /\ UNCHANGED <<cancelled, counted, abandoned>>
          /\ gor[j] = "unused" /\ gor'[j] = "queued"
          /\ \A k \in Jobs \ {j} : gor'[k] = gor[k]
      BY <1>0, <2>5 DEF Handed, TypeOK
    <3>2. Entry(j) BY <1>0, <1>c
    <3>3. Entry(j)' BY <3>1, <3>2 DEF Entry, NotYet, Active
    <3> QED BY <1>0, <1>k, <3>1, <3>3
  <2>3. CASE Removed(j)
    <3>1. /\ ~NotYet(j) /\ Ended(j) /\ gor'[j] = "done"
          /\ \A k \in Jobs \ {j} : gor'[k] = gor[k]
      BY <1>0, <2>3 DEF Removed, Working, NotYet, TypeOK
    <3> QED BY <1>0, <3>1, <1>e
  <2>4. CASE Marked(j) BY <1>0, <2>4, <1>e DEF Marked
  <2>6. CASE Overtaken(j)
    <3>1. /\ j \in Jobs /\ j \notin Timers /\ NotYet(j) /\ settle(j) /\ gor[j] = "queued"
          /\ UNCHANGED <<gor, abandoned>>
      BY <1>0, <1>t, <2>6 DEF Overtaken, NotYet
    <3>2. j \notin counted' /\ j \notin abandoned' BY <1>s, <3>1
    <3>3. Entry(j)' BY <3>1, <3>2 DEF Entry, NotYet
    <3> QED BY <1>k, <1>s, <3>1, <3>3
  <2> QED BY <1>2, <2>1, <2>2, <2>3, <2>4, <2>5, <2>6 DEF OnDelayed
<1>3. ASSUME NEW m \in Immediates, OnImmediate(m) PROVE Counting'
  <2>0. m \in Jobs /\ m \notin Delayed /\ m \notin Timers BY <1>0, <1>t DEF Jobs
  <2>1. CASE Marked(m) BY <2>0, <2>1, <1>e DEF Marked
  <2>2. CASE Promised(m)
    <3>0. NotYet(m) /\ ~cancelled[m] /\ m \notin counted /\ m \notin abandoned
      BY <1>c, <2>0, <2>2 DEF Promised, NotYet, Entry
    <3>1. /\ counted' = counted \cup {m} /\ UNCHANGED <<cancelled, abandoned>>
          /\ \A k \in Jobs \ {m} : gor'[k] = gor[k]
          /\ gor'[m] \in {"queued", "done"}
      BY <2>0, <2>2, <3>0 DEF Promised, countIn, TypeOK
    <3>2. Entry(m)' BY <2>0, <3>0, <3>1 DEF Entry, NotYet
    <3>3. \A k \in Jobs \ {m} : k \in counted' <=> k \in counted BY <3>1
    <3> QED BY <1>k, <2>0, <3>1, <3>2, <3>3
  <2>3. CASE Performed(m)
    <3>1. /\ ~NotYet(m) /\ Ended(m) /\ gor'[m] = "done"
          /\ \A k \in Jobs \ {m} : gor'[k] = gor[k]
      BY <2>0, <2>3 DEF Performed, Ended, NotYet, TypeOK
    <3> QED BY <2>0, <3>1, <1>e
  <2> QED BY <1>3, <2>1, <2>2, <2>3 DEF OnImmediate
<1> QED BY <1>1, <1>2, <1>3, <1>4 DEF OneJob

(* What is left of jobCount when the jobs are taken out.                   *)
Balance == jobCount - Cardinality(counted) + Cardinality(Owed)

(* The sets it is made of are finite.                                      *)
LEMMA Cardinalities ==
  ASSUME TypeOK, TypeOK'
  PROVE  /\ IsFiniteSet(counted) /\ IsFiniteSet(Owed)
         /\ Cardinality(counted) \in Nat /\ Cardinality(counted') \in Nat
         /\ Cardinality(Owed) \in Nat /\ Cardinality(Owed') \in Nat
         /\ jobCount \in Int /\ jobCount' \in Int
<1>1. \A S \in SUBSET Jobs : IsFiniteSet(S) /\ Cardinality(S) \in Nat
  BY EventLoopAssumption, FS_Subset, FS_CardinalityType
<1>2. Owed \in SUBSET Jobs /\ Owed' \in SUBSET Jobs BY DEF Owed, Jobs, Delayed
<1>3. counted \in SUBSET Jobs /\ counted' \in SUBSET Jobs
      /\ jobCount \in Int /\ jobCount' \in Int
  BY DEF TypeOK
<1> QED BY <1>1, <1>2, <1>3

(* A job enters or leaves the count with its jobCount++ or jobCount--, ... *)
LEMMA CountMoves ==
  ASSUME TypeOK, TypeOK', NEW j \in Jobs, Owed' = Owed,
         \/ UNCHANGED count
         \/ j \in counted /\ countOut(j)
         \/ j \notin counted /\ ~cancelled[j] /\ countIn(j)
  PROVE  Balance' = Balance
<1>1. /\ IsFiniteSet(counted) /\ Cardinality(counted) \in Nat
      /\ Cardinality(counted') \in Nat /\ Cardinality(Owed) \in Nat
      /\ jobCount \in Int
  BY Cardinalities
<1>2. CASE UNCHANGED count BY <1>2 DEF count, Balance
<1>3. CASE j \in counted /\ countOut(j)
  <2>1. Cardinality(counted \ {j}) = Cardinality(counted) - 1
    BY <1>1, <1>3, FS_RemoveElement
  <2> QED BY <1>1, <1>3, <2>1 DEF countOut, Balance
<1>4. CASE j \notin counted /\ ~cancelled[j] /\ countIn(j)
  <2>1. Cardinality(counted \cup {j}) = Cardinality(counted) + 1
    BY <1>1, <1>4, FS_AddElement
  <2> QED BY <1>1, <1>4, <2>1 DEF countIn, Balance
<1> QED BY <1>2, <1>3, <1>4

(* ... and an interval cleared before its start pays in advance.           *)
LEMMA CountOwed ==
  ASSUME TypeOK, TypeOK', NEW j \in Jobs, j \notin counted,
         \/ j \notin Owed /\ Owed' = Owed \cup {j} /\ countOut(j)
         \/ j \in Owed /\ Owed' = Owed \ {j} /\ cancelled[j] /\ countIn(j)
  PROVE  Balance' = Balance
<1>1. /\ IsFiniteSet(Owed) /\ Cardinality(Owed) \in Nat /\ Cardinality(Owed') \in Nat
      /\ Cardinality(counted) \in Nat /\ jobCount \in Int
  BY Cardinalities
<1>2. CASE j \notin Owed /\ Owed' = Owed \cup {j} /\ countOut(j)
  <2>1. Cardinality(Owed \cup {j}) = Cardinality(Owed) + 1
    BY <1>1, <1>2, FS_AddElement
  <2>2. counted' = counted /\ jobCount' = jobCount - 1 BY <1>2 DEF countOut
  <2> QED BY <1>1, <1>2, <2>1, <2>2 DEF Balance
<1>3. CASE j \in Owed /\ Owed' = Owed \ {j} /\ cancelled[j] /\ countIn(j)
  <2>1. Cardinality(Owed \ {j}) = Cardinality(Owed) - 1
    BY <1>1, <1>3, FS_RemoveElement
  <2>2. counted' = counted /\ jobCount' = jobCount + 1 BY <1>3 DEF countIn
  <2> QED BY <1>1, <1>3, <2>1, <2>2 DEF Balance
<1> QED BY <1>2, <1>3

(* Every step keeps jobCount exact.                                        *)
LEMMA CountExactStep ==
  ASSUME TypeOK, TypeOK', Counting, CountExact, OneJob \/ NoJobs \/ Crashed
  PROVE  CountExact'
<1> USE DEF table, count
<1>0. \A j \in Delayed : j \in Jobs /\ j \notin Immediates
  BY EventLoopAssumption DEF Jobs
<1>i. \A i \in Intervals : i \in Delayed /\ i \in Jobs BY DEF Delayed, Jobs
<1>c. \A k \in Jobs : Entry(k) BY DEF Counting
<1>n. /\ Cardinality(counted) \in Nat /\ Cardinality(counted') \in Nat
      /\ Cardinality(Owed) \in Nat /\ Cardinality(Owed') \in Nat
      /\ jobCount \in Int /\ jobCount' \in Int
  BY Cardinalities
<1>b. Background \in Int /\ Background' \in Int BY DEF Background
<1>x. CountExact <=> (~Unwound => Balance = Background)
  BY <1>n, <1>b DEF CountExact, Balance, Background
<1>y. CountExact' <=> (~Unwound' => Balance' = Background')
  BY <1>n, <1>b DEF CountExact, Balance, Background
<1>1. CASE NoJobs
  <2>1. Owed' = Owed BY <1>1 DEF NoJobs, Owed
  <2>2. counted' = counted BY <1>1 DEF NoJobs
  <2>3. ~Unwound' => ~Unwound /\ jobCount' - Background' = jobCount - Background
    BY <1>1 DEF NoJobs
  <2>4. Balance' - jobCount' = Balance - jobCount BY <1>n, <2>1, <2>2 DEF Balance
  <2>5. Balance \in Int /\ Balance' \in Int BY <1>n DEF Balance
  <2> SUFFICES ASSUME ~Unwound' PROVE Balance' = Background'
    BY <1>y
  <2>6. Balance = Background BY <1>x, <2>3
  <2>7. jobCount' - Background' = jobCount - Background BY <2>3
  <2>8. Cardinality(counted') = Cardinality(counted)
        /\ Cardinality(Owed') = Cardinality(Owed)
    BY <2>1, <2>2
  <2>9. PICK b \in Int : b = Background BY <1>b
  <2>10. PICK c \in Int : c = Background' BY <1>b
  <2>11. jobCount - Cardinality(counted) + Cardinality(Owed) = b
    BY <2>6, <2>9 DEF Balance
  <2>12. jobCount' - c = jobCount - b BY <2>7, <2>9, <2>10
  <2>13. jobCount' - Cardinality(counted') + Cardinality(Owed') = c
    <3>1. PICK n \in Int : n = Cardinality(counted) BY <1>n
    <3>2. PICK o \in Int : o = Cardinality(Owed) BY <1>n
    <3>3. PICK d \in Int : d = jobCount BY <1>n
    <3>4. PICK e \in Int : e = jobCount' BY <1>n
    <3>5. (d - n) + o = b /\ e - c = d - b BY <2>11, <2>12, <3>1, <3>2, <3>3, <3>4
    <3>6. (e - n) + o = c BY <3>5
    <3> QED BY <2>8, <3>1, <3>2, <3>4, <3>6
  <2> QED BY <2>10, <2>13 DEF Balance
<1>4. CASE Crashed BY <1>4, <1>y DEF Crashed
<1>m. ASSUME UNCHANGED <<running, pc, inBackground>>, Balance' = Balance PROVE CountExact'
  <2>1. (Unwound' <=> Unwound) /\ Background' = Background
    BY <1>m DEF Unwound, Background
  <2> QED BY <1>m, <1>x, <1>y, <2>1
<1>o. ASSUME NEW j \in Jobs,
             \A k \in Jobs \ {j} : gor'[k] = gor[k] /\ cancelled'[k] = cancelled[k],
             j \in Intervals /\ gor[j] = "queued" /\ cancelled[j]
               <=> j \in Intervals /\ gor'[j] = "queued" /\ cancelled'[j]
      PROVE  Owed' = Owed
  BY <1>o, <1>i DEF Owed
<1>e. ASSUME NEW j \in Jobs, ~NotYet(j), Ended(j),
             \A k \in Jobs \ {j} : gor'[k] = gor[k],
             gor'[j] = gor[j] \/ gor'[j] = "done"
      PROVE  Balance' = Balance
  <2>1. /\ \A k \in Jobs \ {j} : cancelled'[k] = cancelled[k]
        /\ UNCHANGED count \/ (j \in counted /\ countOut(j))
    BY <1>e, EndedCount
  <2>2. ~(j \in Intervals /\ gor[j] = "queued") /\ ~(j \in Intervals /\ gor'[j] = "queued")
    BY <1>e, <1>i DEF NotYet
  <2>3. Owed' = Owed BY <1>e, <1>o, <2>1, <2>2
  <2> QED BY <1>e, <2>1, <2>3, CountMoves
<1>2. ASSUME NEW j \in Delayed, OnDelayed(j), UNCHANGED <<running, pc, inBackground>>
      PROVE  Balance' = Balance
  <2>0. j \in Jobs BY <1>0
  <2>1. CASE Started(j)
    <3>1. /\ j \notin counted /\ countIn(j) /\ UNCHANGED cancelled /\ ~Unwound
          /\ gor[j] \in {"unused", "queued"}
      BY <1>c, <2>0, <2>1 DEF Started, start, Entry, NotYet
    <3>2. /\ \A k \in Jobs \ {j} : gor'[k] = gor[k]
          /\ gor'[j] # "queued"
      BY <2>0, <2>1 DEF Started, start, TypeOK
    <3>3. CASE ~cancelled[j]
      <4>1. Owed' = Owed BY <2>0, <3>1, <3>2, <3>3, <1>o
      <4> QED BY <2>0, <3>1, <3>3, <4>1, CountMoves
    <3>4. CASE cancelled[j]
      <4>1. Entry(j) BY <1>c, <2>0
      <4>2. gor[j] = "queued" BY <3>1, <3>4, <4>1 DEF Entry
      <4>3. j \in Intervals BY <3>1, <3>4, <4>1, <4>2 DEF Entry, Delayed
      <4>4. j \in Owed BY <3>4, <4>2, <4>3 DEF Owed
      <4>5. Owed' = Owed \ {j} BY <1>i, <3>1, <3>2 DEF Owed
      <4> QED BY <2>0, <3>1, <3>4, <4>4, <4>5, CountOwed
    <3> QED BY <3>3, <3>4
  <2>2. CASE Moved(j)
    <3>1. UNCHANGED count /\ UNCHANGED cancelled /\ gor[j] \in Working
      BY <2>2 DEF Moved
    <3>2. gor'[j] \in Working /\ \A k \in Jobs \ {j} : gor'[k] = gor[k]
      BY <2>0, <2>2 DEF Moved, TypeOK
    <3>3. Owed' = Owed BY <1>o, <2>0, <3>1, <3>2 DEF Working
    <3> QED BY <2>0, <3>1, <3>3, CountMoves
  <2>5. CASE Handed(j)
    <3>1. UNCHANGED count /\ UNCHANGED cancelled /\ ~cancelled[j]
      BY <1>c, <2>0, <2>5 DEF Handed, Entry
    <3>2. \A k \in Jobs \ {j} : gor'[k] = gor[k] BY <2>0, <2>5 DEF Handed, TypeOK
    <3>3. Owed' = Owed BY <1>o, <2>0, <3>1, <3>2
    <3> QED BY <2>0, <3>1, <3>3, CountMoves
  <2>3. CASE Removed(j) \/ Marked(j)
    <3>1. ~NotYet(j) /\ Ended(j) BY <2>3 DEF Removed, Marked, NotYet, Working
    <3>2. /\ \A k \in Jobs \ {j} : gor'[k] = gor[k]
          /\ gor'[j] = gor[j] \/ gor'[j] = "done"
      BY <2>0, <2>3 DEF Removed, Marked, TypeOK
    <3> QED BY <1>e, <2>0, <3>1, <3>2
  <2>6. CASE Overtaken(j)
    <3>1. j \notin counted BY <1>c, <2>0, <2>6 DEF Overtaken, Entry, NotYet
    <3>2. /\ j \in Intervals /\ gor[j] = "queued" /\ settle(j) /\ gor' = gor
      BY <2>6 DEF Overtaken
    <3>3. CASE cancelled[j]
      <4>1. UNCHANGED <<cancelled, count>> BY <3>2, <3>3 DEF settle
      <4>2. Owed' = Owed BY <3>2, <4>1 DEF Owed
      <4> QED BY <2>0, <4>1, <4>2, CountMoves
    <3>4. CASE ~cancelled[j]
      <4>1. cancelled' = [cancelled EXCEPT ![j] = TRUE] /\ countOut(j)
        BY <3>2, <3>4 DEF settle
      <4>2. cancelled'[j] /\ \A k \in Jobs \ {j} : cancelled'[k] = cancelled[k]
        BY <2>0, <4>1 DEF TypeOK
      <4>3. j \notin Owed BY <3>4 DEF Owed
      <4>4. Owed' = Owed \cup {j} BY <1>i, <3>2, <4>2 DEF Owed
      <4> QED BY <2>0, <3>1, <4>1, <4>3, <4>4, CountOwed
    <3> QED BY <3>3, <3>4
  <2> QED BY <1>2, <2>1, <2>2, <2>3, <2>5, <2>6 DEF OnDelayed
<1>3. ASSUME NEW m \in Immediates, OnImmediate(m), UNCHANGED <<running, pc, inBackground>>
      PROVE  Balance' = Balance
  <2>0. m \in Jobs /\ m \notin Delayed /\ m \notin Intervals BY <1>0, <1>i DEF Jobs
  <2>1. CASE Promised(m)
    <3>1. m \notin counted /\ ~cancelled[m] /\ countIn(m) /\ UNCHANGED cancelled
      BY <1>c, <2>0, <2>1 DEF Promised, Entry, NotYet
    <3>2. \A k \in Jobs \ {m} : gor'[k] = gor[k] BY <2>0, <2>1 DEF Promised, TypeOK
    <3>3. Owed' = Owed BY <1>o, <2>0, <3>1, <3>2
    <3> QED BY <2>0, <3>1, <3>3, CountMoves
  <2>2. CASE Marked(m) \/ Performed(m)
    <3>1. ~NotYet(m) /\ Ended(m)
      BY <2>0, <2>2 DEF Marked, Performed, NotYet, Ended
    <3>2. /\ \A k \in Jobs \ {m} : gor'[k] = gor[k]
          /\ gor'[m] = gor[m] \/ gor'[m] = "done"
      BY <2>0, <2>2 DEF Performed, Marked, TypeOK
    <3> QED BY <1>e, <2>0, <3>1, <3>2
  <2> QED BY <1>3, <2>1, <2>2 DEF OnImmediate
<1> QED BY <1>1, <1>2, <1>3, <1>4, <1>m DEF OneJob
-----------------------------------------------------------------------------
(* The queue.                                                              *)

(* The queue stays in order when no queued or fresh handle changes.        *)
LEMMA OrderlyKeeps ==
  ASSUME NEW s \in Seq(Pending), NEW g, NEW h, Orderly(s, g),
         \A j \in Delayed : h[j] = "queued" <=> g[j] = "queued",
         \A j \in Jobs : g[j] # "unused" => h[j] # "unused"
  PROVE  Orderly(s, h)
<1>1. \A n \in 1..Len(s) :
        /\ s[n] \in Pending
        /\ s[n].op \in {"start", "clear"} => s[n].job \in Delayed
        /\ s[n].op # "fn" => s[n].job \in Jobs
  BY ElementOfSeq DEF Pending, Jobs
<1> QED BY <1>1 DEF Orderly

(* It stays in order when something other than a start is appended.        *)
LEMMA OrderlyAppend ==
  ASSUME NEW s \in Seq(Pending), NEW g, Orderly(s, g),
         NEW p \in Pending, p.op # "start",
         p.op # "fn" => g[p.job] # "unused"
  PROVE  Orderly(Append(s, p), g)
<1> DEFINE t == Append(s, p)
           n == Len(s)
<1>1. /\ n \in Nat /\ Len(t) = n + 1 /\ t[n + 1] = p
      /\ \A i \in 1..n : t[i] = s[i]
  BY AppendProperties, LenProperties
<1>2. \A i \in 1..Len(t) : i \in 1..n \/ i = n + 1 BY <1>1
<1>3. 1..n \subseteq 1..Len(t) BY <1>1
<1> HIDE DEF t, n
<1>4. \A i \in 1..n : t[i].op = "start" => g[t[i].job] = "queued"
  BY <1>1 DEF Orderly, n
<1>5. \A j \in Delayed : \A i \in 1..Len(t) : StartOf(t, i, j) <=> i \in 1..n /\ StartOf(s, i, j)
  BY <1>1, <1>2 DEF StartOf
<1>6. ASSUME NEW i \in 1..Len(t), t[i].op = "clear", g[t[i].job] = "queued"
      PROVE  \E m \in 1..(i - 1) : StartOf(t, m, t[i].job)
  <2>1. CASE i = n + 1
    <3>1. t[i].job \in Delayed BY <1>1, <1>6, <2>1 DEF Pending
    <3>2. PICK m \in 1..n : StartOf(s, m, t[i].job)
      BY <1>6, <3>1 DEF Orderly, n
    <3>3. m \in 1..(i - 1) /\ StartOf(t, m, t[i].job)
      BY <1>1, <2>1, <3>2 DEF StartOf
    <3> QED BY <3>3
  <2>2. CASE i \in 1..n
    <3>1. t[i] = s[i] BY <1>1, <2>2
    <3>2. PICK m \in 1..(i - 1) : StartOf(s, m, t[i].job)
      BY <1>6, <2>2, <3>1 DEF Orderly, n
    <3>3. m \in 1..n BY <1>1, <2>2, <3>2
    <3>4. StartOf(t, m, t[i].job) BY <1>1, <3>2, <3>3 DEF StartOf
    <3> QED BY <3>2, <3>4
  <2> QED BY <1>2, <2>1, <2>2
<1>7. \A i \in 1..Len(t) : t[i].op = "start" => g[t[i].job] = "queued"
  BY <1>1, <1>2, <1>4
<1>8. \A i \in 1..Len(t) : t[i].op # "fn" => g[t[i].job] # "unused"
  BY <1>1, <1>2 DEF Orderly, n
<1>9. \A j \in Delayed : \A i, m \in 1..Len(t) :
        StartOf(t, m, j) /\ StartOf(t, i, j) => m = i
  BY <1>5 DEF Orderly, n
<1>10. ASSUME NEW j \in Delayed, g[j] = "queued" PROVE \E m \in 1..Len(t) : StartOf(t, m, j)
  <2>1. PICK m \in 1..n : StartOf(s, m, j) BY <1>10 DEF Orderly, n
  <2>2. m \in 1..Len(t) /\ StartOf(t, m, j) BY <1>3, <1>5, <2>1
  <2> QED BY <2>2
<1>11. Orderly(t, g) BY <1>6, <1>7, <1>8, <1>9, <1>10 DEF Orderly
<1> QED BY <1>11 DEF t

(* It stays in order when a fresh handle's start is appended.              *)
LEMMA OrderlyStart ==
  ASSUME NEW s \in Seq(Pending), NEW g \in [Jobs -> GorStates], Orderly(s, g),
         NEW j \in Delayed, g[j] = "unused", NEW p,
         p = [op |-> "start", job |-> j]
  PROVE  Orderly(Append(s, p), [g EXCEPT ![j] = "queued"])
<1> DEFINE t == Append(s, p)
           n == Len(s)
           h == [g EXCEPT ![j] = "queued"]
<1>0. p \in Pending /\ p.op = "start" /\ p.job = j BY DEF Pending
<1>1. /\ n \in Nat /\ Len(t) = n + 1 /\ t[n + 1] = p
      /\ \A i \in 1..n : t[i] = s[i]
  BY <1>0, AppendProperties, LenProperties
<1>2. \A i \in 1..Len(t) : i \in 1..n \/ i = n + 1 BY <1>1
<1>3. 1..n \subseteq 1..Len(t) /\ n + 1 \in 1..Len(t) BY <1>1
<1>4. h[j] = "queued" /\ \A k \in Jobs : k # j => h[k] = g[k]
  BY DEF Jobs
<1>j. \A i \in 1..n : /\ s[i].op # "fn" => s[i].job \in Jobs
                      /\ s[i].op # "fn" => s[i].job # j
  BY ElementOfSeq DEF Pending, Orderly, Jobs
<1> HIDE DEF t, n, h
<1>5. ASSUME NEW k \in Delayed, NEW i \in 1..Len(t)
      PROVE  StartOf(t, i, k) <=> (i \in 1..n /\ StartOf(s, i, k)) \/ (i = n + 1 /\ k = j)
  <2>1. CASE i = n + 1
    <3>1. i \notin 1..n BY <1>1, <2>1
    <3> QED BY <1>0, <1>1, <2>1, <3>1 DEF StartOf
  <2>2. CASE i \in 1..n
    <3>1. i # n + 1 BY <1>1, <2>2
    <3> QED BY <1>1, <2>2, <3>1 DEF StartOf
  <2> QED BY <1>2, <2>1, <2>2
<1>6. ASSUME NEW i \in 1..Len(t), t[i].op = "start" PROVE h[t[i].job] = "queued"
  <2>1. CASE i = n + 1 BY <1>0, <1>1, <1>4, <2>1
  <2>2. CASE i \in 1..n BY <1>1, <1>4, <1>6, <1>j, <2>2 DEF Orderly, n
  <2> QED BY <1>2, <2>1, <2>2
<1>7. ASSUME NEW i \in 1..Len(t), t[i].op # "fn" PROVE h[t[i].job] # "unused"
  <2>1. CASE i = n + 1 BY <1>0, <1>1, <1>4, <2>1
  <2>2. CASE i \in 1..n BY <1>1, <1>4, <1>7, <1>j, <2>2 DEF Orderly, n
  <2> QED BY <1>2, <2>1, <2>2
<1>8. ASSUME NEW k \in Delayed, NEW i \in 1..Len(t), NEW m \in 1..Len(t),
             StartOf(t, m, k), StartOf(t, i, k)
      PROVE  m = i
  <2>1. k = j => m = n + 1 /\ i = n + 1
    BY <1>5, <1>8, <1>j DEF StartOf
  <2>2. k # j => m \in 1..n /\ i \in 1..n /\ StartOf(s, m, k) /\ StartOf(s, i, k)
    BY <1>5, <1>8
  <2> QED BY <2>1, <2>2 DEF Orderly, n
<1>9. ASSUME NEW i \in 1..Len(t), t[i].op = "clear", h[t[i].job] = "queued"
      PROVE  \E m \in 1..(i - 1) : StartOf(t, m, t[i].job)
  <2>1. i \in 1..n /\ t[i] = s[i] BY <1>0, <1>1, <1>2, <1>9
  <2>2. t[i].job # j /\ t[i].job \in Jobs BY <1>9, <1>j, <2>1
  <2>3. g[t[i].job] = "queued" BY <1>4, <1>9, <2>2
  <2>4. PICK m \in 1..(i - 1) : StartOf(s, m, t[i].job)
    BY <1>9, <2>1, <2>3 DEF Orderly, n
  <2>5. m \in 1..n BY <1>1, <2>1, <2>4
  <2>6. StartOf(t, m, t[i].job) BY <1>1, <2>4, <2>5 DEF StartOf
  <2> QED BY <2>4, <2>6
<1>10. ASSUME NEW k \in Delayed, h[k] = "queued" PROVE \E m \in 1..Len(t) : StartOf(t, m, k)
  <2>1. CASE k = j BY <1>3, <1>5, <2>1
  <2>2. CASE k # j
    <3>1. g[k] = "queued" BY <1>4, <1>10, <2>2 DEF Jobs
    <3>2. PICK m \in 1..n : StartOf(s, m, k) BY <3>1 DEF Orderly, n
    <3> QED BY <1>3, <1>5, <3>2
  <2> QED BY <2>1, <2>2
<1>11. Orderly(t, h) BY <1>6, <1>7, <1>8, <1>9, <1>10 DEF Orderly
<1> QED BY <1>11 DEF t, h
(* It stays in order when its head is executed: a start is over then.      *)
LEMMA OrderlyTail ==
  ASSUME NEW s \in Seq(Pending), s # <<>>, NEW g, NEW h, Orderly(s, g),
         NEW p, p = Head(s),
         p.op = "start" => h[p.job] # "queued",
         \A k \in Delayed : p.op # "start" \/ k # p.job
                              => (h[k] = "queued" <=> g[k] = "queued"),
         \A k \in Jobs : g[k] # "unused" => h[k] # "unused"
  PROVE  Orderly(Tail(s), h)
<1> DEFINE t == Tail(s)
           n == Len(s)
<1>1. /\ n \in Nat /\ n >= 1 /\ Len(t) = n - 1 /\ p = s[1]
      /\ \A i \in 1..(n - 1) : t[i] = s[i + 1]
  BY HeadTailProperties, LenProperties, EmptySeq
<1>2. \A i \in 1..n : /\ s[i] \in Pending
                      /\ s[i].op \in {"start", "clear"} => s[i].job \in Delayed
                      /\ s[i].op # "fn" => s[i].job \in Jobs
  BY ElementOfSeq DEF Pending, Jobs
<1> HIDE DEF t, n
<1>3. \A i \in 1..Len(t) : i + 1 \in 1..n /\ i + 1 # 1 /\ t[i] = s[i + 1]
  BY <1>1
<1>4. 1 \in 1..n BY <1>1
<1>5. ASSUME NEW i \in 1..n, s[i].op = "start", i # 1
      PROVE  p.op # "start" \/ s[i].job # p.job
  <2>1. s[i].job \in Delayed BY <1>2, <1>5
  <2> QED BY <1>1, <1>4, <1>5, <2>1 DEF Orderly, StartOf, n
<1>6. ASSUME NEW i \in 1..Len(t), t[i].op = "start" PROVE h[t[i].job] = "queued"
  <2>1. i + 1 \in 1..n /\ i + 1 # 1 /\ t[i] = s[i + 1] BY <1>3
  <2>2. g[t[i].job] = "queued" /\ t[i].job \in Delayed
    BY <1>2, <1>6, <2>1 DEF Orderly, n
  <2>3. p.op # "start" \/ t[i].job # p.job BY <1>5, <1>6, <2>1
  <2> QED BY <2>2, <2>3
<1>7. ASSUME NEW i \in 1..Len(t), t[i].op # "fn" PROVE h[t[i].job] # "unused"
  <2>1. i + 1 \in 1..n /\ t[i] = s[i + 1] BY <1>3
  <2> QED BY <1>2, <1>7, <2>1 DEF Orderly, n
<1>8. ASSUME NEW k \in Delayed, NEW i \in 1..Len(t), NEW m \in 1..Len(t),
             StartOf(t, m, k), StartOf(t, i, k)
      PROVE  m = i
  <2>1. /\ i + 1 \in 1..n /\ m + 1 \in 1..n
        /\ StartOf(s, m + 1, k) /\ StartOf(s, i + 1, k)
    BY <1>3, <1>8 DEF StartOf
  <2>2. m + 1 = i + 1 BY <2>1 DEF Orderly, n
  <2> QED BY <2>2
<1>9. ASSUME NEW i \in 1..Len(t), t[i].op = "clear", h[t[i].job] = "queued"
      PROVE  \E m \in 1..(i - 1) : StartOf(t, m, t[i].job)
  <2>1. i + 1 \in 1..n /\ t[i] = s[i + 1] BY <1>3
  <2>2. t[i].job \in Delayed BY <1>2, <1>9, <2>1
  <2>3. p.op # "start" \/ t[i].job # p.job BY <1>9
  <2>4. g[t[i].job] = "queued" BY <1>9, <2>2, <2>3
  <2>5. PICK m \in 1..((i + 1) - 1) : StartOf(s, m, t[i].job)
    BY <1>9, <2>1, <2>4 DEF Orderly, n
  <2>6. m # 1 BY <1>1, <2>3, <2>5 DEF StartOf
  <2>7. m - 1 \in 1..(i - 1) /\ m - 1 \in 1..Len(t) /\ (m - 1) + 1 = m
    BY <1>1, <2>5, <2>6
  <2>8. StartOf(t, m - 1, t[i].job) BY <1>3, <2>5, <2>7 DEF StartOf
  <2> QED BY <2>7, <2>8
<1>10. ASSUME NEW k \in Delayed, h[k] = "queued" PROVE \E m \in 1..Len(t) : StartOf(t, m, k)
  <2>1. p.op # "start" \/ k # p.job BY <1>10
  <2>2. g[k] = "queued" BY <1>10, <2>1
  <2>3. PICK m \in 1..n : StartOf(s, m, k) BY <2>2 DEF Orderly, n
  <2>4. m # 1 BY <1>1, <2>1, <2>3 DEF StartOf
  <2>5. m - 1 \in 1..Len(t) /\ (m - 1) + 1 = m BY <1>1, <2>3, <2>4
  <2>6. StartOf(t, m - 1, k) BY <1>3, <2>3, <2>5 DEF StartOf
  <2> QED BY <2>5, <2>6
<1>11. Orderly(t, h) BY <1>6, <1>7, <1>8, <1>9, <1>10 DEF Orderly
<1> QED BY <1>11 DEF t

(* The queue when something is appended, when the batch is taken, and when *)
(* it is unchanged.                                                        *)
LEMMA LineAppend ==
  ASSUME TypeOK, NEW p \in Pending, auxJobs' = Append(auxJobs, p), UNCHANGED batch
  PROVE  Line \in Seq(Pending) /\ Line' = Append(Line, p)
<1>1. /\ batch \in Seq(Pending) /\ auxJobs \in Seq(Pending) /\ <<p>> \in Seq(Pending)
      /\ Append(auxJobs, p) \in Seq(Pending)
  BY AppendProperties, IsASeq DEF TypeOK
<1>2. Line \in Seq(Pending) BY <1>1, ConcatProperties DEF Line
<1>3. Append(auxJobs, p) = auxJobs \o <<p>> BY <1>1, AppendIsConcat
<1>4. batch \o (auxJobs \o <<p>>) = (batch \o auxJobs) \o <<p>>
  BY <1>1, ConcatAssociative
<1>5. Append(Line, p) = Line \o <<p>> BY <1>2, AppendIsConcat
<1> QED BY <1>2, <1>3, <1>4, <1>5 DEF Line

(* A submission keeps the queue in order.                                  *)
LEMMA SubmissionOrderly ==
  ASSUME TypeOK, submission, UNCHANGED batch, Orderly(Line, gor)
  PROVE  Orderly(Line', gor')
<1>0. gor \in [Jobs -> GorStates] BY DEF TypeOK
<1>1. CASE RunOnLoop
  <2> DEFINE p == [op |-> "fn", job |-> NoJob]
  <2>1. p \in Pending /\ p.op = "fn" BY DEF Pending
  <2>2. auxJobs' = Append(auxJobs, p) /\ gor' = gor BY <1>1 DEF RunOnLoop, addAuxJob
  <2> HIDE DEF p
  <2>3. Line \in Seq(Pending) /\ Line' = Append(Line, p) BY <2>1, <2>2, LineAppend
  <2> QED BY <2>1, <2>2, <2>3, OrderlyAppend
<1>2. ASSUME NEW j \in Delayed, SetDelayed(j) PROVE Orderly(Line', gor')
  <2> DEFINE p == [op |-> "start", job |-> j]
  <2>1. p \in Pending BY DEF Pending
  <2>2. /\ auxJobs' = Append(auxJobs, p) /\ gor[j] = "unused"
        /\ gor' = [gor EXCEPT ![j] = "queued"]
    BY <1>2 DEF SetDelayed, addAuxJob
  <2>3. Line \in Seq(Pending) /\ Line' = Append(Line, p) BY <2>1, <2>2, LineAppend
  <2>4. Orderly(Append(Line, p), [gor EXCEPT ![j] = "queued"])
    BY <1>0, <2>2, <2>3, OrderlyStart
  <2> QED BY <2>2, <2>3, <2>4
<1>3. ASSUME NEW j \in Delayed, ClearDelayed(j) PROVE Orderly(Line', gor')
  <2> DEFINE p == [op |-> "clear", job |-> j]
  <2>1. p \in Pending /\ p.op = "clear" /\ p.job = j BY DEF Pending
  <2>2. auxJobs' = Append(auxJobs, p) /\ gor[j] # "unused" /\ gor' = gor
    BY <1>3 DEF ClearDelayed, addAuxJob
  <2> HIDE DEF p
  <2>3. Line \in Seq(Pending) /\ Line' = Append(Line, p) BY <2>1, <2>2, LineAppend
  <2> QED BY <2>1, <2>2, <2>3, OrderlyAppend
<1> QED BY <1>1, <1>2, <1>3 DEF submission
(* A step that leaves queued and fresh handles as they are.                *)
Steady ==
  /\ \A j \in Delayed : gor'[j] = "queued" <=> gor[j] = "queued"
  /\ \A j \in Jobs : gor[j] # "unused" => gor'[j] # "unused"

(* Running timers and goroutines are neither queued nor fresh.             *)
LEMMA SteadyMoves ==
  ASSUME TypeOK, NEW j \in Jobs, Moved(j) \/ Removed(j) \/ Marked(j)
  PROVE  Steady
<1>1. CASE Moved(j)
  <2>1. gor[j] \in Working /\ gor'[j] \in Working
        /\ \A k \in Jobs \ {j} : gor'[k] = gor[k]
    BY <1>1 DEF Moved, TypeOK
  <2> QED BY <2>1 DEF Steady, Working, Jobs
<1>2. CASE Removed(j)
  <2>1. gor[j] \in Working /\ gor'[j] = "done"
        /\ \A k \in Jobs \ {j} : gor'[k] = gor[k]
    BY <1>2 DEF Removed, TypeOK
  <2> QED BY <2>1 DEF Steady, Working, Jobs
<1>3. CASE Marked(j) BY <1>3 DEF Marked, Steady
<1> QED BY <1>1, <1>2, <1>3

(* Executing the head of the batch takes it off the queue.                 *)
LEMMA HeadOrderly ==
  ASSUME Books, AuxStep, Orderly(Line, gor)
  PROVE  Orderly(Line', gor')
<1> DEFINE p == Head(batch)
<1>0. TypeOK /\ Ordered /\ ~Unwound /\ batch # <<>>
  BY DEF AuxStep, Books, Unwound
<1>1. /\ p \in Pending /\ Line \in Seq(Pending) /\ Line # <<>>
      /\ p = Head(Line) /\ Tail(Line) = Tail(batch) \o auxJobs
      /\ p.op = "start" => gor[p.job] = "queued"
      /\ p.op = "clear" => ~NotYet(p.job)
      /\ p.op = "immediate" => gor[p.job] # "unused"
  BY <1>0, HeadOfLine
<1>2. execAux(p.op, p.job) /\ Line' = Tail(Line) /\ UNCHANGED abandoned
  BY <1>1 DEF AuxStep, Line, control
<1>g. gor \in [Jobs -> GorStates] BY <1>0 DEF TypeOK
<1>j. \A k \in Delayed : k \in Jobs /\ k \notin Immediates
  BY EventLoopAssumption DEF Jobs
<1> HIDE DEF p
<1>3. CASE p.op # "start" /\ Steady
  <2>1. Orderly(Tail(Line), gor') BY <1>1, <1>3, OrderlyTail DEF Steady
  <2> QED BY <1>2, <2>1
<1>4. CASE p.op = "fn"
  <2>1. Steady BY <1>2, <1>4 DEF execAux, table, Steady
  <2> QED BY <1>3, <1>4, <2>1
<1>5. CASE p.op = "start"
  <2>1. p.job \in Delayed BY <1>1, <1>5 DEF Pending
  <2>2. gor' = [gor EXCEPT ![p.job] = IF p.job \in Timers THEN "armed" ELSE "ticking"]
    BY <1>2, <1>5 DEF execAux, start
  <2>3. /\ gor'[p.job] # "queued" /\ gor'[p.job] # "unused"
        /\ \A k \in Jobs \ {p.job} : gor'[k] = gor[k]
    BY <1>g, <1>j, <2>1, <2>2
  <2>4. /\ \A k \in Delayed : p.op # "start" \/ k # p.job
                              => (gor'[k] = "queued" <=> gor[k] = "queued")
        /\ \A k \in Jobs : gor[k] # "unused" => gor'[k] # "unused"
    BY <1>5, <1>j, <2>3
  <2>5. Orderly(Tail(Line), gor') BY <1>1, <2>3, <2>4, OrderlyTail
  <2> QED BY <1>2, <2>5
<1>6. CASE p.op = "clear"
  <2>1. p.job \in Delayed BY <1>1, <1>6 DEF Pending
  <2>2. clear(p.job) BY <1>2, <1>6 DEF execAux
  <2>3. Removed(p.job) \/ Marked(p.job)
    BY <1>0, <1>1, <1>2, <1>6, <2>1, <2>2, ClearMarks
  <2>4. Steady BY <1>0, <1>j, <2>1, <2>3, SteadyMoves
  <2> QED BY <1>3, <1>6, <2>4
<1>7. CASE p.op = "immediate"
  <2>1. p.job \in Immediates BY <1>1, <1>7 DEF Pending
  <2>2. gor' = [gor EXCEPT ![p.job] = "done"] BY <1>2, <1>7 DEF execAux
  <2>3. Steady BY <1>g, <1>j, <2>1, <2>2 DEF Steady
  <2> QED BY <1>3, <1>7, <2>3
<1> QED BY <1>1, <1>4, <1>5, <1>6, <1>7 DEF Pending

(* Every step keeps the queue in order.                                    *)
LEMMA OrderedStep == ASSUME Books, [Next]_vars PROVE Ordered'
<1> USE DEF flags, count, table, queue, control, local
<1>t. TypeOK /\ Phases /\ Ordered /\ Counting BY DEF Books
<1> SUFFICES ASSUME ~Unwound' PROVE Orderly(Line', gor')
  BY DEF Ordered, Line
<1>o. Orderly(Line, gor)
  <2>1. ~Unwound BY StepEffect DEF OneJob, NoJobs, Crashed, Unwound
  <2> QED BY <1>t, <2>1 DEF Ordered
<1>l. /\ batch \in Seq(Pending) /\ auxJobs \in Seq(Pending)
      /\ gor \in [Jobs -> GorStates] /\ Line \in Seq(Pending)
  BY <1>t, ConcatProperties DEF TypeOK, Line
<1>j. \A k \in Delayed : k \in Jobs /\ k \notin Immediates
  BY EventLoopAssumption DEF Jobs
<1>s. ASSUME Steady, UNCHANGED <<auxJobs, batch>> PROVE Orderly(Line', gor')
  <2>1. Line' = Line BY <1>s DEF Line
  <2> QED BY <1>s, <1>o, <1>l, <2>1, OrderlyKeeps DEF Steady
<1>u. ASSUME UNCHANGED <<gor, auxJobs, batch>> PROVE Orderly(Line', gor')
  BY <1>u, <1>s DEF Steady
<1>b. ASSUME batch = <<>>, batch' = auxJobs, auxJobs' = <<>>, gor' = gor
      PROVE  Orderly(Line', gor')
  <2>1. Line = auxJobs /\ Line' = auxJobs
    BY <1>b, <1>l, ConcatEmptySeq DEF Line
  <2> QED BY <1>b, <1>o, <2>1
<1>1. CASE Start \/ Run \/ CallStop \/ CallTerminate \/ StopWaits \/ StopReturns
        \/ TermBegin \/ TermReturns
  BY <1>1, <1>u DEF Start, Run, setRunning, CallStop, CallTerminate, StopWaits,
     StopReturns, TermBegin, TermReturns, controlStep
<1>2. CASE TermRunAux \/ BeginRun \/ ReceiveWakeup
  BY <1>2, <1>t, <1>b DEF TermRunAux, BeginRun, ReceiveWakeup, takeAux, Phases
<1>3. CASE TermAuxDone \/ TermCancelDone \/ EnterLoop \/ CheckCanRun \/ LeaveLoop
        \/ Broadcast \/ StopNoWait \/ CallbackReturn
  BY <1>3, <1>u DEF TermAuxDone, TermCancelDone, EnterLoop, CheckCanRun, auxDone,
     LeaveLoop, leaveLoop, Broadcast, StopNoWait, CallbackReturn, inCallback
<1>4. CASE AuxStep
  BY <1>4, <1>o, HeadOrderly
<1>5. CASE TermCancel
  <2> DEFINE j == jobs[ti + 1]
  <2>1. ti + 1 \in 1..Len(jobs) /\ j \in Jobs
    BY <1>5, <1>t, ElementOfSeq, LenProperties DEF TermCancel, TypeOK, Jobs
  <2>2. IF cancelled[j] THEN UNCHANGED <<gor, jobs, idx>> ELSE doCancel(j)
    BY <1>5 DEF TermCancel
  <2>3. UNCHANGED <<auxJobs, batch>> BY <1>5 DEF TermCancel
  <2> HIDE DEF j
  <2>4. gor' = gor \/ (gor[j] = "armed" /\ gor' = [gor EXCEPT ![j] = "done"])
    BY <2>2 DEF doCancel
  <2>5. Steady BY <1>l, <1>j, <2>1, <2>4 DEF Steady
  <2> QED BY <2>3, <2>5, <1>s
<1>m. ASSUME NEW j \in Delayed, Moved(j) \/ Removed(j) \/ Marked(j),
             UNCHANGED <<auxJobs, batch>>
      PROVE  Orderly(Line', gor')
  BY <1>m, <1>t, <1>j, <1>s, SteadyMoves
<1>6. ASSUME NEW t \in Timers, ReceiveTimeout(t) PROVE Orderly(Line', gor')
  <2>1. t \in Delayed BY DEF Delayed
  <2>2. Removed(t) /\ UNCHANGED <<auxJobs, batch>>
    BY <1>6 DEF ReceiveTimeout, received, Removed, Working, Ended
  <2> QED BY <2>1, <2>2, <1>m
<1>7. ASSUME NEW i \in Intervals, ReceiveTick(i) \/ ReceiveRemoval(i)
      PROVE  Orderly(Line', gor')
  <2>1. i \in Delayed BY DEF Delayed
  <2>2. ReceiveRemoval(i) => cancelled[i]
    BY <1>t, <1>j, <2>1 DEF ReceiveRemoval, received, Counting, Entry
  <2>3. (Moved(i) \/ Removed(i)) /\ UNCHANGED <<auxJobs, batch>>
    BY <1>7, <2>2 DEF ReceiveTick, ReceiveRemoval, received, Moved, Removed, Working, Ended
  <2> QED BY <2>1, <2>3, <1>m
<1>8. ASSUME NEW j \in Delayed, CbSchedule(j) PROVE Orderly(Line', gor')
  <2>1. /\ gor[j] = "unused"
        /\ gor' = [gor EXCEPT ![j] = IF j \in Timers THEN "armed" ELSE "ticking"]
    BY <1>8 DEF CbSchedule, start
  <2>2. Steady BY <1>l, <1>j, <2>1 DEF Steady
  <2> QED BY <1>8, <2>2, <1>s DEF CbSchedule, inCallback
<1>9. ASSUME NEW j \in Delayed, CbClear(j) PROVE Orderly(Line', gor')
  <2>1. /\ clear(j) /\ UNCHANGED <<abandoned, auxJobs, batch>>
        /\ ~NotYet(j) \/ (gor[j] = "queued" /\ ~(j \in Timers))
    BY <1>9 DEF CbClear, inCallback, NotYet
  <2>2. CASE Overtaken(j) BY <2>1, <2>2, <1>u DEF Overtaken
  <2>3. CASE ~Overtaken(j)
    <3>1. Removed(j) \/ Marked(j) BY <2>1, <2>3, <1>t, ClearMarks, ClearOvertakes
    <3> QED BY <2>1, <3>1, <1>m
  <2> QED BY <2>2, <2>3
<1>10. ASSUME NEW m \in Immediates, CbSetImmediate(m) PROVE Orderly(Line', gor')
  <2>1. /\ gor[m] = "unused"
        /\ gor' = [gor EXCEPT ![m] = "queued"] \/ gor' = [gor EXCEPT ![m] = "done"]
    BY <1>10 DEF CbSetImmediate
  <2>2. Steady /\ gor'[m] # "unused" BY <1>l, <1>j, <2>1 DEF Steady, Jobs
  <2>3. CASE UNCHANGED auxJobs
    BY <1>10, <2>2, <2>3, <1>s DEF CbSetImmediate, inCallback
  <2>4. CASE auxJobs' = Append(auxJobs, [op |-> "immediate", job |-> m])
    <3> DEFINE p == [op |-> "immediate", job |-> m]
    <3>1. p \in Pending /\ p.op = "immediate" /\ p.job = m BY DEF Pending
    <3>2. Line' = Append(Line, p)
      BY <1>10, <1>t, <2>4, <3>1, LineAppend DEF CbSetImmediate, inCallback
    <3> HIDE DEF p
    <3>3. Orderly(Line, gor') BY <1>l, <1>o, <2>2, OrderlyKeeps DEF Steady
    <3> QED BY <1>l, <2>2, <3>1, <3>2, <3>3, OrderlyAppend
  <2> QED BY <1>10, <2>3, <2>4 DEF CbSetImmediate, addAuxJob
<1>11. ASSUME NEW m \in Immediates, CbClearImmediate(m) PROVE Orderly(Line', gor')
  BY <1>11, <1>u DEF CbClearImmediate, inCallback
<1>12. CASE CbSubmit
  BY <1>12, <1>t, <1>o, SubmissionOrderly DEF CbSubmit, inCallback
<1>13. CASE CallbackPanic \/ \E t \in Timers : CbClearPanics(t)
  <2>1. pc \in RunPcs
    BY <1>13, <1>t DEF CallbackPanic, CbClearPanics, unwinds, Phases, RunPcs, TermPcs
  <2>2. Unwound'
    BY <1>13, <2>1, <1>t DEF CallbackPanic, CbClearPanics, unwinds, Phases, Unwound
  <2> QED BY <2>2
<1>14. ASSUME NEW t \in Timers, TimerFires(t) PROVE Orderly(Line', gor')
  <2>1. t \in Delayed BY DEF Delayed
  <2>2. Moved(t) /\ UNCHANGED <<auxJobs, batch>>
    BY <1>14 DEF TimerFires, gorStep, Moved, Working
  <2> QED BY <2>1, <2>2, <1>m
<1>15. ASSUME NEW i \in Intervals, IntervalTicks(i) \/ IntervalStops(i)
       PROVE  Orderly(Line', gor')
  <2>1. i \in Delayed BY DEF Delayed
  <2>2. Moved(i) /\ UNCHANGED <<auxJobs, batch>>
    BY <1>15 DEF IntervalTicks, IntervalStops, gorStep, Moved, Working
  <2> QED BY <2>1, <2>2, <1>m
<1>16. ASSUME NEW c \in Clients, Submit(c) PROVE Orderly(Line', gor')
  BY <1>16, <1>t, <1>o, SubmissionOrderly DEF Submit
<1>17. ASSUME NEW c \in Clients, Wakeup(c) PROVE Orderly(Line', gor')
  BY <1>17, <1>u DEF Wakeup
<1>18. CASE UNCHANGED vars
  BY <1>18, <1>u DEF vars
<1> QED
  BY <1>1, <1>2, <1>3, <1>4, <1>5, <1>6, <1>7, <1>8, <1>9, <1>10, <1>11, <1>12,
     <1>13, <1>14, <1>15, <1>16, <1>17, <1>18
  DEF Next, ControlNext, LoopNext, CallbackNext, EnvNext
-----------------------------------------------------------------------------
(* Control.                                                                *)

(* Every step keeps the flags, user code and the batch where they belong.  *)
LEMMA PhasesStep ==
  ASSUME TypeOK, Phases, Cancelling, [Next]_vars
  PROVE  Phases'
<1> USE DEF flags, count, table, queue, control, local, RunPcs, TermPcs
<1>p. pc \in RunPcs \cup TermPcs \cup {"stopped"}
  BY DEF TypeOK, LoopPcs
<1>u. ASSUME UNCHANGED <<pc, running, ctl, terminated, batch, auxJobs, ti>>,
             executing' = <<>> \/ UNCHANGED executing
      PROVE  Phases'
  BY <1>u DEF Phases
<1>1. CASE Start \/ Run
  BY <1>1 DEF Phases, Start, Run, setRunning
<1>2. CASE CallStop \/ CallTerminate \/ StopWaits \/ StopReturns
  BY <1>2 DEF Phases, CallStop, CallTerminate, StopWaits, StopReturns, controlStep
<1>3. CASE TermBegin
  <2>1. pc = "stopped" BY <1>3, <1>p DEF Phases, TermBegin, controlStep
  <2> QED BY <1>3, <2>1 DEF Phases, TermBegin, controlStep
<1>4. CASE TermRunAux \/ BeginRun \/ ReceiveWakeup
  BY <1>4 DEF Phases, TermRunAux, BeginRun, ReceiveWakeup, takeAux
<1>5. CASE TermAuxDone \/ EnterLoop \/ CheckCanRun
  BY <1>5 DEF Phases, TermAuxDone, EnterLoop, CheckCanRun, auxDone
<1>6. CASE TermCancel \/ TermCancelDone
  BY <1>6 DEF Phases, TermCancel, TermCancelDone
<1>7. CASE TermReturns
  BY <1>7 DEF Phases, TermReturns, controlStep
<1>8. CASE LeaveLoop
  BY <1>8 DEF Phases, LeaveLoop, leaveLoop
<1>9. CASE Broadcast \/ StopNoWait
  BY <1>9 DEF Phases, Broadcast, StopNoWait
<1>10. CASE AuxStep
  BY <1>10 DEF Phases, AuxStep
<1>11. ASSUME NEW t \in Timers, ReceiveTimeout(t) PROVE Phases'
  <2>1. pc = "tDrain" => cancelled[t]
    BY <1>11 DEF ReceiveTimeout, received, Cancelling, Active, Delayed
  <2> QED BY <1>11, <2>1 DEF Phases, ReceiveTimeout, received, receiving, call
<1>12. ASSUME NEW i \in Intervals, ReceiveTick(i) PROVE Phases'
  <2>1. pc = "tDrain" => cancelled[i]
    BY <1>12 DEF ReceiveTick, received, Cancelling, Active, Delayed
  <2> QED BY <1>12, <2>1 DEF Phases, ReceiveTick, received, receiving, call
<1>13. ASSUME NEW i \in Intervals, ReceiveRemoval(i) PROVE Phases'
  BY <1>13, <1>u DEF ReceiveRemoval, received
<1>14. CASE CallbackNext
  <2>1. CASE CallbackPanic \/ \E t \in Timers : CbClearPanics(t)
    BY <2>1 DEF Phases, CallbackPanic, CbClearPanics, unwinds
  <2>2. ASSUME NEW j \in Delayed, CbSchedule(j) \/ CbClear(j) PROVE Phases'
    BY <2>2, <1>u DEF CbSchedule, CbClear, inCallback
  <2>3. ASSUME NEW m \in Immediates, CbSetImmediate(m) PROVE Phases'
    BY <2>3 DEF Phases, CbSetImmediate, inCallback, addAuxJob
  <2>4. ASSUME NEW m \in Immediates, CbClearImmediate(m) PROVE Phases'
    BY <2>4, <1>u DEF CbClearImmediate, inCallback
  <2>5. CASE CbSubmit
    <3>1. ~terminated
      BY <2>5 DEF CbSubmit, submission, RunOnLoop, SetDelayed, ClearDelayed, addAuxJob
    <3> QED BY <2>5, <3>1 DEF Phases, CbSubmit, inCallback
  <2>6. CASE CallbackReturn BY <2>6, <1>u DEF CallbackReturn, inCallback
  <2> QED BY <1>14, <2>1, <2>2, <2>3, <2>4, <2>5, <2>6 DEF CallbackNext
<1>15. ASSUME NEW t \in Timers, TimerFires(t) PROVE Phases'
  BY <1>15, <1>u DEF TimerFires, gorStep
<1>16. ASSUME NEW i \in Intervals, IntervalTicks(i) \/ IntervalStops(i) PROVE Phases'
  BY <1>16, <1>u DEF IntervalTicks, IntervalStops, gorStep
<1>17. ASSUME NEW c \in Clients, Submit(c) PROVE Phases'
  <2>1. ~terminated
    BY <1>17 DEF Submit, submission, RunOnLoop, SetDelayed, ClearDelayed, addAuxJob
  <2> QED BY <1>17, <2>1 DEF Phases, Submit
<1>18. ASSUME NEW c \in Clients, Wakeup(c) PROVE Phases'
  BY <1>18, <1>u DEF Wakeup
<1>19. CASE UNCHANGED vars
  BY <1>19, <1>u DEF vars
<1> QED
  BY <1>1, <1>2, <1>3, <1>4, <1>5, <1>6, <1>7, <1>8, <1>9, <1>10, <1>11, <1>12,
     <1>13, <1>14, <1>15, <1>16, <1>17, <1>18, <1>19
  DEF Next, ControlNext, LoopNext, EnvNext

(* Once Terminate has begun to cancel, no job is started, and only it and  *)
(* the receives that follow it touch the table.                            *)
LEMMA LateSteps ==
  ASSUME TypeOK, Phases, [Next]_vars,
         pc \in {"tCancel", "tDrain"} \/ (terminated /\ pc = "stopped")
  PROVE  \/ TermCancel \/ TermCancelDone \/ TermReturns \/ TermBegin \/ Start \/ Run
         \/ /\ pc = "tDrain" /\ UNCHANGED pc
            /\ \E t \in Timers : ReceiveTimeout(t)
         \/ /\ pc = "tDrain" /\ UNCHANGED pc
            /\ \E i \in Intervals : ReceiveTick(i) \/ ReceiveRemoval(i)
         \/ /\ UNCHANGED <<jobs, cancelled, ti, pc, terminated>>
            /\ \/ UNCHANGED gor
               \/ \E j \in Delayed : Moved(j)
<1> USE DEF flags, count, table, queue, control, local, RunPcs, TermPcs
<1>0. executing = <<>> /\ batch = <<>> BY DEF Phases
<1>d. Timers \subseteq Delayed /\ Intervals \subseteq Delayed BY DEF Delayed
<1>1. CASE ControlNext
  BY <1>1 DEF ControlNext, CallStop, CallTerminate, StopWaits, StopReturns,
     controlStep, TermRunAux, takeAux, TermAuxDone, auxDone
<1>2. CASE LoopNext
  <2>1. CASE BeginRun \/ EnterLoop \/ ReceiveWakeup \/ CheckCanRun \/ LeaveLoop \/ AuxStep
    BY <2>1, <1>0 DEF BeginRun, EnterLoop, ReceiveWakeup, CheckCanRun, auxDone,
       LeaveLoop, leaveLoop, AuxStep
  <2>2. CASE Broadcast BY <2>2 DEF Broadcast
  <2>3. ASSUME NEW t \in Timers, ReceiveTimeout(t) PROVE pc = "tDrain" /\ UNCHANGED pc
    BY <2>3 DEF ReceiveTimeout, received, receiving
  <2>4. ASSUME NEW i \in Intervals, ReceiveTick(i) \/ ReceiveRemoval(i)
        PROVE  pc = "tDrain" /\ UNCHANGED pc
    BY <2>4 DEF ReceiveTick, ReceiveRemoval, received, receiving
  <2> QED BY <1>2, <2>1, <2>2, <2>3, <2>4 DEF LoopNext
<1>3. CASE CallbackNext
  BY <1>0, <1>3 DEF CallbackNext, CbSchedule, CbClear, CbSetImmediate,
     CbClearImmediate, CbClearPanics, CbSubmit, CallbackReturn, CallbackPanic, unwinds,
     inCallback
<1>4. CASE EnvNext
  <2>1. ASSUME NEW t \in Timers, TimerFires(t)
        PROVE  UNCHANGED <<jobs, cancelled, ti, pc, terminated>> /\ Moved(t)
    BY <2>1 DEF TimerFires, gorStep, Moved, Working
  <2>2. ASSUME NEW i \in Intervals, IntervalTicks(i) \/ IntervalStops(i)
        PROVE  UNCHANGED <<jobs, cancelled, ti, pc, terminated>> /\ Moved(i)
    BY <2>2 DEF IntervalTicks, IntervalStops, gorStep, Moved, Working
  <2>3. ASSUME NEW c \in Clients PROVE ~Submit(c)
    BY DEF Phases, Submit, submission, RunOnLoop, SetDelayed, ClearDelayed, addAuxJob
  <2>4. ASSUME NEW c \in Clients, Wakeup(c)
        PROVE  UNCHANGED <<jobs, cancelled, ti, pc, terminated, gor>>
    BY <2>4 DEF Wakeup
  <2>5. CASE StopNoWait BY <2>5 DEF StopNoWait
  <2> QED BY <1>4, <1>d, <2>1, <2>2, <2>3, <2>4, <2>5 DEF EnvNext
<1>5. CASE UNCHANGED vars BY <1>5 DEF vars
<1> QED BY <1>1, <1>2, <1>3, <1>4, <1>5 DEF Next
(* The ways into Terminate's last two loops, and out of it.                *)
LEMMA LateArrivals ==
  ASSUME TypeOK, Phases, [Next]_vars
  PROVE  /\ pc' = "tCancel" => pc = "tCancel" \/ TermAuxDone
         /\ pc' = "tDrain" => pc = "tDrain" \/ (pc = "tCancel" /\ TermCancelDone)
         /\ terminated' /\ pc' = "stopped" =>
              (terminated /\ pc = "stopped") \/ (pc = "tDrain" /\ TermReturns)
<1> USE DEF flags, count, table, queue, control, local, RunPcs, TermPcs
<1> DEFINE Goal == /\ pc' = "tCancel" => pc = "tCancel" \/ TermAuxDone
                   /\ pc' = "tDrain" => pc = "tDrain" \/ (pc = "tCancel" /\ TermCancelDone)
                   /\ terminated' /\ pc' = "stopped" =>
                        (terminated /\ pc = "stopped") \/ (pc = "tDrain" /\ TermReturns)
<1>u. ASSUME UNCHANGED <<pc, terminated>> PROVE Goal
  BY <1>u
<1>1. CASE Start \/ Run BY <1>1 DEF Start, Run, setRunning
<1>2. CASE CallStop \/ CallTerminate \/ StopWaits \/ StopReturns
  BY <1>2, <1>u DEF CallStop, CallTerminate, StopWaits, StopReturns, controlStep
<1>3. CASE TermBegin BY <1>3 DEF TermBegin
<1>4. CASE TermRunAux \/ BeginRun \/ ReceiveWakeup
  BY <1>4 DEF TermRunAux, BeginRun, ReceiveWakeup, takeAux
<1>5. CASE EnterLoop \/ CheckCanRun BY <1>5 DEF EnterLoop, CheckCanRun
<1>6. CASE TermAuxDone BY <1>6 DEF TermAuxDone
<1>7. CASE TermCancel BY <1>7, <1>u DEF TermCancel
<1>8. CASE TermCancelDone BY <1>8 DEF TermCancelDone
<1>9. CASE TermReturns BY <1>9 DEF TermReturns
<1>10. CASE LeaveLoop BY <1>10 DEF LeaveLoop, leaveLoop, Phases
<1>11. CASE Broadcast \/ StopNoWait \/ AuxStep
  BY <1>11, <1>u DEF Broadcast, StopNoWait, AuxStep
<1>12. ASSUME NEW t \in Timers, ReceiveTimeout(t) PROVE Goal
  BY <1>12, <1>u DEF ReceiveTimeout, received
<1>13. ASSUME NEW i \in Intervals, ReceiveTick(i) \/ ReceiveRemoval(i) PROVE Goal
  BY <1>13, <1>u DEF ReceiveTick, ReceiveRemoval, received
<1>14. CASE CallbackNext
  <2>1. CASE CallbackPanic \/ \E t \in Timers : CbClearPanics(t)
    BY <2>1 DEF CallbackPanic, CbClearPanics, unwinds, Phases
  <2>2. CASE ~(CallbackPanic \/ \E t \in Timers : CbClearPanics(t))
    BY <1>14, <2>2, <1>u DEF CallbackNext, CbSchedule, CbClear, CbSetImmediate,
       CbClearImmediate, CbSubmit, CallbackReturn, inCallback
  <2> QED BY <2>1, <2>2
<1>15. CASE EnvNext
  BY <1>15, <1>u DEF EnvNext, TimerFires, IntervalTicks, IntervalStops, gorStep,
     Submit, Wakeup, StopNoWait
<1>16. CASE UNCHANGED vars BY <1>16, <1>u DEF vars
<1> QED
  BY <1>1, <1>2, <1>3, <1>4, <1>5, <1>6, <1>7, <1>8, <1>9, <1>10, <1>11, <1>12,
     <1>13, <1>14, <1>15, <1>16 DEF Next, ControlNext, LoopNext

(* Every step of Terminate cancels what it passes and leaves what is       *)
(* cancelled so.                                                           *)
LEMMA CancellingStep ==
  ASSUME TypeOK, TypeOK', Phases, Tabled, Cancelling, [Next]_vars
  PROVE  Cancelling'
<1> USE DEF flags, count, table, queue, control, local
<1>0. /\ \A n \in 1..Len(jobs) : jobs[n] \in Delayed /\ jobs[n] \in Jobs
      /\ Len(jobs) \in Nat /\ Len(jobs') \in Nat /\ ti \in Nat
  BY ElementOfSeq, LenProperties DEF TypeOK, Jobs
<1>j. \A k \in Delayed : k \in Jobs /\ k \notin Immediates
  BY EventLoopAssumption DEF Jobs
<1>m. ASSUME UNCHANGED gor \/ \E j \in Delayed : Moved(j)
      PROVE  \A k \in Jobs : gor'[k] \in Working <=> gor[k] \in Working
  BY <1>m DEF Moved, TypeOK, Working
<1>1. ASSUME pc' = "tCancel", NEW n \in 1..Len(jobs'), n <= ti'
      PROVE  cancelled'[jobs'[n]]
  <2>1. CASE pc # "tCancel"
    <3>1. TermAuxDone BY <1>1, <2>1, LateArrivals
    <3>2. ti' = 0 BY <3>1, <2>1 DEF TermAuxDone, Phases
    <3> QED BY <1>0, <1>1, <3>2
  <2>2. CASE pc = "tCancel"
    <3>1. TermCancel \/ UNCHANGED <<jobs, cancelled, ti>>
      <4>1. ~TermCancelDone /\ ~TermReturns /\ ~TermBegin /\ ~Start /\ ~Run
        BY <1>1, <2>2 DEF TermCancelDone, TermReturns, TermBegin, Start, Run, setRunning
      <4> QED BY <2>2, <4>1, LateSteps
    <3>2. CASE UNCHANGED <<jobs, cancelled, ti>>
      BY <1>1, <2>2, <3>2 DEF Cancelling
    <3>3. CASE TermCancel
      <4> DEFINE j == jobs[ti + 1]
      <4>1. /\ ti + 1 \in 1..Len(jobs)
            /\ cancelled' = [cancelled EXCEPT ![j] = TRUE]
            /\ IF cancelled[j] THEN UNCHANGED <<gor, jobs, idx>> ELSE doCancel(j)
            /\ ti' = IF jobs' = jobs THEN ti + 1 ELSE ti
        BY <1>0, <3>3 DEF TermCancel
      <4>2. j \in Delayed /\ j \in Jobs BY <1>0, <4>1
      <4>3. Active(j) /\ idx[j] = ti BY <1>0, <4>1 DEF Tabled, TableExact
      <4>4. /\ cancelled'[j]
            /\ \A k \in Jobs : cancelled[k] => cancelled'[k]
        BY <4>1, <4>2 DEF TypeOK
      <4> HIDE DEF j
      <4>5. \A i \in 1..Len(jobs) : i <= ti => cancelled'[jobs[i]]
        BY <1>0, <2>2, <4>4 DEF Cancelling
      <4>6. CASE jobs' = jobs
        <5>1. n <= ti \/ n = ti + 1 BY <1>0, <1>1, <4>1, <4>6
        <5> QED BY <1>1, <4>4, <4>5, <4>6, <5>1 DEF j
      <4>7. CASE jobs' # jobs
        <5>1. removeJob(j) BY <4>1, <4>7 DEF doCancel
        <5>2. /\ Len(jobs') = Len(jobs) - 1
              /\ \A i \in 1..(Len(jobs) - 1) :
                   jobs'[i] = IF i = idx[j] + 1 THEN jobs[Len(jobs)] ELSE jobs[i]
          BY <4>2, <4>3, <5>1, RemoveJobEffect DEF Tabled
        <5>3. n <= ti BY <1>1, <4>1, <4>7
        <5>4. n \in 1..(Len(jobs) - 1) /\ n # idx[j] + 1 /\ n \in 1..Len(jobs)
          BY <1>0, <1>1, <4>3, <5>2, <5>3
        <5>5. jobs'[n] = jobs[n] BY <5>2, <5>4
        <5> QED BY <4>5, <5>3, <5>4, <5>5
      <4> QED BY <4>6, <4>7
    <3> QED BY <3>1, <3>2, <3>3
  <2> QED BY <2>1, <2>2
<1>2. ASSUME pc' = "tDrain", NEW k \in Delayed, gor'[k] \in Working
      PROVE  cancelled'[k]
  <2>1. CASE pc # "tDrain"
    <3>1. pc = "tCancel" /\ TermCancelDone BY <1>2, <2>1, LateArrivals
    <3>2. ti >= Len(jobs) /\ UNCHANGED <<gor, cancelled>> BY <3>1 DEF TermCancelDone
    <3>3. Active(k) BY <1>2, <3>2 DEF Active, Working
    <3>4. idx[k] + 1 \in 1..Len(jobs) /\ jobs[idx[k] + 1] = k
      BY <3>3 DEF Tabled, TableExact
    <3>5. idx[k] + 1 <= ti BY <1>0, <3>2, <3>4
    <3> QED BY <3>1, <3>2, <3>4, <3>5 DEF Cancelling
  <2>2. CASE pc = "tDrain"
    <3>0. \A l \in Delayed : gor[l] \in Working => cancelled[l]
      BY <2>2 DEF Cancelling, Active, Working
    <3>1. ~TermCancel /\ ~TermCancelDone /\ ~TermReturns /\ ~TermBegin /\ ~Start /\ ~Run
      BY <1>2, <2>2 DEF TermCancel, TermCancelDone, TermReturns, TermBegin, Start, Run,
         setRunning
    <3>2. CASE UNCHANGED cancelled /\ (UNCHANGED gor \/ \E j \in Delayed : Moved(j))
      BY <1>2, <1>j, <1>m, <3>0, <3>2
    <3>3. ASSUME NEW t \in Timers, ReceiveTimeout(t) PROVE cancelled'[k]
      <4>1. gor[t] = "sending" /\ gor' = [gor EXCEPT ![t] = "done"] /\ settle(t) /\ t \in Delayed
        BY <3>3 DEF ReceiveTimeout, received, Delayed
      <4>2. cancelled[t] BY <3>0, <4>1 DEF Working
      <4>3. UNCHANGED cancelled BY <4>1, <4>2 DEF settle
      <4>4. gor[k] \in Working BY <1>2, <1>j, <4>1 DEF TypeOK, Working
      <4> QED BY <3>0, <4>3, <4>4
    <3>4. ASSUME NEW i \in Intervals, ReceiveTick(i) \/ ReceiveRemoval(i)
          PROVE  cancelled'[k]
      <4>1. UNCHANGED cancelled /\ i \in Delayed
        BY <3>4 DEF ReceiveTick, ReceiveRemoval, Delayed
      <4>2. gor[k] \in Working
        BY <1>2, <1>j, <3>4 DEF ReceiveTick, ReceiveRemoval, received, TypeOK, Working
      <4> QED BY <3>0, <4>1, <4>2
    <3> QED BY <2>2, <3>1, <3>2, <3>3, <3>4, LateSteps
  <2> QED BY <2>1, <2>2
<1>3. ASSUME terminated', pc' = "stopped", NEW k \in Jobs
      PROVE  gor'[k] \notin Working
  <2>1. CASE ~(terminated /\ pc = "stopped")
    <3>1. TermReturns BY <1>3, <2>1, LateArrivals
    <3>2. jobs = <<>> /\ UNCHANGED gor BY <3>1 DEF TermReturns, controlStep
    <3>3. Len(jobs) = 0 BY <3>2
    <3>4. \A j \in Delayed : ~Active(j) BY <3>3 DEF Tabled, TableExact
    <3> QED BY <3>2, <3>4 DEF Tabled, Active, Working, Jobs
  <2>2. CASE terminated /\ pc = "stopped"
    <3>0. \A l \in Jobs : gor[l] \notin Working BY <2>2 DEF Cancelling, Active, Working
    <3>1. ~TermCancel /\ ~TermCancelDone /\ ~TermReturns /\ ~TermBegin /\ ~Start /\ ~Run
      BY <1>3, <2>2 DEF TermCancel, TermCancelDone, TermReturns, TermBegin, Start, Run,
         setRunning
    <3>2. UNCHANGED gor \/ \E j \in Delayed : Moved(j) BY <2>2, <3>1, LateSteps
    <3> QED BY <1>m, <3>0, <3>2
  <2> QED BY <2>1, <2>2
<1> QED BY <1>1, <1>2, <1>3 DEF Cancelling, Active, Working

-----------------------------------------------------------------------------
(* The theorem.                                                            *)

(* Every step keeps the books.                                             *)
LEMMA BooksStep == Books /\ [Next]_vars => Books'
<1> SUFFICES ASSUME Books, [Next]_vars PROVE Books'
  OBVIOUS
<1>1. TypeOK /\ Phases /\ Tabled /\ Cancelling /\ Counting /\ CountExact
  BY DEF Books
<1>2. TypeOK' BY <1>1, TypeStep
<1>3. OneJob \/ NoJobs \/ Crashed BY StepEffect
<1>4. Phases' BY <1>1, PhasesStep
<1>5. Tabled' BY <1>1, <1>3, TabledStep
<1>6. Cancelling' BY <1>1, <1>2, CancellingStep
<1>7. Counting' BY <1>1, <1>3, CountingStep
<1>8. CountExact' BY <1>1, <1>2, <1>3, CountExactStep
<1>9. Ordered' BY OrderedStep
<1> QED BY <1>2, <1>4, <1>5, <1>6, <1>7, <1>8, <1>9 DEF Books

(* In every state the job table lists exactly the timers and intervals     *)
(* that still own a timer or a goroutine, each where its idx says; the     *)
(* jobs counted are those that were started and are not cancelled, and     *)
(* those Terminate cancelled; jobCount is their number, with the loop in   *)
(* the background and less what was cleared before its start, unless a     *)
(* panic has unwound run(); callbacks run only in run() or Terminate's     *)
(* runAux, and Terminate leaves no goroutine behind: through clears that   *)
(* overtake their starts in the queue, late deliveries and restarts.       *)
THEOREM JobsAccountedHold == Spec => []JobsAccounted
<1>1. Init => Books
  <2> SUFFICES ASSUME Init PROVE Books
    OBVIOUS
  <2>1. TypeOK BY TypeInit
  <2>2. Phases BY DEF Init, Phases, RunPcs, TermPcs
  <2>3. jobs = <<>> /\ Len(jobs) = 0 /\ \A j \in Jobs : gor[j] = "unused"
    BY DEF Init
  <2>4. Tabled
    BY <2>3 DEF Tabled, TableExact, Active, Jobs
  <2>5. Cancelling BY <2>3 DEF Init, Cancelling
  <2>6. Counting BY <2>3 DEF Init, Counting, Entry, NotYet
  <2>7. CountExact
    <3>1. Owed = {} BY <2>3 DEF Owed, Jobs, Delayed
    <3> QED BY <3>1, FS_EmptySet DEF Init, CountExact
  <2>8. Ordered
    <3>1. batch = <<>> /\ auxJobs = <<>> BY DEF Init
    <3>2. Line = <<>> BY <3>1, EmptySeq, ConcatEmptySeq DEF Line
    <3>3. Len(Line) = 0 BY <3>2
    <3>4. \A j \in Delayed : gor[j] # "queued" BY <2>3 DEF Jobs
    <3> QED BY <3>3, <3>4 DEF Ordered, Orderly
  <2> QED BY <2>1, <2>2, <2>4, <2>5, <2>6, <2>7, <2>8 DEF Books
<1>2. Books => JobsAccounted
  <2> SUFFICES ASSUME Books PROVE JobsAccounted
    OBVIOUS
  <2>1. TypeOK /\ Phases /\ Tabled /\ Cancelling /\ Counting /\ CountExact
    BY DEF Books
  <2>p. pc \in RunPcs \cup TermPcs \cup {"stopped"}
    BY <2>1 DEF TypeOK, LoopPcs, RunPcs, TermPcs
  <2>2. CountedExact
    <3> SUFFICES ASSUME NEW j \in Jobs
                 PROVE  j \in counted <=>
                          \/ ~cancelled[j] /\ (Active(j) \/ (j \in Immediates /\ gor[j] # "unused"))
                          \/ j \in abandoned
      BY DEF CountedExact
    <3>1. Entry(j) BY <2>1 DEF Counting
    <3>2. j \in Immediates => j \notin Delayed BY EventLoopAssumption
    <3>3. Active(j) => ~NotYet(j) BY DEF Active, NotYet
    <3>4. j \in Immediates => (NotYet(j) <=> gor[j] = "unused") BY <3>2 DEF NotYet
    <3> QED BY <3>1, <3>3, <3>4 DEF Entry
  <2>3. CallbackContext
    BY <2>1, <2>p DEF Phases, CallbackContext, RunPcs, TermPcs
  <2>4. TerminatedClean
    BY <2>1, <2>p DEF Phases, Cancelling, TerminatedClean, RunPcs, TermPcs
  <2> QED BY <2>1, <2>2, <2>3, <2>4 DEF JobsAccounted, Tabled
<1> QED BY <1>1, <1>2, BooksStep, PTL DEF Spec
=============================================================================
