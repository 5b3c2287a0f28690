----------------------------- MODULE LoopContract -----------------------------
(***************************************************************************)
(* What nodejs/eventloop promises its callers about callbacks, without     *)
(* goroutines, channels or queues: a job is scheduled at most once, runs   *)
(* only while it is scheduled and nothing else runs, and never again once  *)
(* it is over.  A one-shot job (timeout, immediate) is over as soon as its *)
(* callback starts; a repeating one (interval) only when it is cleared.    *)
(***************************************************************************)
EXTENDS Sequences

CONSTANTS Jobs, Repeating, Function

VARIABLES
  life,       \* "idle", "scheduled" or "over", per job
  executing   \* <<j>> while the callback of j runs, <<>> otherwise

vars == <<life, executing>>

Init ==
  /\ life = [j \in Jobs |-> "idle"]
  /\ executing = <<>>

Schedule(j) ==
  /\ life[j] = "idle"
  /\ life' = [life EXCEPT ![j] = "scheduled"]
  /\ UNCHANGED executing

(* A cancellation may fail after it took effect and end the callback that  *)
(* asked for it.                                                           *)
Cancel(j) ==
  /\ life[j] = "scheduled"
  /\ life' = [life EXCEPT ![j] = "over"]
  /\ executing' \in {executing, <<>>}

Fire(j) ==
  /\ executing = <<>> /\ life[j] = "scheduled"
  /\ executing' = <<j>>
  /\ life' = IF j \in Repeating THEN life ELSE [life EXCEPT ![j] = "over"]

(* A function given to Run() or RunOnLoop().                               *)
Call ==
  /\ executing = <<>> /\ executing' = <<Function>>
  /\ UNCHANGED life

Return ==
  /\ executing # <<>> /\ executing' = <<>>
  /\ UNCHANGED life

Next ==
  \/ \E j \in Jobs : Schedule(j) \/ Cancel(j) \/ Fire(j)
  \/ Call \/ Return

Spec == Init /\ [][Next]_vars
=============================================================================
