---------------------------- MODULE MCCombinators ----------------------------
(* Promises with the combinators, or with finally, Go handlers, interrupts *)
(* and calls from Go during a job.                                         *)
EXTENDS Promises

VARIABLE combining

K == INSTANCE Promises WITH
  MaxPromises <- 2, MaxInputs <- 2, MaxCombs <- 1, MaxDepth <- 4, Handlers <- {},
  Combinators <- {"all", "allSettled", "any", "race"}, Entries <- {TRUE},
  UseFinally <- FALSE, AllowInterrupt <- FALSE, AllowReentry <- FALSE

EitherInit == Init /\ combining \in BOOLEAN
Controls == ~combining /\ Next /\ UNCHANGED combining
Combines == combining /\ K!Next /\ UNCHANGED combining
EitherSpec == EitherInit /\ [][Controls \/ Combines]_<<vars, combining>>
=============================================================================
