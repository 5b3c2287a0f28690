------------------------------ MODULE MCPromises ------------------------------
(* Promises without combinators, finally, interrupts and calls from Go     *)
(* during a job: what MCCombinators adds.                                  *)
EXTENDS Promises

CoreScript ==
  \/ NewPromise
  \/ \E p \in known, f, g \in Handlers : Then(p, f, g)
  \/ \E x \in Args : StaticResolve(x) \/ StaticReject(x)
  \/ \E f \in held, x \in Args : CallHeld(f, x)

CoreEmbedder ==
  \/ \E prog \in Entries : Enter(prog)
  \/ \E f \in held, x \in Args : HostCall(f, x)
  \/ Return

CoreNext == CoreScript \/ Jobs \/ CoreEmbedder
CoreSpec == Init /\ [][CoreNext]_vars
=============================================================================
