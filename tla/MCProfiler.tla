------------------------------ MODULE MCProfiler ------------------------------
(* Small instances of Profiler.                                            *)
EXTENDS Profiler
=============================================================================
