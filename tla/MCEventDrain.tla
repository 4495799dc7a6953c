----------------------------- MODULE MCEventDrain -----------------------------
(***************************************************************************)
(* EventDrain for TLC.  The instrumented threads are interchangeable.      *)
(***************************************************************************)
EXTENDS EventDrain, TLC

Symmetry == Permutations(Threads)
==============================================================================
