----------------------------- MODULE MCZoneStack -----------------------------
(***************************************************************************)
(* ZoneStack for TLC.  The threads are interchangeable.                    *)
(***************************************************************************)
EXTENDS ZoneStack, TLC

Symmetry == Permutations(Threads)
==============================================================================
