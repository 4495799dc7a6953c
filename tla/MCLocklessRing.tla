---------------------------- MODULE MCLocklessRing ----------------------------
(***************************************************************************)
(* LocklessRing for TLC.  The threads are interchangeable and appear in    *)
(* the items, so a permutation of them maps behaviours to behaviours.      *)
(***************************************************************************)
EXTENDS LocklessRing, TLC

Symmetry == Permutations(Producers)
==============================================================================
