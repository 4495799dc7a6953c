---------------------------- MODULE MCStringTable ----------------------------
(***************************************************************************)
(* StringTable for TLC: names that collide in the table, so that probing   *)
(* and the wrap-around at its end happen.                                  *)
(***************************************************************************)
EXTENDS StringTable, TLC

CONSTANTS a, b, c

\* a and b hash to the last slot, c to the first.
Collide == (a :> TableSize - 1) @@ (b :> TableSize - 1) @@ (c :> 0)

Symmetry == Permutations(Threads)
==============================================================================
