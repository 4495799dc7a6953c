------------------------------ MODULE MCUplift ------------------------------
(***************************************************************************)
(* Uplift for TLC: two sessions on one stream file.                        *)
(***************************************************************************)
EXTENDS Uplift

CONSTANTS n1, n2

MCNames      == {n1, n2}
MCNameLength == [n \in MCNames |-> 1]
MCSample     == [n \in MCNames |-> IF n = n1 THEN [type |-> "int", value |-> -1]
                                             ELSE [type |-> "float", value |-> 3]]

\* The first session has no room for n2, which has n1's number in the second.
MCScript == <<<<n1, n2>>, <<n2>>>>

\* An event under a number that another has.
MCMisread ==
  {[kind |-> "event", id |-> 1, ref |-> 1, type |-> "uint", value |-> 0, pieces |-> 2]}
==============================================================================
