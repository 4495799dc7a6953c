------------------------------ MODULE MCSession ------------------------------
(***************************************************************************)
(* Session for TLC.  Either the clock stands still and the threads call,   *)
(* or nobody calls and the clock goes on.                                  *)
(***************************************************************************)
EXTENDS Session

MCPrograms == {[callers |-> Threads, horizon |-> Boot],
               [callers |-> {}, horizon |-> Boot + 3]}
==============================================================================
