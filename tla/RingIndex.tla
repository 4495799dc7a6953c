------------------------------ MODULE RingIndex ------------------------------
(***************************************************************************)
(* The index arithmetic of devious::LocklessRingQueue<T, capacity>         *)
(* (src/src/queue/lockless_ring.h).  The three counters of the ring are    *)
(* tickets that only grow; a ticket's slot is the ticket modulo capacity.  *)
(*                                                                         *)
(* The counters are C++ ints.  Here they are naturals: what this module's  *)
(* users show holds for the first 2^31 - 1 tickets of a session.           *)
(***************************************************************************)
EXTENDS Integers

CONSTANT Capacity        \* the template argument; buffer[] has one slot more,
                         \* which no index below ever reaches

ASSUME CapacityAssumption == Capacity \in Nat \ {0}

Slots == 0 .. Capacity - 1

modcap(i) == i % Capacity

modcap_eq(a, b) == modcap(a) = modcap(b)

\* How many elements TryDequeue(out, maxOut) copies when it loaded f from
\* readfront and b from back, already reduced modulo capacity: up to f, or up
\* to the end of the buffer when the readable part wraps.  0 means "empty".
BlockCopySizeSlip(f, b, maxOut) ==
  IF f - b > maxOut THEN maxOut ELSE f - b

BlockCopySize(f, b, maxOut) ==
  LET top  == IF f < b THEN Capacity ELSE f
      size == top - b
  IN  IF size > maxOut THEN maxOut ELSE size
==============================================================================
