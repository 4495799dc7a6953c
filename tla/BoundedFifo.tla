----------------------------- MODULE BoundedFifo -----------------------------
(***************************************************************************)
(* What a LocklessRingQueue promises to its users: a first-in first-out    *)
(* queue that holds at most Room items, accepts items one at a time and    *)
(* hands them out, oldest first, in blocks.                                *)
(***************************************************************************)
EXTENDS Integers, Sequences

CONSTANTS Values,        \* what can be enqueued
          Room           \* the most items the queue can hold

VARIABLES accepted,      \* every item accepted so far, in order
          queue,         \* the items waiting
          delivered      \* every item handed out so far, in order

vars == <<accepted, queue, delivered>>

Init ==
  /\ accepted = <<>>
  /\ queue = <<>>
  /\ delivered = <<>>

Enqueue(v) ==
  /\ Len(queue) < Room
  /\ accepted' = Append(accepted, v)
  /\ queue' = Append(queue, v)
  /\ UNCHANGED delivered

Dequeue(n) ==
  /\ delivered' = delivered \o SubSeq(queue, 1, n)
  /\ queue' = SubSeq(queue, n + 1, Len(queue))
  /\ UNCHANGED accepted

Next ==
  \/ \E v \in Values : Enqueue(v)
  \/ \E n \in 1 .. Len(queue) : Dequeue(n)

Spec == Init /\ [][Next]_vars
==============================================================================
