----------------------------- MODULE LocklessRing -----------------------------
(***************************************************************************)
(* devious::LocklessRingQueue<T, capacity> (src/src/queue/lockless_ring.h) *)
(* with any number of enqueuing threads and one dequeuing thread, one step *)
(* per atomic operation.  libesp has two rings: the event queue of the     *)
(* ProfileContext and the string queue of the EventStreamConsumer.  Every  *)
(* instrumented thread enqueues; only the drain thread dequeues.           *)
(*                                                                         *)
(* TryEnqueue claims a ticket by a compare-and-swap on front, writes the   *)
(* slot, and then adds one to readfront.  TryDequeue takes readfront for   *)
(* the number of tickets whose slots have been written.  With one          *)
(* enqueuing thread it is; with several it need not be, because a thread   *)
(* that claimed later can publish first.  The slot accesses are steps of   *)
(* their own, so a slot can be read before, or while, it is written.       *)
(*                                                                         *)
(* back is stored by the dequeuing thread alone, so its load of its own    *)
(* counter is part of the step that loads readfront.                       *)
(*                                                                         *)
(* A definition named ...Slip is a plausible mistake in the one after it;  *)
(* no specification uses it.                                               *)
(***************************************************************************)
EXTENDS RingIndex, Sequences, FiniteSets

CONSTANTS Producers,     \* the enqueuing threads
          MaxCalls,      \* bound: TryEnqueue calls each of them makes
          MaxOut,        \* bound: the largest maxOut a block dequeue asks for
          Junk,          \* what an unwritten slot of the buffer holds
          Torn           \* what a slot read or written during a write may hold

ASSUME ProducersAssumption == IsFiniteSet(Producers) /\ MaxCalls \in Nat
ASSUME MaxOutAssumption == MaxOut \in Nat \ {0}
ASSUME ValuesAssumption == {Junk, Torn} \cap (Producers \X (1 .. MaxCalls)) = {}

VARIABLES
  front, readfront, back,   \* the atomics of the ring
  slots,                    \* buffer[0 .. capacity - 1]
  pc, f, calls,             \* per enqueuing thread: where it is in TryEnqueue,
                            \* its local f, the calls it has made
  cpc, want, out,           \* dequeuing thread: where it is in TryDequeue,
                            \* its blockCopySize, what it has copied so far
  log,                      \* history: the item of every ticket claimed
  taken,                    \* history: every item a TryDequeue returned
  overtaken                 \* history: has a thread published before one that
                            \* claimed an earlier ticket?

ring     == <<front, readfront, back, slots>>
producer == <<pc, f, calls>>
consumer == <<cpc, want, out>>
history  == <<log, taken, overtaken>>
vars     == <<ring, producer, consumer, history>>

\* The value a thread is enqueuing in its current call.
Items   == Producers \X (1 .. MaxCalls)
Item(p) == <<p, calls[p]>>

Init ==
  /\ front = 0 /\ readfront = 0 /\ back = 0
  /\ slots = [i \in Slots |-> Junk]
  /\ pc = [p \in Producers |-> "idle"]
  /\ f = [p \in Producers |-> 0]
  /\ calls = [p \in Producers |-> 0]
  /\ cpc = "idle" /\ want = 0 /\ out = <<>>
  /\ log = <<>> /\ taken = <<>> /\ overtaken = FALSE

------------------------------------------------------------------------------
(* The queries. *)

EmptySlip == modcap_eq(readfront, back)
Empty == modcap_eq(front, back)
GetSize == front - back

------------------------------------------------------------------------------
(* bool TryEnqueue(const T& value) *)

Goto(p, l) == pc' = [pc EXCEPT ![p] = l]

\* A call begins with the load of front.
LoadFront(p) ==
  /\ pc[p] = "idle" /\ calls[p] < MaxCalls
  /\ calls' = [calls EXCEPT ![p] = @ + 1]
  /\ f' = [f EXCEPT ![p] = front]
  /\ Goto(p, "check")
  /\ UNCHANGED <<ring, consumer, history>>

\* back is loaded and compared: no room, and the call returns false.
RefuseSlip(p) ==
  /\ pc[p] = "check" /\ modcap_eq(f[p] + 2, back)
  /\ Goto(p, "idle")
  /\ UNCHANGED <<ring, f, calls, consumer, history>>

Refuse(p) ==
  /\ pc[p] = "check" /\ modcap_eq(f[p] + 1, back)
  /\ Goto(p, "idle")
  /\ UNCHANGED <<ring, f, calls, consumer, history>>

\* back is loaded and compared: there is room, on to the compare-and-swap.
SeeRoomSlip(p) ==
  /\ pc[p] = "check"
  /\ Goto(p, "claim")
  /\ UNCHANGED <<ring, f, calls, consumer, history>>

SeeRoom(p) ==
  /\ pc[p] = "check" /\ ~ modcap_eq(f[p] + 1, back)
  /\ Goto(p, "claim")
  /\ UNCHANGED <<ring, f, calls, consumer, history>>

\* front.compare_exchange_weak(f, f + 1) succeeds: ticket f[p] is the thread's.
ClaimSlip(p) ==
  /\ pc[p] = "claim"
  /\ front' = f[p] + 1
  /\ log' = Append(log, Item(p))
  /\ Goto(p, "write")
  /\ UNCHANGED <<readfront, back, slots, f, calls, consumer, taken, overtaken>>

Claim(p) ==
  /\ pc[p] = "claim" /\ front = f[p]
  /\ front' = f[p] + 1
  /\ log' = Append(log, Item(p))
  /\ Goto(p, "write")
  /\ UNCHANGED <<readfront, back, slots, f, calls, consumer, taken, overtaken>>

\* It fails: somebody was faster; f is reloaded and back looked at again.
Retry(p) ==
  /\ pc[p] = "claim" /\ front # f[p]
  /\ f' = [f EXCEPT ![p] = front]
  /\ Goto(p, "check")
  /\ UNCHANGED <<ring, calls, consumer, history>>

\* Producers inside the assignment to slot i.
Writing(i) == {p \in Producers : pc[p] = "write" /\ modcap(f[p]) = i}

\* buffer[modcap(f)] = value, done; if another thread is in the same slot the
\* result may be a mixture.
WriteSlip(p) ==
  /\ pc[p] = "write"
  /\ slots' = [slots EXCEPT ![modcap(f[p] + 1)] = Item(p)]
  /\ Goto(p, "publish")
  /\ UNCHANGED <<front, readfront, back, f, calls, consumer, history>>

Write(p) ==
  /\ pc[p] = "write"
  /\ LET i == modcap(f[p])
     IN  \E x \in {Item(p)} \cup (IF Writing(i) = {p} THEN {} ELSE {Torn}) :
           slots' = [slots EXCEPT ![i] = x]
  /\ Goto(p, "publish")
  /\ UNCHANGED <<front, readfront, back, f, calls, consumer, history>>

\* readfront.fetch_add(1), and the call returns true.
PublishSlip(p) ==
  /\ pc[p] = "publish"
  /\ readfront' = f[p] + 1
  /\ overtaken' = (overtaken \/ f[p] # readfront)
  /\ Goto(p, "idle")
  /\ UNCHANGED <<front, back, slots, f, calls, consumer, log, taken>>

Publish(p) ==
  /\ pc[p] = "publish"
  /\ readfront' = readfront + 1
  /\ overtaken' = (overtaken \/ f[p] # readfront)
  /\ Goto(p, "idle")
  /\ UNCHANGED <<front, back, slots, f, calls, consumer, log, taken>>

------------------------------------------------------------------------------
(* bool TryDequeue(T* out) and int TryDequeue(T* out, int maxOut) *)

\* Nothing published: TryDequeue returns false, or 0.
FindEmpty ==
  /\ cpc = "idle" /\ modcap_eq(readfront, back)
  /\ UNCHANGED vars

\* TryDequeue(out) is to copy one element.
StartOne ==
  /\ cpc = "idle" /\ ~ modcap_eq(readfront, back)
  /\ cpc' = "copy" /\ want' = 1
  /\ UNCHANGED <<ring, producer, out, history>>

\* TryDequeue(out, maxOut) is to copy a block.
StartBlock(maxOut) ==
  /\ cpc = "idle" /\ ~ modcap_eq(readfront, back)
  /\ cpc' = "copy"
  /\ want' = BlockCopySize(modcap(readfront), modcap(back), maxOut)
  /\ UNCHANGED <<ring, producer, out, history>>

\* The next slot the copy reads.
CopyIndex == modcap(back) + Len(out)

\* One element is copied; if a thread is writing the slot, any mixture may be.
CopySlot ==
  /\ cpc = "copy" /\ Len(out) < want
  /\ \E x \in {slots[CopyIndex]}
              \cup (IF Writing(CopyIndex) = {} THEN {} ELSE {Torn}) :
       out' = Append(out, x)
  /\ UNCHANGED <<ring, producer, cpc, want, history>>

\* back moves past what was copied, and the call returns it.
Advance ==
  /\ cpc = "copy" /\ Len(out) = want
  /\ back' = back + want
  /\ taken' = taken \o out
  /\ cpc' = "idle" /\ want' = 0 /\ out' = <<>>
  /\ UNCHANGED <<front, readfront, slots, producer, log, overtaken>>

------------------------------------------------------------------------------
Enqueue(p) ==
  \/ LoadFront(p) \/ Refuse(p) \/ SeeRoom(p) \/ Claim(p) \/ Retry(p)
  \/ Write(p) \/ Publish(p)

Dequeue ==
  \/ FindEmpty
  \/ StartOne
  \/ \E maxOut \in 1 .. MaxOut : StartBlock(maxOut)
  \/ CopySlot
  \/ Advance

Next == Dequeue \/ \E p \in Producers : Enqueue(p)

Spec == Init /\ [][Next]_vars

\* An instrumented thread that has begun a call is scheduled until the call
\* returns; the drain thread dequeues in a loop.
Fairness ==
  /\ WF_vars(Dequeue)
  /\ \A p \in Producers : WF_vars(pc[p] # "idle" /\ Enqueue(p))

FairSpec == Spec /\ Fairness

------------------------------------------------------------------------------
(* Properties. *)

\* Every variable has its type.
TypeOK ==
  /\ front \in Nat /\ readfront \in Nat /\ back \in Nat
  /\ slots \in [Slots -> Items \cup {Junk, Torn}]
  /\ pc \in [Producers -> {"idle", "check", "claim", "write", "publish"}]
  /\ f \in [Producers -> Nat]
  /\ calls \in [Producers -> 0 .. MaxCalls]
  /\ cpc \in {"idle", "copy"} /\ want \in Nat
  /\ out \in Seq(Items \cup {Junk, Torn})
  /\ log \in Seq(Items)
  /\ taken \in Seq(Items \cup {Junk, Torn}) /\ overtaken \in BOOLEAN

\* However the enqueuing threads interleave, fewer than capacity tickets are
\* outstanding, none is dequeued that has not been published by somebody, and
\* the block being copied stays inside both the published tickets and the
\* buffer.  TryEnqueue compares front with a back it loaded before the
\* compare-and-swap, and all comparisons are modulo capacity: one ticket too
\* many and a full ring reads as an empty one.
TicketWindow ==
  /\ back <= readfront /\ readfront <= front /\ front < back + Capacity
  /\ back + want <= readfront
  /\ modcap(back) + want <= Capacity

\* Empty() tells the drain thread whether it may stop.  It is true only when
\* every ticket that was claimed has been dequeued and nobody holds one: a
\* ticket not yet published keeps the ring from looking empty.  And unless a
\* thread published before one that claimed an earlier ticket, what was dequeued
\* is then, item by item, what was accepted, however many threads enqueue.
EmptyIsTruthful == Empty =>
  /\ back = front /\ \A p \in Producers : pc[p] \notin {"write", "publish"}
  /\ ~ overtaken => taken = log

\* The slots a thread is in the middle of writing are nobody else's: no other
\* thread is writing them and the dequeuing thread is not about to copy them.
\* (One enqueuing thread.)
NoSlotRace ==
  \A p \in Producers : pc[p] = "write" =>
    /\ Writing(modcap(f[p])) = {p}
    /\ cpc = "copy" =>
         modcap(f[p]) \notin modcap(back) .. modcap(back) + want - 1

\* A call that returns false leaves a ring of capacity - 1 elements.
RefusesFullRing ==
  \A p \in Producers :
    pc[p] = "check" /\ pc'[p] = "idle" => GetSize = Capacity - 1

\* TryEnqueue returns false only when the ring is full at that moment, as the
\* comment on that return says (lockless_ring.h:72).  (One enqueuing thread.)
RefusedOnlyWhenFull == [][RefusesFullRing]_vars

\* No item is handed out twice: an event's id is "unique to each event emitted
\* in this run of the target application" (Event.h:44).
DeliveredOnce ==
  \A i, j \in 1 .. Len(taken) : taken[i] \in Items /\ taken[i] = taken[j] => i = j

\* With one enqueuing thread the ring is a FIFO queue with room for
\* capacity - 1 items; an item is in it from its publication until the
\* dequeue that copies it has moved back.
Fifo == INSTANCE BoundedFifo WITH
  Values    <- Items,
  Room      <- Capacity - 1,
  accepted  <- SubSeq(log, 1, readfront),
  queue     <- [i \in 1 .. readfront - back |-> slots[modcap(back + i - 1)]],
  delivered <- taken

ImplementsFifo == Fifo!Spec

\* Every ticket that is claimed is dequeued in the end, however many threads
\* enqueue, and with it the item it was claimed for, unless a thread published
\* before one that claimed an earlier ticket (what then may become of an item,
\* DeliveredOnce shows).
EventuallyDelivered ==
  \A n \in 1 .. MaxCalls * Cardinality(Producers) :
    Len(log) >= n ~> Len(taken) >= n /\ (overtaken \/ taken[n] = log[n])
==============================================================================
