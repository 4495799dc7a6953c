-------------------------- MODULE LocklessRingProofs --------------------------
(***************************************************************************)
(* Theorems about LocklessRing, for every set of enqueuing threads and     *)
(* every capacity; and, under the assumption of a single enqueuing thread, *)
(* what several threads lose.                                              *)
(*                                                                         *)
(* TicketWindow is not inductive.  A claim keeps it because the thread saw *)
(* room when front had the value it still has (LoadedFront); a publication *)
(* because readfront lags front by exactly the threads between the two     *)
(* (TicketsCounted).  IInv adds these, and the sizes of the histories.     *)
(*                                                                         *)
(* That the items follow the tickets, while no thread has published before *)
(* one that claimed an earlier ticket, is InOrder, which rests on IInv and *)
(* on every ticket being one thread's (Tickets).                           *)
(***************************************************************************)
EXTENDS LocklessRing, RingIndexProofs, FiniteSetTheorems, SequenceTheorems

\* The threads between their compare-and-swap and their fetch_add on readfront.
Holding == {p \in Producers : pc[p] \in {"write", "publish"}}

\* readfront lags front by the tickets of these threads.
TicketsCounted == front = readfront + Cardinality(Holding)

\* A thread's f is never ahead of front; and one that saw room, and whose f is
\* still front, may claim.
LoadedFront ==
  \A p \in Producers :
    /\ f[p] <= front
    /\ pc[p] = "claim" /\ f[p] = front => front + 1 < back + Capacity

\* A thread in a call has counted it, so it has an item to enqueue.
InCall == \A p \in Producers : pc[p] # "idle" => calls[p] >= 1

\* A dequeue copies no more than it set out to, and leaves nothing behind.
Copying ==
  /\ Len(out) <= want
  /\ cpc = "idle" => want = 0 /\ out = <<>>

\* The counters are the lengths of the histories.
HistoriesCounted == Len(log) = front /\ Len(taken) = back

\* The inductive invariant.
IInv == /\ TypeOK /\ InCall /\ TicketsCounted /\ TicketWindow
        /\ LoadedFront /\ Copying /\ HistoriesCounted

------------------------------------------------------------------------------
\* The threads that hold a ticket are finitely many.
LEMMA HoldingFinite ==
  /\ IsFiniteSet(Holding) /\ Cardinality(Holding) \in Nat
  /\ IsFiniteSet(Holding') /\ Cardinality(Holding') \in Nat
<1>1. Holding \in SUBSET Producers /\ Holding' \in SUBSET Producers
  BY DEF Holding
<1>2. IsFiniteSet(Holding) /\ IsFiniteSet(Holding')
  BY <1>1, ProducersAssumption, FS_Subset
<1> QED BY <1>2, FS_CardinalityType

\* Every slot a dequeue reads is one of the buffer's.
LEMMA CopyIndexInSlots ==
  ASSUME TypeOK, TicketWindow, Len(out) < want
  PROVE  CopyIndex \in Slots
<1>1. modcap(back) \in Slots
  BY DivMod DEF TypeOK, modcap
<1> DEFINE i == modcap(back)
<1>2. i \in Slots /\ i + want <= Capacity
  BY <1>1 DEF TicketWindow
<1> HIDE DEF i
<1>3. i + Len(out) \in Slots
  BY <1>2, CapacityAssumption DEF TypeOK, Slots
<1> QED BY <1>3 DEF CopyIndex, i

\* The constructor (lockless_ring.h:32) establishes the invariant.
LEMMA Initially == Init => IInv
<1> SUFFICES ASSUME Init PROVE IInv
  OBVIOUS
<1>1. TypeOK /\ InCall
  <2>1. /\ front \in Nat /\ readfront \in Nat /\ back \in Nat /\ want \in Nat
        /\ out \in Seq(Items \cup {Junk, Torn}) /\ log \in Seq(Items)
        /\ taken \in Seq(Items \cup {Junk, Torn}) /\ overtaken \in BOOLEAN
    <3>1. \A S : <<>> \in Seq(S)
      OBVIOUS
    <3>2. out = <<>> /\ log = <<>> /\ taken = <<>>
      BY DEF Init
    <3>3. front = 0 /\ readfront = 0 /\ back = 0 /\ want = 0 /\ overtaken = FALSE
      BY DEF Init
    <3> QED BY <3>1, <3>2, <3>3
  <2>2. /\ slots \in [Slots -> Items \cup {Junk, Torn}]
        /\ pc \in [Producers -> {"idle", "check", "claim", "write", "publish"}]
        /\ f \in [Producers -> Nat] /\ calls \in [Producers -> 0 .. MaxCalls]
        /\ cpc \in {"idle", "copy"}
    BY ProducersAssumption DEF Init
  <2>3. InCall
    BY DEF Init, InCall
  <2> QED BY <2>1, <2>2, <2>3 DEF TypeOK
<1>2. Holding = {}
  BY DEF Init, Holding
<1>3. TicketsCounted
  BY <1>2, FS_EmptySet DEF Init, TicketsCounted
<1>4. TicketWindow
  <2>1. modcap(0) \in Slots
    BY DivMod DEF modcap
  <2> QED BY <2>1, CapacityAssumption DEF Init, TicketWindow, Slots
<1>5. LoadedFront /\ Copying /\ HistoriesCounted
  BY DEF Init, LoadedFront, Copying, HistoriesCounted
<1> QED BY <1>1, <1>3, <1>4, <1>5 DEF IInv

\* Every step preserves the types, and that a thread in a call has counted it.
LEMMA TypeStep ==
  ASSUME TypeOK, InCall, TicketWindow, [Next]_vars
  PROVE  TypeOK' /\ InCall'
<1> USE ProducersAssumption DEF TypeOK, InCall
<1>1. ASSUME NEW p \in Producers, Enqueue(p) PROVE TypeOK' /\ InCall'
  <2>1. CASE LoadFront(p)
    BY <2>1 DEF LoadFront, Goto, ring, consumer, history
  <2>2. CASE Refuse(p)
    BY <2>2 DEF Refuse, Goto, ring, consumer, history
  <2>3. CASE SeeRoom(p)
    BY <2>3 DEF SeeRoom, Goto, ring, consumer, history
  <2>4. CASE Claim(p)
    <3>1. Item(p) \in Items
      BY <2>4 DEF Claim, Item, Items
    <3> QED BY <2>4, <3>1 DEF Claim, Goto, consumer
  <2>5. CASE Retry(p)
    BY <2>5 DEF Retry, Goto, ring, consumer, history
  <2>6. CASE Write(p)
    <3>1. Item(p) \in Items
      BY <2>6 DEF Write, Item, Items
    <3> QED BY <2>6, <3>1 DEF Write, Goto, consumer, history
  <2>7. CASE Publish(p)
    BY <2>7 DEF Publish, Goto, consumer, history
  <2> QED BY <1>1, <2>1, <2>2, <2>3, <2>4, <2>5, <2>6, <2>7 DEF Enqueue
<1>2. CASE Dequeue
  <2>1. CASE FindEmpty \/ StartOne
    BY <2>1 DEF FindEmpty, StartOne, vars, ring, producer, consumer, history
  <2>2. ASSUME NEW maxOut \in 1 .. MaxOut, StartBlock(maxOut) PROVE TypeOK' /\ InCall'
    <3>1. BlockCopySize(modcap(readfront), modcap(back), maxOut) \in Nat
      <4>1. readfront # back
        BY <2>2 DEF StartBlock, modcap_eq
      <4>2. back < readfront /\ readfront < back + Capacity
        BY <4>1, CapacityAssumption DEF TicketWindow
      <4> QED BY <4>2, BlockInRing, MaxOutAssumption
    <3> QED BY <2>2, <3>1 DEF StartBlock, ring, producer, history
  <2>3. CASE CopySlot
    <3>1. CopyIndex \in Slots
      BY <2>3, CopyIndexInSlots DEF CopySlot
    <3> QED BY <2>3, <3>1 DEF CopySlot, ring, producer, history
  <2>4. CASE Advance
    BY <2>4 DEF Advance, producer
  <2> QED BY <1>2, <2>1, <2>2, <2>3, <2>4 DEF Dequeue
<1>3. CASE UNCHANGED vars
  BY <1>3 DEF vars, ring, producer, consumer, history
<1> QED BY <1>1, <1>2, <1>3 DEF Next

\* Every step of TryEnqueue preserves the rest of the invariant.
LEMMA EnqueueStep ==
  ASSUME IInv, NEW p \in Producers, Enqueue(p), TypeOK'
  PROVE  TicketsCounted' /\ TicketWindow' /\ LoadedFront' /\ Copying' /\ HistoriesCounted'
<1> USE DEF IInv, TypeOK, Copying, HistoriesCounted, Goto
<1>1. CASE LoadFront(p)
  <2> USE <1>1 DEF LoadFront, ring, consumer, history
  <2>1. Holding' = Holding
    BY DEF Holding
  <2>2. TicketsCounted'
    BY <2>1 DEF TicketsCounted
  <2>3. TicketWindow'
    BY DEF TicketWindow, modcap
  <2>4. LoadedFront'
    BY DEF LoadedFront
  <2> QED BY <2>2, <2>3, <2>4
<1>2. CASE Refuse(p)
  <2> USE <1>2 DEF Refuse, ring, consumer, history
  <2>1. Holding' = Holding
    BY DEF Holding
  <2>2. TicketsCounted'
    BY <2>1 DEF TicketsCounted
  <2>3. TicketWindow'
    BY DEF TicketWindow, modcap
  <2>4. LoadedFront'
    BY DEF LoadedFront
  <2> QED BY <2>2, <2>3, <2>4
<1>3. CASE SeeRoom(p)
  <2> USE <1>3 DEF SeeRoom, ring, consumer, history
  <2>1. Holding' = Holding
    BY DEF Holding
  <2>2. TicketsCounted'
    BY <2>1 DEF TicketsCounted
  <2>3. TicketWindow'
    BY DEF TicketWindow, modcap
  <2>4. f[p] = front => front + 1 < back + Capacity
    <3>1. back <= front /\ front < back + Capacity
      BY DEF TicketWindow
    <3> QED BY <3>1, NextFull
  <2>5. LoadedFront'
    BY <2>4 DEF LoadedFront
  <2> QED BY <2>2, <2>3, <2>5
<1>4. CASE Claim(p)
  <2> USE <1>4 DEF Claim, consumer
  <2>1. Holding' = Holding \cup {p} /\ p \notin Holding
    BY DEF Holding
  <2>2. TicketsCounted'
    <3>1. Cardinality(Holding') = Cardinality(Holding) + 1
      BY <2>1, HoldingFinite, FS_AddElement
    <3> QED BY <3>1, HoldingFinite DEF TicketsCounted
  <2>3. TicketWindow'
    BY CapacityAssumption DEF TicketWindow, LoadedFront, modcap
  <2>4. LoadedFront'
    BY DEF LoadedFront
  <2>5. Len(log') = Len(log) + 1
    OBVIOUS
  <2> QED BY <2>2, <2>3, <2>4, <2>5
<1>5. CASE Retry(p)
  <2> USE <1>5 DEF Retry, ring, consumer, history
  <2>1. Holding' = Holding
    BY DEF Holding
  <2>2. TicketsCounted'
    BY <2>1 DEF TicketsCounted
  <2>3. TicketWindow'
    BY DEF TicketWindow, modcap
  <2>4. LoadedFront'
    BY DEF LoadedFront
  <2> QED BY <2>2, <2>3, <2>4
<1>6. CASE Write(p)
  <2> USE <1>6 DEF Write, consumer, history
  <2>1. Holding' = Holding
    BY DEF Holding
  <2>2. TicketsCounted'
    BY <2>1 DEF TicketsCounted
  <2>3. TicketWindow'
    BY DEF TicketWindow, modcap
  <2>4. LoadedFront'
    BY DEF LoadedFront
  <2> QED BY <2>2, <2>3, <2>4
<1>7. CASE Publish(p)
  <2> USE <1>7 DEF Publish, consumer, history
  <2>1. Holding' = Holding \ {p} /\ p \in Holding
    BY DEF Holding
  <2>2. TicketsCounted' /\ readfront + 1 <= front
    <3>1. Cardinality(Holding') = Cardinality(Holding) - 1
      BY <2>1, HoldingFinite, FS_RemoveElement
    <3> QED BY <3>1, HoldingFinite DEF TicketsCounted
  <2>3. TicketWindow'
    BY <2>2, CapacityAssumption DEF TicketWindow, modcap
  <2>4. LoadedFront'
    BY DEF LoadedFront
  <2> QED BY <2>2, <2>3, <2>4
<1> QED BY <1>1, <1>2, <1>3, <1>4, <1>5, <1>6, <1>7 DEF Enqueue

\* Every step of TryDequeue preserves the rest of the invariant.
LEMMA DequeueStep ==
  ASSUME IInv, Dequeue, TypeOK'
  PROVE  TicketsCounted' /\ TicketWindow' /\ LoadedFront' /\ Copying' /\ HistoriesCounted'
<1> USE DEF IInv, TypeOK, HistoriesCounted
<1>1. UNCHANGED <<front, readfront, pc, f>> /\ back' \in {back, back + want}
  BY DEF Dequeue, FindEmpty, StartOne, StartBlock, CopySlot, Advance, vars,
         ring, producer, consumer, history
<1>2. TicketsCounted'
  <2>1. Holding' = Holding
    BY <1>1 DEF Holding
  <2> QED BY <1>1, <2>1 DEF TicketsCounted
<1>3. LoadedFront'
  <2>1. PICK n \in Nat : back' = back + n
    <3>1. back' = back + 0 \/ back' = back + want
      BY <1>1
    <3> QED BY <3>1
  <2>2. ASSUME NEW p \in Producers, pc[p] = "claim", f[p] = front
        PROVE  front + 1 < back' + Capacity
    <3>1. front + 1 < back + Capacity
      BY <2>2, Zenon DEF LoadedFront
    <3> QED BY <2>1, <3>1, CapacityAssumption
  <2> QED BY <1>1, <2>2 DEF LoadedFront
<1>4. CASE FindEmpty
  BY <1>2, <1>3, <1>4 DEF FindEmpty, vars, ring, producer, consumer, history,
                          TicketWindow, modcap, Copying
<1>5. ASSUME cpc = "idle", ~ modcap_eq(readfront, back)
      PROVE  back < readfront /\ readfront < back + Capacity
  <2>1. readfront # back
    BY <1>5 DEF modcap_eq
  <2> QED BY <2>1, CapacityAssumption DEF TicketWindow
<1>6. modcap(back) \in Slots
  BY DivMod DEF modcap
<1>7. CASE StartOne
  <2>1. back < readfront
    BY <1>5, <1>7 DEF StartOne
  <2>2. modcap(back) + 1 <= Capacity
    BY <1>6, CapacityAssumption DEF Slots
  <2>3. TicketWindow'
    BY <1>7, <2>1, <2>2 DEF StartOne, TicketWindow, ring, modcap
  <2>4. Copying' /\ HistoriesCounted'
    BY <1>7 DEF StartOne, Copying, ring, history
  <2> QED BY <1>2, <1>3, <2>3, <2>4
<1>8. ASSUME NEW maxOut \in 1 .. MaxOut, StartBlock(maxOut)
      PROVE  TicketWindow' /\ Copying' /\ HistoriesCounted'
  <2>1. back + want' <= readfront /\ modcap(back) + want' <= Capacity
    BY <1>5, <1>8, BlockInRing, MaxOutAssumption DEF StartBlock
  <2>2. TicketWindow'
    BY <1>8, <2>1 DEF StartBlock, TicketWindow, ring, modcap
  <2>3. Copying' /\ HistoriesCounted'
    BY <1>8 DEF StartBlock, Copying, ring, history
  <2> QED BY <2>2, <2>3
<1>9. CASE CopySlot
  <2>1. TicketWindow'
    BY <1>9 DEF CopySlot, TicketWindow, ring, modcap
  <2>2. Len(out') = Len(out) + 1
    BY <1>9 DEF CopySlot
  <2>3. Copying' /\ HistoriesCounted'
    BY <1>9, <2>2 DEF CopySlot, Copying, ring, history
  <2> QED BY <1>2, <1>3, <2>1, <2>3
<1>10. CASE Advance
  <2>1. modcap(back + want) \in Slots
    BY DivMod DEF modcap
  <2>2. TicketWindow'
    BY <1>10, <2>1, CapacityAssumption DEF Advance, TicketWindow, modcap, Slots
  <2>3. Copying'
    BY <1>10 DEF Advance, Copying
  <2>4. HistoriesCounted'
    <3>1. Len(taken \o out) = Len(taken) + Len(out)
      BY ConcatProperties
    <3> QED BY <1>10, <3>1 DEF Advance
  <2> QED BY <1>2, <1>3, <2>2, <2>3, <2>4
<1>11. CASE \E maxOut \in 1 .. MaxOut : StartBlock(maxOut)
  BY <1>2, <1>3, <1>8, <1>11
<1> HIDE DEF IInv, TypeOK, HistoriesCounted
<1> QED BY <1>4, <1>7, <1>9, <1>10, <1>11, Zenon DEF Dequeue

\* Every step preserves the invariant.
LEMMA Inductive == IInv /\ [Next]_vars => IInv'
<1> SUFFICES ASSUME IInv, [Next]_vars PROVE IInv'
  OBVIOUS
<1>1. TypeOK' /\ InCall'
  BY TypeStep DEF IInv
<1>2. CASE Next
  BY <1>1, <1>2, EnqueueStep, DequeueStep DEF Next, IInv
<1>3. CASE UNCHANGED vars
  <2>1. Holding' = Holding
    BY <1>3 DEF vars, producer, Holding
  <2> QED BY <1>1, <1>3, <2>1 DEF vars, ring, producer, consumer, history, IInv,
          TicketsCounted, TicketWindow, modcap, LoadedFront, Copying, HistoriesCounted
<1> QED BY <1>2, <1>3

\* The invariant holds of every reachable state, however many threads enqueue.
THEOREM Invariance == Spec => []IInv
BY Initially, Inductive, PTL DEF Spec

\* Type correctness: no index the code computes leaves the buffer, and no local
\* of TryEnqueue or TryDequeue is ever of another kind.
THEOREM TypeCorrect == Spec => []TypeOK
<1>1. IInv => TypeOK
  BY DEF IInv
<1> QED BY <1>1, Invariance, PTL

\* However the enqueuing threads interleave, fewer than capacity tickets are
\* outstanding and the block being dequeued is published and inside the buffer:
\* the stale back that TryEnqueue compares with (lockless_ring.h:70) never lets
\* it overrun the dequeuing thread.
THEOREM TicketsInWindow == Spec => []TicketWindow
<1>1. IInv => TicketWindow
  BY DEF IInv
<1> QED BY <1>1, Invariance, PTL

------------------------------------------------------------------------------
\* Every ticket is claimed by one thread, for its current item.
Tickets ==
  /\ \A p \in Holding : f[p] < front /\ log[f[p] + 1] = Item(p)
  /\ \A p, q \in Holding : f[p] = f[q] => p = q

\* Until a thread publishes before one that claimed an earlier ticket ...
InOrder == ~ overtaken =>
  \* ... the threads that hold a ticket have not yet published it,
  /\ \A p \in Holding : f[p] >= readfront
  \* a slot that is about to be, or has been, published has its ticket's item,
  /\ \A p \in Producers : pc[p] = "publish" => slots[modcap(f[p])] = Item(p)
  /\ \A k \in Nat : back <= k /\ k < readfront => slots[modcap(k)] = log[k + 1]
  \* and what is copied and handed out are the items of the tickets, in order.
  /\ \A i \in 1 .. Len(out) : out[i] = log[back + i]
  /\ \A i \in 1 .. back : taken[i] = log[i]

\* What the lemmas below need of the inductive invariant.
LEMMA Sizes ==
  ASSUME IInv
  PROVE  /\ front \in Nat /\ readfront \in Nat /\ back \in Nat /\ want \in Nat /\ Len(out) \in Nat
         /\ back <= readfront /\ readfront <= front /\ front < back + Capacity
         /\ back + want <= readfront /\ modcap(back) + want <= Capacity
         /\ Len(out) <= want /\ Len(log) = front /\ Capacity \in Nat \ {0}
         /\ Len(taken) = back /\ f \in [Producers -> Nat] /\ Holding \subseteq Producers
         /\ log \in Seq(Items) /\ out \in Seq(Items \cup {Junk, Torn})
         /\ taken \in Seq(Items \cup {Junk, Torn})
BY CapacityAssumption DEF IInv, TypeOK, TicketWindow, Copying, HistoriesCounted, Holding

\* Outstanding tickets have slots of their own.
LEMMA TicketSlots ==
  ASSUME IInv, NEW j \in Nat, NEW k \in Nat, back <= j, back <= k, j < front, k < front
  PROVE  /\ modcap(j) \in Slots
         /\ modcap(j) = modcap(k) => j = k
<1>1. j < k + Capacity /\ k < j + Capacity
  BY Sizes
<1>2. modcap_eq(k, j) <=> j = k
  <2>1. CASE j <= k
    BY <1>1, <2>1, ModEqual
  <2>2. CASE k <= j
    BY <1>1, <2>2, ModEqual DEF modcap_eq
  <2> QED BY <2>1, <2>2
<1>3. modcap(j) \in Slots
  BY DivMod DEF modcap
<1> QED BY <1>2, <1>3 DEF modcap_eq

\* Every step preserves Tickets.
LEMMA TicketsStep ==
  ASSUME IInv, Tickets, [Next]_vars
  PROVE  Tickets'
<1> USE DEF IInv, TypeOK
<1>1. ASSUME NEW p \in Producers, Claim(p) PROVE Tickets'
  <2>1. /\ Holding' = Holding \cup {p} /\ p \notin Holding
        /\ front = f[p] /\ front' = f[p] + 1 /\ log' = Append(log, Item(p))
        /\ UNCHANGED <<f, calls>>
    BY <1>1 DEF Claim, Goto, Holding
  <2>2. log \in Seq(Items) /\ Len(log) = front /\ front \in Nat /\ f \in [Producers -> Nat]
    BY Sizes
  <2>3. Item(p) \in Items
    BY <1>1 DEF Claim, Item, Items, InCall
  <2>4. Item(p) = log'[front + 1] /\ \A i \in 1 .. front : log'[i] = log[i]
    BY <2>1, <2>2, <2>3
  <2>5. ASSUME NEW q \in Holding'
        PROVE  f'[q] < front' /\ log'[f'[q] + 1] = Item(q)' /\ (q # p => f[q] < front)
    <3>1. CASE q = p
      BY <2>1, <2>2, <2>4, <3>1 DEF Item
    <3>2. CASE q # p
      <4>1. q \in Holding /\ q \in Producers
        BY <2>1, <3>2, Sizes
      <4>2. f[q] < front /\ log[f[q] + 1] = Item(q) /\ f[q] \in Nat
        BY <2>2, <4>1 DEF Tickets
      <4>3. f[q] + 1 \in 1 .. front
        BY <2>2, <4>2
      <4> QED BY <2>1, <2>2, <2>4, <4>2, <4>3 DEF Item
    <3> QED BY <3>1, <3>2
  <2>6. ASSUME NEW q \in Holding', NEW r \in Holding', f'[q] = f'[r] PROVE q = r
    <3>1. CASE q = p \/ r = p
      BY <2>1, <2>2, <2>5, <2>6, <3>1
    <3>2. CASE q # p /\ r # p
      BY <2>1, <2>6, <3>2 DEF Tickets
    <3> QED BY <3>1, <3>2
  <2> QED BY <2>5, <2>6 DEF Tickets
<1>2. ASSUME NEW p \in Producers, Write(p) \/ Publish(p) PROVE Tickets'
  <2>1. Holding' \subseteq Holding /\ UNCHANGED <<front, f, calls, log>>
    BY <1>2 DEF Write, Publish, Goto, Holding, history
  <2> QED BY <2>1 DEF Tickets, Item
<1>3. ASSUME NEW p \in Producers, LoadFront(p) \/ Refuse(p) \/ SeeRoom(p) \/ Retry(p) PROVE Tickets'
  <2>1. /\ UNCHANGED <<front, log>> /\ pc[p] \notin {"write", "publish"}
        /\ \E l \in {"idle", "check", "claim"} : pc' = [pc EXCEPT ![p] = l]
        /\ \A q \in Producers : q # p => f'[q] = f[q] /\ calls'[q] = calls[q]
    <3>1. CASE LoadFront(p)
      BY <3>1 DEF LoadFront, Goto, ring, history
    <3>2. CASE Refuse(p) \/ SeeRoom(p)
      BY <3>2 DEF Refuse, SeeRoom, Goto, ring, history
    <3>3. CASE Retry(p)
      BY <3>3 DEF Retry, Goto, ring, history
    <3> QED BY <1>3, <3>1, <3>2, <3>3
  <2>2. Holding' = Holding /\ p \notin Holding
    BY <2>1 DEF Holding
  <2>3. \A q \in Holding : f'[q] = f[q] /\ Item(q)' = Item(q)
    BY <2>1, <2>2 DEF Item, Holding
  <2> HIDE DEF IInv, TypeOK
  <2>4. \A q \in Holding' : f'[q] < front' /\ log'[f'[q] + 1] = Item(q)'
    BY <2>1, <2>2, <2>3 DEF Tickets
  <2>5. \A q, r \in Holding' : f'[q] = f'[r] => q = r
    BY <2>2, <2>3 DEF Tickets
  <2> QED BY <2>4, <2>5 DEF Tickets
<1>4. CASE Dequeue \/ UNCHANGED vars
  <2>1. UNCHANGED <<front, f, pc, calls, log>>
    BY <1>4 DEF Dequeue, FindEmpty, StartOne, StartBlock, CopySlot, Advance, vars,
                ring, producer, history
  <2> QED BY <2>1 DEF Tickets, Item, Holding
<1> QED BY <1>1, <1>2, <1>3, <1>4 DEF Next, Enqueue

\* Every step preserves InOrder.
LEMMA InOrderStep ==
  ASSUME IInv, IInv', Tickets, Tickets', InOrder, [Next]_vars
  PROVE  InOrder'
<1> SUFFICES ASSUME ~ overtaken' PROVE InOrder'
  BY DEF InOrder
<1>1. ~ overtaken
  BY DEF Next, Enqueue, LoadFront, Refuse, SeeRoom, Claim, Retry, Write, Publish, Dequeue,
         FindEmpty, StartOne, StartBlock, CopySlot, Advance, vars, history
<1>2. /\ \A p \in Holding : f[p] >= readfront
      /\ \A p \in Producers : pc[p] = "publish" => slots[modcap(f[p])] = Item(p)
      /\ \A k \in Nat : back <= k /\ k < readfront => slots[modcap(k)] = log[k + 1]
      /\ \A i \in 1 .. Len(out) : out[i] = log[back + i]
      /\ \A i \in 1 .. back : taken[i] = log[i]
  BY <1>1 DEF InOrder
<1>3. /\ slots \in [Slots -> Items \cup {Junk, Torn}]
      /\ pc \in [Producers -> {"idle", "check", "claim", "write", "publish"}]
      /\ calls \in [Producers -> 0 .. MaxCalls]
  BY DEF IInv, TypeOK
<1>4. \A p \in Holding : back <= f[p] /\ f[p] \in Nat /\ f[p] < front
  BY <1>2, Sizes DEF Tickets
<1>5. ASSUME NEW p \in Producers, LoadFront(p) \/ Refuse(p) \/ SeeRoom(p) \/ Retry(p)
      PROVE  InOrder'
  <2>1. /\ UNCHANGED <<front, readfront, back, slots, log, taken, out>>
        /\ pc[p] \notin {"write", "publish"}
        /\ \E l \in {"idle", "check", "claim"} : pc' = [pc EXCEPT ![p] = l]
        /\ \A q \in Producers : q # p => f'[q] = f[q] /\ calls'[q] = calls[q]
    <3>1. CASE LoadFront(p)
      BY <1>3, <3>1, Sizes DEF LoadFront, Goto, ring, history, consumer
    <3>2. CASE Refuse(p) \/ SeeRoom(p)
      BY <3>2 DEF Refuse, SeeRoom, Goto, ring, history, consumer
    <3>3. CASE Retry(p)
      BY <1>3, <3>3, Sizes DEF Retry, Goto, ring, history, consumer
    <3> QED BY <1>5, <3>1, <3>2, <3>3
  <2>2. Holding' = Holding /\ p \notin Holding
    BY <1>3, <2>1 DEF Holding
  <2>3. \A q \in Holding : f'[q] = f[q] /\ Item(q)' = Item(q)
    BY <2>1, <2>2 DEF Item, Holding
  <2>4. \A q \in Producers : pc'[q] = "publish" => q \in Holding /\ pc[q] = "publish"
    BY <1>3, <2>1 DEF Holding
  <2>5. \A q \in Holding' : f'[q] >= readfront'
    BY <1>2, <2>1, <2>2, <2>3
  <2>6. \A q \in Producers : pc'[q] = "publish" => slots'[modcap(f'[q])] = Item(q)'
    BY <1>2, <2>1, <2>3, <2>4
  <2> QED BY <1>2, <2>1, <2>5, <2>6 DEF InOrder, modcap
<1>6. ASSUME NEW p \in Producers, Claim(p) PROVE InOrder'
  <2>1. /\ Holding' = Holding \cup {p}
        /\ front = f[p] /\ log' = Append(log, Item(p))
        /\ UNCHANGED <<f, calls, slots, readfront, back, out, taken>>
        /\ \A q \in Producers : pc'[q] = "publish" => pc[q] = "publish"
    BY <1>3, <1>6 DEF Claim, Goto, Holding, consumer
  <2>2. Item(p) \in Items
    BY <1>6 DEF Claim, Item, Items, IInv, InCall, TypeOK
  <2>3. \A i \in 1 .. front : log'[i] = log[i]
    BY <2>1, <2>2, Sizes
  <2>4. \A q \in Holding' : f'[q] >= readfront'
    BY <1>2, <2>1, Sizes
  <2>5. \A q \in Producers : pc'[q] = "publish" => slots'[modcap(f'[q])] = Item(q)'
    BY <1>2, <2>1 DEF Item
  <2>6. \A k \in Nat : back' <= k /\ k < readfront' => slots'[modcap(k)] = log'[k + 1]
    <3> SUFFICES ASSUME NEW k \in Nat, back <= k, k < readfront
                 PROVE  slots[modcap(k)] = log'[k + 1]
      BY <2>1 DEF modcap
    <3>1. k + 1 \in 1 .. front
      BY Sizes
    <3> QED BY <1>2, <2>3, <3>1
  <2>7. \A i \in 1 .. Len(out') : out'[i] = log'[back' + i]
    <3> SUFFICES ASSUME NEW i \in 1 .. Len(out) PROVE out[i] = log'[back + i]
      BY <2>1
    <3>1. back + i \in 1 .. front
      BY Sizes
    <3> QED BY <1>2, <2>3, <3>1
  <2>8. \A i \in 1 .. back' : taken'[i] = log'[i]
    <3> SUFFICES ASSUME NEW i \in 1 .. back PROVE taken[i] = log'[i]
      BY <2>1
    <3>1. i \in 1 .. front
      BY Sizes
    <3> QED BY <1>2, <2>3, <3>1
  <2> QED BY <2>4, <2>5, <2>6, <2>7, <2>8 DEF InOrder
<1>7. ASSUME NEW p \in Producers, Write(p) PROVE InOrder'
  <2>1. /\ p \in Holding /\ Holding' = Holding
        /\ UNCHANGED <<front, readfront, back, f, calls, out, log, taken>>
        /\ \A q \in Producers : pc'[q] = "publish" => q = p \/ (q \in Holding /\ pc[q] = "publish")
    BY <1>3, <1>7 DEF Write, Goto, Holding, consumer, history
  <2>2. ASSUME NEW q \in Holding, modcap(f[q]) = modcap(f[p]) PROVE q = p
    <3>1. f[q] = f[p]
      BY <1>4, <2>1, <2>2, TicketSlots
    <3> QED BY <2>1, <3>1 DEF Tickets
  <2>3. Writing(modcap(f[p])) = {p}
    BY <1>7, <2>2 DEF Writing, Write, Holding
  <2>4. slots' = [slots EXCEPT ![modcap(f[p])] = Item(p)]
    BY <1>7, <2>3 DEF Write
  <2>5. modcap(f[p]) \in Slots
    BY <1>4, <2>1, TicketSlots
  <2>6. \A q \in Producers : pc'[q] = "publish" => slots'[modcap(f'[q])] = Item(q)'
    <3> SUFFICES ASSUME NEW q \in Producers, pc'[q] = "publish" PROVE slots'[modcap(f[q])] = Item(q)
      BY <2>1 DEF Item
    <3>1. CASE q = p
      BY <1>3, <2>4, <2>5, <3>1
    <3>2. CASE q # p
      <4>1. q \in Holding /\ pc[q] = "publish" /\ modcap(f[q]) # modcap(f[p])
        BY <2>1, <2>2, <3>2
      <4>2. modcap(f[q]) \in Slots
        BY <1>4, <4>1, TicketSlots
      <4> QED BY <1>2, <1>3, <2>4, <4>1, <4>2
    <3> QED BY <3>1, <3>2
  <2>7. \A k \in Nat : back' <= k /\ k < readfront' => slots'[modcap(k)] = log'[k + 1]
    <3> SUFFICES ASSUME NEW k \in Nat, back <= k, k < readfront
                 PROVE  slots'[modcap(k)] = log[k + 1]
      BY <2>1 DEF modcap
    <3>1. k # f[p] /\ k < front
      BY <1>2, <2>1, Sizes
    <3>2. modcap(k) \in Slots /\ modcap(k) # modcap(f[p])
      BY <1>4, <2>1, <3>1, TicketSlots
    <3> QED BY <1>2, <1>3, <2>4, <3>2
  <2>8. \A q \in Holding' : f'[q] >= readfront'
    BY <1>2, <2>1
  <2> QED BY <1>2, <2>1, <2>6, <2>7, <2>8 DEF InOrder
<1>8. ASSUME NEW p \in Producers, Publish(p) PROVE InOrder'
  <2>1. /\ p \in Holding /\ pc[p] = "publish" /\ Holding' = Holding \ {p} /\ readfront' = readfront + 1
        /\ UNCHANGED <<front, slots, back, f, calls, out, log, taken>>
        /\ \A q \in Producers : pc'[q] = "publish" => pc[q] = "publish"
    BY <1>3, <1>8 DEF Publish, Goto, Holding, consumer
  <2>2. f[p] = readfront
    BY <1>8 DEF Publish
  <2>3. \A q \in Holding' : f'[q] >= readfront'
    <3> SUFFICES ASSUME NEW q \in Holding, q # p PROVE f[q] >= readfront + 1
      BY <2>1
    <3>1. f[q] # f[p] /\ f[q] >= readfront
      BY <1>2, <2>1 DEF Tickets
    <3> QED BY <1>4, <2>2, <3>1, Sizes
  <2>4. \A q \in Producers : pc'[q] = "publish" => slots'[modcap(f'[q])] = Item(q)'
    BY <1>2, <2>1 DEF Item
  <2>5. \A k \in Nat : back' <= k /\ k < readfront' => slots'[modcap(k)] = log'[k + 1]
    <3> SUFFICES ASSUME NEW k \in Nat, back <= k, k < readfront + 1
                 PROVE  slots[modcap(k)] = log[k + 1]
      BY <2>1 DEF modcap
    <3>1. CASE k < readfront
      BY <1>2, <3>1
    <3>2. CASE k = readfront
      BY <1>2, <2>1, <2>2, <3>2 DEF Tickets
    <3> QED BY <3>1, <3>2, Sizes
  <2> QED BY <1>2, <2>1, <2>3, <2>4, <2>5 DEF InOrder
<1>9. CASE CopySlot
  <2>1. /\ UNCHANGED <<front, readfront, back, slots, f, pc, calls, log, taken>>
        /\ cpc = "copy" /\ Len(out) < want
    BY <1>9 DEF CopySlot, ring, producer, history
  <2>2. PICK l \in Nat : l = Len(out)
    BY Sizes
  <2>3. back + l < readfront /\ l < want /\ back + l \in Nat /\ l \in 0 .. Capacity
    BY <2>1, <2>2, Sizes
  <2>4. CopyIndex = modcap(back + l)
    <3>1. modcap(back) \in Nat
      BY Sizes, DivMod DEF modcap, Slots
    <3>2. modcap(back) + l < Capacity
      BY <2>3, <3>1, Sizes
    <3> QED BY <2>2, <2>3, <3>2, Sizes, ModAdd DEF CopyIndex
  <2>5. Writing(CopyIndex) = {}
    <3> SUFFICES ASSUME NEW q \in Producers, pc[q] = "write", modcap(f[q]) = modcap(back + l)
                 PROVE  FALSE
      BY <2>4 DEF Writing
    <3>1. q \in Holding
      BY DEF Holding
    <3>2. f[q] >= readfront
      BY <1>2, <3>1
    <3>3. back <= back + l /\ back + l < front
      BY <2>3, Sizes
    <3>4. f[q] = back + l
      BY <1>4, <2>3, <3>1, <3>3, TicketSlots
    <3> QED BY <2>3, <3>2, <3>4, Sizes
  <2>6. out' = Append(out, log[back + (l + 1)])
    <3>1. out' = Append(out, slots[modcap(back + l)])
      BY <1>9, <2>4, <2>5 DEF CopySlot
    <3>2. PICK k \in Nat : k = back + l
      BY <2>3
    <3>3. back <= k /\ k < readfront
      BY <2>3, <3>2, Sizes
    <3>4. slots[modcap(k)] = log[k + 1]
      BY <1>2, <3>3
    <3>5. k + 1 = back + (l + 1)
      BY <3>2, Sizes
    <3> QED BY <3>1, <3>2, <3>4, <3>5
  <2>7. \A i \in 1 .. Len(out') : out'[i] = log'[back' + i]
    <3>1. Len(out') = l + 1 /\ out'[l + 1] = log[back + (l + 1)] /\ \A i \in 1 .. l : out'[i] = out[i]
      BY <2>2, <2>6, Sizes
    <3>2. \A i \in 1 .. l : out'[i] = log[back + i]
      BY <1>2, <2>2, <3>1
    <3> QED BY <2>1, <3>1, <3>2
  <2>8. \A q \in Holding' : f'[q] >= readfront'
    BY <1>2, <2>1 DEF Holding
  <2>9. \A q \in Producers : pc'[q] = "publish" => slots'[modcap(f'[q])] = Item(q)'
    BY <1>2, <2>1 DEF Item
  <2> QED BY <1>2, <2>1, <2>7, <2>8, <2>9 DEF InOrder
<1>10. CASE Advance
  <2>1. /\ UNCHANGED <<front, readfront, slots, f, pc, calls, log>>
        /\ back' = back + want /\ taken' = taken \o out /\ out' = <<>> /\ Len(out) = want
    BY <1>10 DEF Advance, producer
  <2>2. PICK b \in Nat, n \in Nat : b = back /\ n = want
    BY Sizes
  <2>3. /\ \A i \in 1 .. b : (taken \o out)[i] = taken[i]
        /\ \A i \in 1 .. n : (taken \o out)[b + i] = out[i]
    <3>1. PICK t, o : t = taken /\ o = out
      OBVIOUS
    <3>2. /\ t \in Seq(Items \cup {Junk, Torn}) /\ o \in Seq(Items \cup {Junk, Torn})
          /\ Len(t) = b /\ Len(o) = n
      BY <2>1, <2>2, <3>1, Sizes
    <3>3. \A i \in 1 .. b + n : (t \o o)[i] = IF i <= b THEN t[i] ELSE o[i - b]
      BY <3>2, ConcatProperties
    <3>4. ASSUME NEW i \in 1 .. n PROVE (t \o o)[b + i] = o[i]
      <4>1. b + i \in 1 .. b + n /\ ~ (b + i <= b) /\ (b + i) - b = i
        OBVIOUS
      <4> QED BY <3>3, <4>1
    <3>5. ASSUME NEW i \in 1 .. b PROVE (t \o o)[i] = t[i]
      <4>1. i \in 1 .. b + n /\ i <= b
        OBVIOUS
      <4> QED BY <3>3, <4>1
    <3> QED BY <3>1, <3>4, <3>5
  <2>4. ASSUME NEW i \in 1 .. b + n PROVE (taken \o out)[i] = log[i]
    <3>1. CASE i \in 1 .. b
      BY <1>2, <2>2, <2>3, <3>1
    <3>2. CASE i \notin 1 .. b
      <4>1. PICK j \in 1 .. n : i = b + j
        <5>1. i - b \in 1 .. n /\ i = b + (i - b)
          BY <3>2
        <5> QED BY <5>1
      <4> QED BY <1>2, <2>1, <2>2, <2>3, <4>1
    <3> QED BY <3>1, <3>2
  <2>5. \A i \in 1 .. back' : taken'[i] = log'[i]
    BY <2>1, <2>2, <2>4
  <2>6. \A q \in Holding' : f'[q] >= readfront'
    BY <1>2, <2>1 DEF Holding
  <2>7. \A q \in Producers : pc'[q] = "publish" => slots'[modcap(f'[q])] = Item(q)'
    BY <1>2, <2>1 DEF Item
  <2>8. \A k \in Nat : back' <= k /\ k < readfront' => slots'[modcap(k)] = log'[k + 1]
    <3> SUFFICES ASSUME NEW k \in Nat, back + want <= k, k < readfront
                 PROVE  slots[modcap(k)] = log[k + 1]
      BY <2>1 DEF modcap
    <3>1. back <= k
      BY Sizes
    <3> QED BY <1>2, <3>1
  <2>9. \A i \in 1 .. Len(out') : out'[i] = log'[back' + i]
    BY <2>1
  <2> QED BY <2>5, <2>6, <2>7, <2>8, <2>9 DEF InOrder
<1>11. CASE FindEmpty \/ StartOne \/ (\E maxOut \in 1 .. MaxOut : StartBlock(maxOut)) \/ UNCHANGED vars
  <2>1. UNCHANGED <<front, readfront, back, slots, f, pc, calls, out, log, taken>>
    BY <1>11 DEF FindEmpty, StartOne, StartBlock, vars, ring, producer, consumer, history
  <2>2. \A q \in Holding' : f'[q] >= readfront'
    BY <1>2, <2>1 DEF Holding
  <2>3. \A q \in Producers : pc'[q] = "publish" => slots'[modcap(f'[q])] = Item(q)'
    BY <1>2, <2>1 DEF Item
  <2> QED BY <1>2, <2>1, <2>2, <2>3 DEF InOrder, modcap
<1> QED BY <1>5, <1>6, <1>7, <1>8, <1>9, <1>10, <1>11 DEF Next, Enqueue, Dequeue

\* Empty() (lockless_ring.h:41), which decides whether the drain thread may
\* stop, is true only when every claimed ticket has been dequeued and nobody
\* holds one; and until a thread publishes before one that claimed an earlier
\* ticket, what was dequeued is then, item by item, what was accepted.
THEOREM EmptyMeansDelivered == Spec => []EmptyIsTruthful
<1>1. Init => Tickets /\ InOrder
  <2> SUFFICES ASSUME Init PROVE Tickets /\ InOrder
    OBVIOUS
  <2>1. Holding = {} /\ readfront = 0 /\ back = 0 /\ out = <<>>
        /\ \A p \in Producers : pc[p] = "idle"
    BY DEF Init, Holding
  <2> QED BY <2>1 DEF Tickets, InOrder
<1>2. IInv /\ Tickets /\ [Next]_vars => Tickets'
  BY TicketsStep
<1>3. IInv /\ IInv' /\ Tickets /\ Tickets' /\ InOrder /\ [Next]_vars => InOrder'
  BY InOrderStep
<1>4. IInv /\ InOrder => EmptyIsTruthful
  <2> SUFFICES ASSUME IInv, InOrder, Empty PROVE EmptyIsTruthful
    BY DEF EmptyIsTruthful
  <2>1. front = back
    BY Sizes, ModEqual DEF Empty
  <2>2. Cardinality(Holding) = 0
    BY <2>1, Sizes, HoldingFinite DEF IInv, TicketsCounted
  <2>3. \A p \in Producers : pc[p] \notin {"write", "publish"}
    BY <2>2, HoldingFinite, FS_EmptySet DEF Holding
  <2>4. ASSUME ~ overtaken PROVE taken = log
    <3>1. \A i \in 1 .. back : taken[i] = log[i]
      BY <2>4 DEF InOrder
    <3>2. Len(taken) = back /\ Len(log) = back
      BY <2>1, Sizes
    <3>3. PICK t, l : t = taken /\ l = log
      OBVIOUS
    <3>4. t \in Seq(Items \cup {Junk, Torn}) /\ l \in Seq(Items \cup {Junk, Torn}) /\ Len(t) = Len(l)
      <4>1. log \in Seq(Items \cup {Junk, Torn})
        BY Sizes
      <4> QED BY <3>2, <3>3, <4>1, Sizes
    <3>5. \A i \in 1 .. Len(t) : t[i] = l[i]
      BY <3>1, <3>2, <3>3
    <3>6. t = l
      BY <3>4, <3>5, SeqEqual
    <3> QED BY <3>3, <3>6
  <2> QED BY <2>1, <2>3, <2>4 DEF EmptyIsTruthful
<1> QED BY <1>1, <1>2, <1>3, <1>4, Invariance, PTL DEF Spec
------------------------------------------------------------------------------
\* With one enqueuing thread the ticket it holds is the next to be published.
SoleTicket ==
  \A p \in Producers : pc[p] \in {"write", "publish"} =>
    f[p] = readfront /\ front = readfront + 1

\* Every step preserves SoleTicket.
LEMMA SoleTicketStep ==
  ASSUME NEW p, Producers = {p}, IInv, IInv', SoleTicket, [Next]_vars
  PROVE  SoleTicket'
<1>1. CASE Enqueue(p)
  <2>1. CASE Claim(p)
    <3>1. Holding = {}
      BY <2>1 DEF Holding, Claim
    <3>2. front = readfront
      BY <3>1, FS_EmptySet DEF IInv, TypeOK, TicketsCounted
    <3> QED BY <2>1, <3>2 DEF Claim, Goto, SoleTicket, IInv, TypeOK
  <2>2. CASE LoadFront(p) \/ Refuse(p) \/ SeeRoom(p) \/ Retry(p)
    BY <2>2 DEF LoadFront, Refuse, SeeRoom, Retry, Goto, SoleTicket, IInv, TypeOK
  <2>3. CASE Write(p)
    BY <2>3 DEF Write, Goto, SoleTicket, IInv, TypeOK
  <2>4. CASE Publish(p)
    BY <2>4 DEF Publish, Goto, SoleTicket, IInv, TypeOK
  <2> QED BY <1>1, <2>1, <2>2, <2>3, <2>4 DEF Enqueue
<1>2. CASE Dequeue
  <2>1. UNCHANGED <<front, readfront, pc, f>>
    BY <1>2 DEF Dequeue, FindEmpty, StartOne, StartBlock, CopySlot, Advance, vars,
                ring, producer
  <2> QED BY <2>1 DEF SoleTicket
<1>3. CASE UNCHANGED vars
  BY <1>3 DEF vars, ring, producer, SoleTicket
<1> QED BY <1>1, <1>2, <1>3 DEF Next

\* So it is alone in its slot, which is not one of those being copied.
LEMMA SoleWriter ==
  ASSUME NEW p, Producers = {p}, IInv, SoleTicket
  PROVE  NoSlotRace
<1> SUFFICES ASSUME pc[p] = "write"
             PROVE  /\ Writing(modcap(f[p])) = {p}
                    /\ cpc = "copy" =>
                         modcap(f[p]) \notin modcap(back) .. modcap(back) + want - 1
  BY DEF NoSlotRace
<1>1. Writing(modcap(f[p])) = {p}
  BY DEF Writing
<1>2. f[p] = readfront /\ front = readfront + 1
  BY DEF SoleTicket
<1> DEFINE d == readfront - back
           i == modcap(back)
           j == modcap(readfront)
<1>3. d \in 0 .. Capacity /\ d < Capacity /\ readfront = back + d /\ want \in 0 .. d
  BY <1>2, CapacityAssumption DEF IInv, TypeOK, TicketWindow
<1>4. back \in Nat /\ i + want <= Capacity
  BY DEF IInv, TypeOK, TicketWindow
<1> HIDE DEF d
<1>5. i \in Slots /\ j = IF i + d < Capacity THEN i + d ELSE i + d - Capacity
  BY <1>3, <1>4, ModAdd
<1> HIDE DEF i, j
<1>6. j \notin i .. i + want - 1
  BY <1>3, <1>4, <1>5, CapacityAssumption DEF Slots
<1> QED BY <1>1, <1>2, <1>6 DEF i, j

\* With one enqueuing thread, the slot it writes (lockless_ring.h:76) is not one
\* that the dequeuing thread is copying.
THEOREM OneProducerNoSlotRace ==
  ASSUME NEW p, Producers = {p}
  PROVE  Spec => []NoSlotRace
<1>1. Init => SoleTicket
  BY DEF Init, SoleTicket
<1>2. IInv /\ IInv' /\ SoleTicket /\ [Next]_vars => SoleTicket'
  BY SoleTicketStep
<1>3. IInv /\ SoleTicket => NoSlotRace
  BY SoleWriter
<1>4. Spec => []IInv
  BY Invariance
<1> QED BY <1>1, <1>2, <1>3, <1>4, PTL DEF Spec
------------------------------------------------------------------------------
\* With one enqueuing thread nobody moves front between its load and the
\* compare-and-swap.
FrontIsFresh ==
  \A p \in Producers : pc[p] \in {"check", "claim"} => f[p] = front

\* Every step preserves FrontIsFresh.
LEMMA FrontIsFreshStep ==
  ASSUME NEW p, Producers = {p}, TypeOK, FrontIsFresh, [Next]_vars
  PROVE  FrontIsFresh'
<1>1. CASE Enqueue(p)
  BY <1>1 DEF Enqueue, LoadFront, Refuse, SeeRoom, Claim, Retry, Write, Publish,
              Goto, ring, FrontIsFresh, TypeOK
<1>2. CASE Dequeue
  <2>1. UNCHANGED <<front, pc, f>>
    BY <1>2 DEF Dequeue, FindEmpty, StartOne, StartBlock, CopySlot, Advance, vars,
                ring, producer
  <2> QED BY <2>1 DEF FrontIsFresh
<1>3. CASE UNCHANGED vars
  BY <1>3 DEF vars, ring, producer, FrontIsFresh
<1> QED BY <1>1, <1>2, <1>3 DEF Next

\* With one enqueuing thread, TryEnqueue returns false (lockless_ring.h:72) only
\* when the ring holds capacity - 1 elements at that moment.
THEOREM OneProducerRefusals ==
  ASSUME NEW p, Producers = {p}
  PROVE  Spec => RefusedOnlyWhenFull
<1>1. Init => FrontIsFresh
  BY DEF Init, FrontIsFresh
<1>2. IInv /\ FrontIsFresh /\ [Next]_vars => FrontIsFresh'
  BY FrontIsFreshStep DEF IInv
<1>3. IInv /\ FrontIsFresh /\ [Next]_vars
        => [RefusesFullRing]_vars
  <2> SUFFICES ASSUME IInv, FrontIsFresh, Next, pc[p] = "check", pc'[p] = "idle"
               PROVE  front - back = Capacity - 1
    BY DEF RefusesFullRing, GetSize
  <2>1. Refuse(p)
    BY DEF Next, Enqueue, LoadFront, Refuse, SeeRoom, Claim, Retry, Write, Publish,
           Goto, Dequeue, FindEmpty, StartOne, StartBlock, CopySlot, Advance, vars,
           producer, IInv, TypeOK
  <2>2. modcap_eq(front + 1, back)
    BY <2>1 DEF Refuse, FrontIsFresh
  <2>3. front \in Nat /\ back \in Nat /\ back <= front /\ front < back + Capacity
    BY DEF IInv, TypeOK, TicketWindow
  <2>4. ~ (front + 1 < back + Capacity)
    <3> SUFFICES ASSUME front + 1 < back + Capacity PROVE FALSE
      OBVIOUS
    <3>1. front + 1 \in Nat /\ back <= front + 1
      BY <2>3
    <3>2. back = front + 1
      BY <2>2, <2>3, <3>1, ModEqual
    <3> QED BY <2>3, <3>2
  <2> QED BY <2>3, <2>4, CapacityAssumption
<1>4. Spec => []IInv
  BY Invariance
<1> QED BY <1>1, <1>2, <1>3, <1>4, PTL DEF Spec, RefusedOnlyWhenFull
------------------------------------------------------------------------------
\* What is waiting in the ring, as a FIFO queue.
Waiting == [i \in 1 .. readfront - back |-> slots[modcap(back + i - 1)]]

Contents == Items \cup {Junk, Torn}

\* The ticket that is held is this call's item, and its slot has the item once
\* it has been written.
Ready ==
  \A p \in Producers :
    /\ pc[p] = "write" => log[front] = Item(p)
    /\ pc[p] = "publish" => slots[modcap(readfront)] = log[front]

\* A dequeue has copied what its slots hold, and has something to copy.
Copied ==
  /\ \A i \in 1 .. Len(out) : out[i] = slots[modcap(back + i - 1)]
  /\ cpc = "copy" => want # 0

\* One enqueuing thread's invariant.
Sole == IInv /\ SoleTicket /\ Ready /\ Copied

\* The tickets that wait have slots of their own, and none is that of the ticket
\* that comes next.
LEMMA SlotsApart ==
  ASSUME IInv, NEW i \in 1 .. readfront - back
  PROVE  /\ back + i - 1 \in Nat /\ modcap(back + i - 1) \in Slots /\ modcap(readfront) \in Slots
         /\ modcap(back + i - 1) # modcap(readfront)
<1>1. PICK a : a = back + i - 1
  OBVIOUS
<1>2. a \in Nat /\ a <= readfront /\ readfront < a + Capacity /\ a # readfront /\ readfront \in Nat
  BY <1>1, Sizes
<1>3. ~ modcap_eq(readfront, a)
  BY <1>2, ModEqual
<1>4. modcap(a) \in Slots /\ modcap(readfront) \in Slots
  BY <1>2, DivMod DEF modcap
<1> QED BY <1>1, <1>2, <1>3, <1>4 DEF modcap_eq

\* Slot by slot the copy stays in step with the tickets.
LEMMA CopySlotOf ==
  ASSUME IInv, NEW i \in 1 .. want
  PROVE  modcap(back + i - 1) = modcap(back) + i - 1 /\ back + i - 1 \in Nat
<1>1. PICK d : d = i - 1
  OBVIOUS
<1>2. PICK s : s = modcap(back)
  OBVIOUS
<1>3. d \in 0 .. Capacity /\ s + d < Capacity /\ s \in Slots /\ back + i - 1 = back + d /\ back + d \in Nat
  <2>1. s \in Slots
    BY <1>2, Sizes, DivMod DEF modcap
  <2>2. s \in Nat
    BY <2>1, CapacityAssumption DEF Slots
  <2>3. s + want <= Capacity
    BY <1>2, Sizes
  <2> QED BY <1>1, <2>1, <2>2, <2>3, Sizes
<1>4. modcap(back + d) = s + d
  BY <1>2, <1>3, Sizes, ModAdd
<1> QED BY <1>1, <1>2, <1>3, <1>4

LEMMA WaitingIs ==
  ASSUME IInv
  PROVE  /\ Waiting \in Seq(Contents) /\ Len(Waiting) = readfront - back
         /\ \A i \in 1 .. readfront - back : Waiting[i] = slots[modcap(back + i - 1)]
<1>1. readfront - back \in Nat
  BY Sizes
<1>2. \A i \in 1 .. readfront - back : slots[modcap(back + i - 1)] \in Contents
  BY SlotsApart DEF IInv, TypeOK, Contents
<1>3. PICK n \in Nat : n = readfront - back
  BY <1>1
<1>4. Waiting \in [1 .. n -> Contents]
  BY <1>2, <1>3 DEF Waiting
<1>5. Waiting \in Seq(Contents) /\ Len(Waiting) = n
  BY <1>4
<1> QED BY <1>3, <1>5 DEF Waiting

LEMMA SoleInit ==
  ASSUME NEW p, Producers = {p}
  PROVE  Init => Sole
<1> SUFFICES ASSUME Init PROVE Sole
  OBVIOUS
<1>1. IInv
  BY Initially
<1>2. SoleTicket /\ Ready /\ Copied
  BY DEF Init, SoleTicket, Ready, Copied
<1> QED BY <1>1, <1>2 DEF Sole

LEMMA ReadyStep ==
  ASSUME NEW p, Producers = {p}, Sole, IInv', [Next]_vars
  PROVE  Ready'
<1> USE DEF Sole
<1>1. CASE Claim(p)
  <2>1. /\ pc[p] = "claim" /\ front = f[p] /\ front' = f[p] + 1 /\ log' = Append(log, Item(p))
        /\ pc' = [pc EXCEPT ![p] = "write"] /\ calls' = calls
    BY <1>1 DEF Claim, Goto
  <2>2. log \in Seq(Items) /\ Len(log) = front /\ front \in Nat
    BY Sizes DEF IInv, TypeOK
  <2>3. pc'[p] = "write"
    BY <2>1 DEF IInv, TypeOK
  <2>4. log'[front'] = Item(p)
    BY <2>1, <2>2
  <2> QED BY <2>1, <2>3, <2>4 DEF Ready, Item
<1>2. CASE Write(p)
  <2>1. /\ pc[p] = "write" /\ slots' = [slots EXCEPT ![modcap(f[p])] = Item(p)]
        /\ UNCHANGED <<front, readfront, log, calls>>
        /\ pc' = [pc EXCEPT ![p] = "publish"]
    BY <1>2, SoleWriter DEF Write, Goto, Writing, history, NoSlotRace
  <2>2. f[p] = readfront
    BY <2>1 DEF SoleTicket
  <2>3. modcap(readfront) \in Slots
    BY Sizes, DivMod DEF modcap
  <2>4. slots'[modcap(readfront)] = Item(p) /\ pc'[p] = "publish"
    BY <2>1, <2>2, <2>3 DEF IInv, TypeOK
  <2> QED BY <2>1, <2>4 DEF Ready
<1>3. CASE LoadFront(p) \/ Refuse(p) \/ SeeRoom(p) \/ Retry(p) \/ Publish(p)
  <2>1. pc'[p] \in {"idle", "check", "claim"}
    BY <1>3 DEF LoadFront, Refuse, SeeRoom, Retry, Publish, Goto, IInv, TypeOK
  <2> QED BY <2>1 DEF Ready
<1>4. CASE Dequeue \/ UNCHANGED vars
  <2>1. UNCHANGED <<front, readfront, slots, log, pc, calls>>
    BY <1>4 DEF Dequeue, FindEmpty, StartOne, StartBlock, CopySlot, Advance, vars,
                ring, producer, history
  <2> QED BY <2>1 DEF Ready, Item
<1> QED BY <1>1, <1>2, <1>3, <1>4 DEF Next, Enqueue

LEMMA CopiedStep ==
  ASSUME NEW p, Producers = {p}, Sole, IInv', [Next]_vars
  PROVE  Copied'
<1> USE DEF Sole
<1>1. CASE Write(p)
  <2>1. /\ pc[p] = "write" /\ slots' = [slots EXCEPT ![modcap(f[p])] = Item(p)]
        /\ UNCHANGED <<back, out, cpc, want>>
    BY <1>1, SoleWriter DEF Write, Writing, consumer, NoSlotRace
  <2>2. f[p] = readfront
    BY <2>1 DEF SoleTicket
  <2>3. ASSUME NEW i \in 1 .. Len(out)
        PROVE  slots'[modcap(back + i - 1)] = slots[modcap(back + i - 1)]
    <3>1. i \in 1 .. readfront - back
      BY Sizes
    <3> QED BY <2>1, <2>2, <3>1, SlotsApart DEF IInv, TypeOK
  <2> QED BY <2>1, <2>3 DEF Copied
<1>2. CASE CopySlot
  <2>1. /\ cpc = "copy" /\ Len(out) < want /\ UNCHANGED <<back, slots, want, cpc>>
    BY <1>2 DEF CopySlot, ring
  <2>2. PICK k : k = Len(out) + 1
    OBVIOUS
  <2>3. k \in 1 .. want /\ CopyIndex = modcap(back) + k - 1 /\ CopyIndex = modcap(back + k - 1)
    <3>1. k \in 1 .. want
      BY <2>1, <2>2, Sizes
    <3>2. modcap(back) \in Nat /\ Len(out) = k - 1
      BY <2>2, Sizes, DivMod DEF modcap, Slots
    <3>3. CopyIndex = modcap(back) + k - 1
      BY <3>1, <3>2 DEF CopyIndex
    <3> QED BY <3>1, <3>3, CopySlotOf
  <2>4. Writing(CopyIndex) = {}
    <3> SUFFICES ASSUME pc[p] = "write", modcap(f[p]) = CopyIndex PROVE FALSE
      BY DEF Writing
    <3>1. modcap(back) \in Nat
      BY Sizes, DivMod DEF modcap, Slots
    <3>2. CopyIndex \in modcap(back) .. modcap(back) + want - 1
      BY <2>3, <3>1, Sizes
    <3> QED BY <2>1, <3>2, SoleWriter DEF NoSlotRace
  <2>5. out' = Append(out, slots[CopyIndex])
    BY <1>2, <2>4 DEF CopySlot
  <2>6. out \in Seq(Contents) /\ Len(out) \in Nat
    BY DEF IInv, TypeOK, Contents
  <2>7. /\ Len(out') = k /\ out'[k] = slots[modcap(back + k - 1)]
        /\ \A i \in 1 .. Len(out) : out'[i] = out[i]
    BY <2>2, <2>3, <2>5, <2>6
  <2>8. ASSUME NEW i \in 1 .. k PROVE i \in 1 .. Len(out) \/ i = k
    BY <2>2, <2>6
  <2> QED BY <2>1, <2>7, <2>8 DEF Copied
<1>3. CASE Advance
  BY <1>3 DEF Advance, Copied
<1>4. CASE StartOne
  BY <1>4 DEF StartOne, ring, Copied
<1>5. ASSUME NEW maxOut \in 1 .. MaxOut, StartBlock(maxOut) PROVE Copied'
  <2>1. readfront # back
    BY <1>5 DEF StartBlock, modcap_eq
  <2>2. back < readfront /\ readfront < back + Capacity /\ back \in Nat /\ readfront \in Nat
    BY <2>1, Sizes
  <2>3. BlockCopySize(modcap(readfront), modcap(back), maxOut) \in Nat \ {0}
    BY <2>2, BlockInRing, MaxOutAssumption
  <2> QED BY <1>5, <2>3 DEF StartBlock, ring, Copied
<1>6. CASE \/ LoadFront(p) \/ Refuse(p) \/ SeeRoom(p) \/ Retry(p) \/ Claim(p) \/ Publish(p)
           \/ FindEmpty \/ UNCHANGED vars
  <2>1. UNCHANGED <<back, slots, want, cpc, out>>
    BY <1>6 DEF LoadFront, Refuse, SeeRoom, Retry, Claim, Publish, FindEmpty, vars, ring, consumer
  <2> QED BY <2>1 DEF Copied
<1> QED BY <1>1, <1>2, <1>3, <1>4, <1>5, <1>6 DEF Next, Enqueue, Dequeue

\* A publication is an Enqueue of the abstract queue.
LEMMA PublishEnqueues ==
  ASSUME NEW p, Producers = {p}, Sole, Publish(p)
  PROVE  \E v \in Items : Fifo!Enqueue(v)
<1> USE DEF Sole
<1>1. /\ pc[p] = "publish" /\ readfront' = readfront + 1
      /\ UNCHANGED <<front, back, slots, log, taken>>
  BY DEF Publish, history
<1>2. front = readfront + 1 /\ slots[modcap(readfront)] = log[front] /\ log \in Seq(Items)
  BY <1>1 DEF SoleTicket, Ready, IInv, TypeOK
<1>3. PICK v : v = log[front]
  OBVIOUS
<1>4. PICK n \in Nat : n = readfront - back
  BY Sizes
<1>5. front \in 1 .. Len(log) /\ v \in Items /\ readfront \in Nat
  BY <1>2, <1>3, Sizes
<1>6. SubSeq(log, 1, readfront + 1) = Append(SubSeq(log, 1, readfront), v)
  BY <1>2, <1>3, <1>5, Sizes
<1>7. n < Capacity - 1
  BY <1>2, <1>4, Sizes
<1>8. Waiting' = Append(Waiting, v)
  <2>1. /\ Waiting \in Seq(Contents) /\ Len(Waiting) = n
        /\ \A i \in 1 .. n : Waiting[i] = slots[modcap(back + i - 1)]
    BY <1>4, WaitingIs
  <2>2. readfront' - back' = n + 1 /\ back + (n + 1) - 1 = readfront
    BY <1>1, <1>4, Sizes
  <2>3. Waiting' = [i \in 1 .. n + 1 |-> slots[modcap(back + i - 1)]]
    BY <1>1, <2>2 DEF Waiting, modcap
  <2>4. slots[modcap(back + (n + 1) - 1)] = v
    BY <1>2, <1>3, <2>2
  <2>5. PICK w : w = Waiting
    OBVIOUS
  <2>6. w \in Seq(Contents) /\ Len(w) = n /\ v \in Contents
    BY <1>5, <2>1, <2>5 DEF Contents
  <2>7. /\ Append(w, v) \in Seq(Contents) /\ Len(Append(w, v)) = n + 1
        /\ \A i \in 1 .. n : Append(w, v)[i] = w[i]
        /\ Append(w, v)[n + 1] = v
    BY <2>6
  <2>8. ASSUME NEW i \in 1 .. n + 1
        PROVE  slots[modcap(back + i - 1)] = Append(w, v)[i]
    <3>1. CASE i = n + 1
      BY <2>4, <2>7, <3>1
    <3>2. CASE i # n + 1
      <4>1. i \in 1 .. n
        BY <3>2
      <4> QED BY <2>1, <2>5, <2>7, <4>1
    <3> QED BY <3>1, <3>2
  <2>9. PICK u : u = Append(w, v)
    OBVIOUS
  <2>10. u = [i \in 1 .. n + 1 |-> u[i]]
    <3>1. u \in Seq(Contents) /\ Len(u) = n + 1
      BY <2>7, <2>9
    <3>2. u \in [1 .. n + 1 -> Contents]
      BY <3>1, LenProperties
    <3> QED BY <3>2
  <2> QED BY <2>3, <2>5, <2>8, <2>9, <2>10
<1>9. Len(Waiting) = n
  BY <1>4, WaitingIs
<1> QED BY <1>1, <1>5, <1>6, <1>7, <1>8, <1>9 DEF Fifo!Enqueue, Waiting

\* A dequeue that returns is a Dequeue of the abstract queue.
LEMMA AdvanceDequeues ==
  ASSUME NEW p, Producers = {p}, Sole, Advance
  PROVE  \E n \in 1 .. Len(Waiting) : Fifo!Dequeue(n)
<1> USE DEF Sole
<1>1. /\ cpc = "copy" /\ Len(out) = want /\ back' = back + want /\ taken' = taken \o out
      /\ UNCHANGED <<front, readfront, slots, log>>
  BY DEF Advance
<1>2. PICK n \in Nat : n = readfront - back
  BY Sizes
<1>3. /\ Waiting \in Seq(Contents) /\ Len(Waiting) = n
      /\ \A i \in 1 .. n : Waiting[i] = slots[modcap(back + i - 1)]
  BY <1>2, WaitingIs
<1>4. want \in 1 .. n
  <2>1. want # 0
    BY <1>1 DEF Copied
  <2> QED BY <1>2, <2>1, Sizes
<1>5. out \in Seq(Contents)
  BY DEF IInv, TypeOK, Contents
<1>6. SubSeq(Waiting, 1, want) = out
  <2>1. SubSeq(Waiting, 1, want) \in Seq(Contents) /\ Len(SubSeq(Waiting, 1, want)) = want
    BY <1>3, <1>4
  <2>2. ASSUME NEW i \in 1 .. want PROVE SubSeq(Waiting, 1, want)[i] = out[i]
    <3>1. i \in 1 .. n
      BY <1>4
    <3>2. SubSeq(Waiting, 1, want)[i] = Waiting[i]
      BY <1>3, <1>4
    <3> QED BY <1>1, <1>3, <3>1, <3>2 DEF Copied
  <2> QED BY <1>1, <1>5, <2>1, <2>2, SeqEqual
<1>7. SubSeq(Waiting, want + 1, Len(Waiting)) = Waiting'
  <2>1. readfront' - back' = n - want
    BY <1>1, <1>2, <1>4, Sizes
  <2>2. Waiting' = [i \in 1 .. n - want |-> slots[modcap(back + want + i - 1)]]
    BY <1>1, <2>1 DEF Waiting, modcap
  <2>3. SubSeq(Waiting, want + 1, n) = [i \in 1 .. n - want |-> Waiting[want + i]]
    BY <1>3, <1>4
  <2>4. ASSUME NEW i \in 1 .. n - want
        PROVE  Waiting[want + i] = slots[modcap(back + want + i - 1)]
    <3>1. want + i \in 1 .. n /\ back + (want + i) - 1 = back + want + i - 1
      BY <1>4, Sizes
    <3> QED BY <1>3, <3>1
  <2> QED BY <1>3, <2>2, <2>3, <2>4
<1> QED BY <1>1, <1>3, <1>4, <1>6, <1>7 DEF Fifo!Dequeue, Waiting

\* Every other step leaves the abstract queue alone.
LEMMA OtherStepsStutter ==
  ASSUME NEW p, Producers = {p}, Sole, [Next]_vars, ~ Publish(p), ~ Advance
  PROVE  UNCHANGED <<SubSeq(log, 1, readfront), Waiting, taken>>
<1> USE DEF Sole
<1>1. CASE Write(p)
  <2>1. /\ pc[p] = "write" /\ slots' = [slots EXCEPT ![modcap(f[p])] = Item(p)]
        /\ UNCHANGED <<readfront, back, log, taken>>
    BY <1>1, SoleWriter DEF Write, Writing, history, NoSlotRace
  <2>2. f[p] = readfront
    BY <2>1 DEF SoleTicket
  <2>3. \A i \in 1 .. readfront - back :
           slots'[modcap(back + i - 1)] = slots[modcap(back + i - 1)]
    BY <2>1, <2>2, SlotsApart DEF IInv, TypeOK
  <2>4. Waiting' = Waiting
    BY <2>1, <2>3 DEF Waiting, modcap
  <2> QED BY <2>1, <2>4
<1>2. CASE Claim(p)
  <2>1. log' = Append(log, Item(p)) /\ UNCHANGED <<readfront, back, slots, taken>>
    BY <1>2 DEF Claim
  <2>2. log \in Seq(Items) /\ readfront \in 0 .. Len(log) /\ Item(p) \in Items
    <3>1. calls[p] \in 1 .. MaxCalls
      BY <1>2 DEF Claim, IInv, TypeOK, InCall
    <3> QED BY <3>1, Sizes DEF IInv, TypeOK, Item, Items
  <2>3. SubSeq(log', 1, readfront) = SubSeq(log, 1, readfront)
    BY <2>1, <2>2
  <2>4. Waiting' = Waiting
    BY <2>1 DEF Waiting, modcap
  <2> QED BY <2>1, <2>3, <2>4
<1>3. CASE ~ Write(p) /\ ~ Claim(p)
  <2>1. UNCHANGED <<readfront, back, slots, log, taken>>
    BY <1>3 DEF Next, Enqueue, LoadFront, Refuse, SeeRoom, Retry, Dequeue, FindEmpty, StartOne,
       StartBlock, CopySlot, vars, ring, history
  <2> QED BY <2>1 DEF Waiting, modcap
<1> QED BY <1>1, <1>2, <1>3

\* With one enqueuing thread the ring is a FIFO queue with room for capacity - 1
\* items, whatever blocks the dequeuing thread asks for (lockless_ring.h:65, :92).
THEOREM OneProducerFifo ==
  ASSUME NEW p, Producers = {p}
  PROVE  Spec => ImplementsFifo
<1>1. Init => Sole
  BY SoleInit
<1>2. Sole /\ [Next]_vars => Sole'
  BY Inductive, SoleTicketStep, ReadyStep, CopiedStep DEF Sole
<1>3. Init => Fifo!Init
  <2> SUFFICES ASSUME Init PROVE Fifo!Init
    OBVIOUS
  <2>1. Waiting = <<>> /\ SubSeq(log, 1, readfront) = <<>> /\ taken = <<>>
    BY DEF Init, Waiting
  <2> QED BY <2>1 DEF Fifo!Init, Waiting
<1>4. Sole /\ [Next]_vars => [Fifo!Next]_(Fifo!vars)
  <2> SUFFICES ASSUME Sole, [Next]_vars PROVE [Fifo!Next]_(Fifo!vars)
    OBVIOUS
  <2>1. CASE Publish(p)
    BY <2>1, PublishEnqueues DEF Fifo!Next
  <2>2. CASE Advance
    BY <2>2, AdvanceDequeues DEF Fifo!Next, Waiting
  <2>3. CASE ~ Publish(p) /\ ~ Advance
    BY <2>3, OtherStepsStutter DEF Fifo!vars, Waiting
  <2> QED BY <2>1, <2>2, <2>3
<1>5. Spec => Fifo!Spec
  BY <1>1, <1>2, <1>3, <1>4, PTL DEF Spec, Fifo!Spec
<1> QED BY <1>5 DEF ImplementsFifo
==============================================================================
