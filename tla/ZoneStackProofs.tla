--------------------------- MODULE ZoneStackProofs ---------------------------
(***************************************************************************)
(* Theorems about ZoneStack, for every set of threads, every depth of the  *)
(* zone stack, and however long the program runs.                          *)
(*                                                                         *)
(* An event that has an id and is neither emitted nor refused is pending:  *)
(* its zone is on the stack of its thread, or StampEvent is still at work  *)
(* on it.  The invariant says of the pending events what the properties    *)
(* say of the emitted ones, and how the two relate (Ids, Order, Tree); and *)
(* of the stacks how they follow the program's own zones (Nesting), which  *)
(* holds if the program pauses outside its zones only.                     *)
(***************************************************************************)
EXTENDS ZoneStack, SequenceTheorems, TLAPS

\* The event of a thread at a place: 0 is StampEvent, the others its stack's.
Pending(t, i) ==
  i \in 1 .. Len(stack[t]) \/ (i = 0 /\ pc[t] \in {"time", "frame"})

Event(t, i) == IF i = 0 THEN ev[t] ELSE stack[t][i]

\* The id of the innermost zone on the stack: PeekParentID.
TopID(t) == IF Len(stack[t]) = 0 THEN 0 ELSE stack[t][Len(stack[t])].id

\* The event of that id has been emitted, or refused, or its zone is open.
Placed(n) ==
  \/ \E z \in emitted : z.id = n
  \/ n \in dropped
  \/ \E t \in Threads : \E i \in 1 .. Len(stack[t]) : stack[t][i].id = n

\* A thread in a call has an index, and of its own.
Indexed ==
  /\ \A t \in Threads : index[t] < threadCount
  /\ \A e \in emitted : e.thread < threadCount
  /\ \A t \in Threads : index[t] = NoIndex => pc[t] = "idle" /\ stack[t] = <<>>
  /\ \A t, u \in Threads : index[t] = index[u] /\ index[t] # NoIndex => t = u
  /\ \A t \in Threads : pc[t] # "idle" /\ ev[t].zone => Len(stack[t]) < Depth

\* An id is one event's, wherever it is.
Ids ==
  /\ nextMessageID > 0
  /\ \A e \in emitted : 0 < e.id /\ e.id < nextMessageID /\ e.id \notin dropped
  /\ \A d, e \in emitted : d.id = e.id => d = e
  /\ \A n \in dropped : n < nextMessageID
  /\ \A t \in Threads, i \in Nat : Pending(t, i) =>
       /\ 0 < Event(t, i).id /\ Event(t, i).id < nextMessageID
       /\ Event(t, i).id \notin dropped
       /\ \A e \in emitted : e.id # Event(t, i).id
  /\ \A t, u \in Threads, i, j \in Nat :
       Pending(t, i) /\ Pending(u, j) /\ Event(t, i).id = Event(u, j).id => t = u /\ i = j

\* What StampEvent has done of its event comes after what the thread did before.
Stamped(t) ==
  /\ pc[t] # "idle" => ev[t].value = 0
  /\ pc[t] \in {"time", "frame"} =>
       /\ ev[t].thread = index[t]
       /\ \A i \in 1 .. Len(stack[t]) : stack[t][i].id < ev[t].id
       /\ \A e \in emitted : e.thread = index[t] => e.id < ev[t].id
  /\ pc[t] = "frame" =>
       /\ ev[t].time <= now
       /\ \A i \in 1 .. Len(stack[t]) : stack[t][i].time <= ev[t].time
       /\ \A e \in emitted : e.thread = index[t] => e.time <= ev[t].time

\* What the events of one thread have to do with each other.
Order ==
  /\ \A e \in emitted : e.time + e.value <= now /\ e.frame <= frameNumber
  /\ \A t \in Threads : \A i \in 1 .. Len(stack[t]) :
       /\ stack[t][i].thread = index[t] /\ stack[t][i].zone /\ stack[t][i].value = 0
       /\ stack[t][i].time <= now /\ stack[t][i].frame <= frameNumber
  /\ \A t \in Threads : Stamped(t)
  /\ \A t \in Threads : \A i, j \in 1 .. Len(stack[t]) : i < j =>
       /\ stack[t][i].id < stack[t][j].id /\ stack[t][i].time <= stack[t][j].time
       /\ stack[t][i].frame <= stack[t][j].frame
  /\ \A t \in Threads, e \in emitted : \A i \in 1 .. Len(stack[t]) : e.thread = index[t] =>
       /\ e.id < stack[t][i].id => e.time <= stack[t][i].time /\ e.frame <= stack[t][i].frame
       /\ stack[t][i].id < e.id => stack[t][i].time <= e.time /\ stack[t][i].frame <= e.frame
  /\ StampsAscend

\* Who is whose parent.
Tree ==
  /\ \A t \in Threads : \A i \in 1 .. Len(stack[t]) :
       stack[t][i].parent = IF i = 1 THEN 0 ELSE stack[t][i - 1].id
  /\ \A t \in Threads : pc[t] # "idle" /\ ev[t].zone => ev[t].parent = TopID(t)
  /\ \A t \in Threads, e \in emitted : \A i \in 1 .. Len(stack[t]) :
       e.parent = stack[t][i].id =>
         /\ e.thread = index[t] /\ stack[t][i].id < e.id
         /\ stack[t][i].time <= e.time /\ stack[t][i].frame <= e.frame
  /\ \A e \in emitted : e.parent # 0 => Placed(e.parent)
  /\ ParentEncloses

\* The inductive invariant of the events.
IInv == TypeOK /\ Indexed /\ Ids /\ Order /\ Tree

\* The stack of a thread is what the program means, until it overflows.
Follows(t) ==
  /\ Len(stack[t]) <= Len(nest[t])
  /\ nest[t] = <<>> => ~ overflowed[t]
  /\ ~ overflowed[t] /\ ~ paused =>
       /\ Len(stack[t]) = Len(nest[t])
       /\ \A i \in 1 .. Len(stack[t]) : stack[t][i].id = nest[t][i]

Nesting ==
  /\ \A t \in Threads : Follows(t)
  /\ paused => \A t \in Threads : pc[t] = "idle" /\ stack[t] = <<>>

------------------------------------------------------------------------------
(* Stacks and events *)

\* What Push and Pop make of a stack (slabstack.h:63, :77).
LEMMA Pushed ==
  ASSUME NEW s \in Seq(Events), NEW e \in Events
  PROVE  /\ Append(s, e) \in Seq(Events) /\ Len(Append(s, e)) = Len(s) + 1
         /\ \A i \in 1 .. Len(s) : Append(s, e)[i] = s[i]
         /\ Append(s, e)[Len(s) + 1] = e
OBVIOUS

LEMMA Popped ==
  ASSUME NEW S, NEW s \in Seq(S), s # <<>>
  PROVE  /\ Front(s) \in Seq(S) /\ Len(Front(s)) = Len(s) - 1
         /\ \A i \in 1 .. Len(s) - 1 : Front(s)[i] = s[i]
         /\ Last(s) = s[Len(s)] /\ Last(s) \in S /\ Len(s) \in Nat \ {0}
<1>1. Len(s) \in Nat \ {0} /\ \A i \in 1 .. Len(s) : s[i] \in S
  BY EmptySeq, ElementOfSeq
<1> DEFINE f == SubSeq(s, 1, Len(s) - 1)
<1>2. \A i \in 1 .. Len(s) - 1 : s[i] \in S
  BY <1>1
<1>3. /\ f \in Seq(S) /\ Len(f) = (IF 1 <= Len(s) - 1 THEN Len(s) - 1 - 1 + 1 ELSE 0)
      /\ \A i \in 1 .. Len(s) - 1 - 1 + 1 : f[i] = s[1 + i - 1]
  BY <1>1, <1>2, SubSeqProperties
<1> HIDE DEF f
<1>4. ASSUME NEW i \in 1 .. Len(s) - 1 PROVE f[i] = s[i]
  <2>1. i \in 1 .. Len(s) - 1 - 1 + 1 /\ 1 + i - 1 = i
    BY <1>1
  <2> QED BY <1>3, <2>1
<1>5. Len(f) = Len(s) - 1
  <2> DEFINE n == Len(s)
  <2>1. n \in Nat \ {0} /\ Len(f) = (IF 1 <= n - 1 THEN n - 1 - 1 + 1 ELSE 0)
    BY <1>1, <1>3
  <2> HIDE DEF n
  <2>2. Len(f) = n - 1
    BY <2>1
  <2> QED BY <2>2 DEF n
<1>6. Front(s) = f /\ Last(s) = s[Len(s)]
  BY DEF f, Front, Last
<1> QED BY <1>1, <1>3, <1>4, <1>5, <1>6

\* What there is on a stack.
LEMMA Stacked ==
  ASSUME TypeOK, NEW t \in Threads
  PROVE  /\ stack[t] \in Seq(Events) /\ Len(stack[t]) \in Nat
         /\ DOMAIN stack[t] = 1 .. Len(stack[t])
         /\ \A i \in 1 .. Len(stack[t]) : stack[t][i] \in Events
         /\ Empty(t) <=> Len(stack[t]) = 0
         /\ PeekParentID(t) = TopID(t) /\ TopID(t) \in Nat
<1>1. stack[t] \in Seq(Events)
  BY DEF TypeOK
<1>2. /\ Len(stack[t]) \in Nat /\ DOMAIN stack[t] = 1 .. Len(stack[t])
      /\ \A i \in 1 .. Len(stack[t]) : stack[t][i] \in Events
      /\ Empty(t) <=> Len(stack[t]) = 0
  BY <1>1, LenProperties, ElementOfSeq, EmptySeq DEF Empty
<1>3. CASE Empty(t)
  BY <1>1, <1>2, <1>3 DEF PeekParentID, TopID
<1>4. CASE ~ Empty(t)
  <2>1. Last(stack[t]) = stack[t][Len(stack[t])] /\ Last(stack[t]) \in Events
    BY <1>1, <1>4, Popped DEF Empty
  <2> QED BY <1>1, <1>2, <1>4, <2>1 DEF PeekParentID, TopID, Events
<1> QED BY <1>1, <1>2, <1>3, <1>4

\* What the steps of a call make of an event.
LEMMA Framed ==
  ASSUME NEW e \in Events, NEW n \in Nat, NEW r, r = [e EXCEPT !.frame = n]
  PROVE  /\ r \in Events /\ r.frame = n /\ r.id = e.id /\ r.zone = e.zone
         /\ r.thread = e.thread /\ r.parent = e.parent /\ r.time = e.time
         /\ r.value = e.value
BY DEF Events

LEMMA Valued ==
  ASSUME NEW e \in Events, NEW n \in Nat, NEW r, r = [e EXCEPT !.value = n]
  PROVE  /\ r \in Events /\ r.value = n /\ r.id = e.id /\ r.zone = e.zone
         /\ r.thread = e.thread /\ r.parent = e.parent /\ r.time = e.time
         /\ r.frame = e.frame
BY DEF Events

LEMMA StampedID ==
  ASSUME NEW f \in [Threads -> Events], NEW t \in Threads, NEW n \in Nat, NEW m \in Nat,
         NEW g, g = [f EXCEPT ![t].id = n, ![t].thread = m]
  PROVE  /\ \A u \in Threads \ {t} : g[u] = f[u]
         /\ g[t].id = n /\ g[t].thread = m /\ g[t].zone = f[t].zone
         /\ g[t].parent = f[t].parent /\ g[t].value = f[t].value
         /\ g \in [Threads -> Events]
BY DEF Events

LEMMA StampedTime ==
  ASSUME NEW f \in [Threads -> Events], NEW t \in Threads, NEW n \in Nat,
         NEW g, g = [f EXCEPT ![t].time = n]
  PROVE  /\ \A u \in Threads \ {t} : g[u] = f[u]
         /\ g[t].time = n /\ g[t].id = f[t].id /\ g[t].thread = f[t].thread
         /\ g[t].zone = f[t].zone /\ g[t].parent = f[t].parent
         /\ g[t].value = f[t].value
         /\ g \in [Threads -> Events]
BY DEF Events

------------------------------------------------------------------------------
(* The steps *)

\* A step that gives no event an id, and places none.
LEMMA SameIds ==
  ASSUME Ids, UNCHANGED <<emitted, dropped, nextMessageID>>,
         \A t \in Threads, i \in Nat : Pending(t, i)' =>
           Pending(t, i) /\ Event(t, i).id = Event(t, i)'.id
  PROVE  Ids'
BY DEF Ids

\* A step that does no more than work on a pending event.
LEMMA SameOrder ==
  ASSUME Order, UNCHANGED <<emitted, stack, index, now, frameNumber>>,
         \A t \in Threads : Stamped(t)'
  PROVE  Order'
BY DEF Order, StampsAscend

LEMMA SameTree ==
  ASSUME Tree, UNCHANGED <<emitted, dropped, stack, index>>,
         \A t \in Threads : (pc[t] # "idle" /\ ev[t].zone)' => (ev[t].parent)' = TopID(t)
  PROVE  Tree'
BY DEF Tree, TopID, Placed, ParentEncloses

\* A step that touches no event: a call that is not recorded, the pause flag,
\* the frame number, the clock.
LEMMA QuietStep ==
  ASSUME IInv, TypeOK', UNCHANGED <<stack, pc, ev, events, nextMessageID, indexes>>,
         now <= now', frameNumber <= frameNumber'
  PROVE  IInv'
<1>1. UNCHANGED <<stack, pc, ev, emitted, dropped, nextMessageID, threadCount, index>>
  BY DEF events, indexes
<1>2. TypeOK /\ Indexed /\ Ids /\ Order /\ Tree
  BY DEF IInv
<1>3. Indexed'
  BY <1>1, <1>2 DEF Indexed
<1>4. Ids'
  BY <1>1, <1>2, SameIds DEF Pending, Event
<1>5. Order'
  <2>1. /\ now \in Nat /\ frameNumber \in Nat /\ now' \in Nat /\ frameNumber' \in Nat
        /\ emitted \subseteq Events /\ ev \in [Threads -> Events]
        /\ \A t \in Threads : \A i \in 1 .. Len(stack[t]) : stack[t][i] \in Events
    BY <1>2, Stacked DEF TypeOK
  <2>2. \A e \in Events : e.time \in Nat /\ e.value \in Nat /\ e.frame \in Nat
    BY DEF Events
  <2>3. (\A e \in emitted : e.time + e.value <= now /\ e.frame <= frameNumber)'
    <3> SUFFICES ASSUME NEW e \in emitted
                 PROVE  e.time + e.value <= now' /\ e.frame <= frameNumber'
      BY <1>1
    <3>1. e.time + e.value <= now /\ e.frame <= frameNumber /\ e \in Events
      BY <1>2, <2>1 DEF Order
    <3> QED BY <2>1, <2>2, <3>1
  <2>4. (\A t \in Threads : \A i \in 1 .. Len(stack[t]) :
         /\ stack[t][i].thread = index[t] /\ stack[t][i].zone /\ stack[t][i].value = 0
         /\ stack[t][i].time <= now /\ stack[t][i].frame <= frameNumber)'
    <3> SUFFICES ASSUME NEW t \in Threads, NEW i \in 1 .. Len(stack[t])
                 PROVE  /\ stack[t][i].thread = index[t] /\ stack[t][i].zone
                        /\ stack[t][i].value = 0
                        /\ stack[t][i].time <= now' /\ stack[t][i].frame <= frameNumber'
      BY <1>1
    <3>1. /\ stack[t][i].thread = index[t] /\ stack[t][i].zone /\ stack[t][i].value = 0
          /\ stack[t][i].time <= now /\ stack[t][i].frame <= frameNumber
      BY <1>2 DEF Order
    <3> QED BY <2>1, <2>2, <3>1
  <2>5. (\A t \in Threads : Stamped(t))'
    <3> SUFFICES ASSUME NEW t \in Threads PROVE Stamped(t)'
      OBVIOUS
    <3>1. Stamped(t) /\ ev[t] \in Events
      BY <1>2, <2>1 DEF Order
    <3>2. ev[t].time <= now => ev[t].time <= now'
      BY <2>1, <2>2, <3>1
    <3> QED BY <1>1, <3>1, <3>2 DEF Stamped
  <2> QED BY <1>1, <1>2, <2>3, <2>4, <2>5 DEF Order, StampsAscend
<1>6. Tree'
  BY <1>1, <1>2 DEF Tree, TopID, Placed, ParentEncloses
<1> QED BY <1>3, <1>4, <1>5, <1>6 DEF IInv

LEMMA InitThreadStep ==
  ASSUME IInv, TypeOK', NEW t \in Threads, InitThread(t)
  PROVE  IInv'
<1>1. /\ UNCHANGED <<stack, pc, ev, emitted, dropped, nextMessageID, now, frameNumber>>
      /\ index[t] = NoIndex /\ index' = [index EXCEPT ![t] = threadCount]
      /\ threadCount' = threadCount + 1
  BY DEF InitThread, shared, events
<1>2. TypeOK /\ Indexed /\ Ids /\ Order /\ Tree
  BY DEF IInv
<1>3. /\ threadCount \in Nat /\ index \in [Threads -> Nat \cup {NoIndex}]
      /\ emitted \subseteq Events /\ \A e \in Events : e.thread \in Nat
  BY <1>2 DEF TypeOK, Events
<1>4. /\ \A u \in Threads : index[u] < threadCount
      /\ \A e \in emitted : e.thread < threadCount
      /\ pc[t] = "idle" /\ stack[t] = <<>> /\ Len(stack[t]) = 0
  BY <1>1, <1>2, EmptySeq DEF Indexed
<1>5. /\ index'[t] = threadCount /\ index'[t] # NoIndex
      /\ \A u \in Threads \ {t} : index'[u] = index[u]
      /\ \A e \in emitted : e.thread # index'[t]
  BY <1>1, <1>3, <1>4 DEF NoIndex
<1>6. Indexed'
  <2>1. (\A u \in Threads : index[u] < threadCount)'
    BY <1>1, <1>3, <1>4, <1>5 DEF NoIndex
  <2>2. (\A e \in emitted : e.thread < threadCount)'
    BY <1>1, <1>3, <1>4
  <2>3. (\A u, v \in Threads : index[u] = index[v] /\ index[u] # NoIndex => u = v)'
    BY <1>1, <1>2, <1>3, <1>4, <1>5 DEF Indexed, NoIndex
  <2> QED BY <1>1, <1>2, <1>5, <2>1, <2>2, <2>3 DEF Indexed
<1>7. Ids'
  BY <1>1, <1>2, SameIds DEF Pending, Event
<1>8. Order'
  <2>1. \A i \in 1 .. Len(stack[t]) : FALSE
    BY <1>4
  <2>2. \A u \in Threads : Stamped(u)'
    BY <1>1, <1>2, <1>4, <1>5 DEF Order, Stamped
  <2> QED BY <1>1, <1>2, <1>5, <2>1, <2>2 DEF Order, StampsAscend
<1>9. Tree'
  <2>1. \A i \in 1 .. Len(stack[t]) : FALSE
    BY <1>4
  <2> QED BY <1>1, <1>2, <1>5, <2>1 DEF Tree, TopID, Placed, ParentEncloses
<1> QED BY <1>6, <1>7, <1>8, <1>9 DEF IInv

\* A call has chosen its event, and its parent if it is a zone's.
LEMMA BeginStep ==
  ASSUME IInv, TypeOK', NEW t \in Threads, BeginZone(t) \/ BeginSample(t)
  PROVE  IInv'
<1>1. /\ UNCHANGED <<stack, index, threadCount, emitted, dropped, nextMessageID, now, frameNumber>>
      /\ pc[t] = "idle" /\ index[t] # NoIndex
      /\ pc' = [pc EXCEPT ![t] = "id"]
  BY DEF BeginZone, BeginSample, Ready, Goto, shared, indexes, events
<1>2. TypeOK /\ Indexed /\ Ids /\ Order /\ Tree
  BY DEF IInv
<1>3. /\ pc \in [Threads -> {"idle", "id", "time", "frame"}]
      /\ pc'[t] = "id" /\ \A u \in Threads \ {t} : pc'[u] = pc[u]
  BY <1>1, <1>2 DEF TypeOK
<1>4. /\ \A u \in Threads \ {t} : ev'[u] = ev[u]
      /\ ev'[t].value = 0
      /\ ev'[t].zone => ev'[t].parent = TopID(t) /\ ~ Full(t)
  <2>1. ev \in [Threads -> Events]
    BY <1>2 DEF TypeOK
  <2>2. NewEvent \in Events /\ NewEvent.value = 0 /\ NewEvent.zone = FALSE
    BY DEF NewEvent, Events
  <2>3. CASE BeginZone(t)
    <3> DEFINE r == [NewEvent EXCEPT !.zone = TRUE, !.parent = PeekParentID(t)]
    <3>1. PeekParentID(t) = TopID(t) /\ TopID(t) \in Nat
      BY <1>2, Stacked
    <3>2. r.parent = TopID(t) /\ r.value = 0
      BY <3>1 DEF NewEvent
    <3>3. ev' = [ev EXCEPT ![t] = r] /\ ~ Full(t)
      BY <2>3 DEF BeginZone
    <3> HIDE DEF r
    <3> QED BY <2>1, <3>2, <3>3
  <2>4. CASE BeginSample(t)
    BY <2>1, <2>2, <2>4 DEF BeginSample
  <2> QED BY <2>3, <2>4
<1>5. Indexed'
  <2>1. ~ Full(t) => Len(stack[t]) < Depth
    <3>1. Len(stack[t]) <= Depth /\ Len(stack[t]) \in Nat
      BY <1>2, Stacked DEF TypeOK
    <3> QED BY <3>1, DepthAssumption DEF Full
  <2> QED BY <1>1, <1>2, <1>3, <1>4, <2>1 DEF Indexed
<1>6. ASSUME NEW u \in Threads, NEW i \in Nat, Pending(u, i)'
      PROVE  Pending(u, i) /\ Event(u, i).id = Event(u, i)'.id
  BY <1>1, <1>3, <1>4, <1>6 DEF Pending, Event
<1>7. Ids'
  BY <1>1, <1>2, <1>6, SameIds
<1>8. Order'
  <2>1. \A u \in Threads : Stamped(u)'
    BY <1>1, <1>2, <1>3, <1>4 DEF Order, Stamped
  <2> QED BY <1>1, <1>2, <2>1, SameOrder
<1>9. Tree'
  <2>1. \A u \in Threads : (pc[u] # "idle" /\ ev[u].zone)' => (ev[u].parent)' = TopID(u)
    BY <1>2, <1>3, <1>4 DEF Tree
  <2> QED BY <1>1, <1>2, <2>1, SameTree
<1> QED BY <1>5, <1>7, <1>8, <1>9 DEF IInv

\* NextEventID gives the event an id that no event has.
LEMMA StampIDStep ==
  ASSUME IInv, TypeOK', NEW t \in Threads, StampID(t)
  PROVE  IInv'
<1>1. /\ UNCHANGED <<stack, index, threadCount, emitted, dropped, now, frameNumber>>
      /\ pc[t] = "id" /\ pc' = [pc EXCEPT ![t] = "time"]
      /\ ev' = [ev EXCEPT ![t].id = nextMessageID, ![t].thread = index[t]]
      /\ nextMessageID' = nextMessageID + 1
  BY DEF StampID, Goto, indexes, events
<1>2. TypeOK /\ Indexed /\ Ids /\ Order /\ Tree
  BY DEF IInv
<1>3. /\ pc \in [Threads -> {"idle", "id", "time", "frame"}]
      /\ pc'[t] = "time" /\ \A u \in Threads \ {t} : pc'[u] = pc[u]
      /\ nextMessageID \in Nat /\ nextMessageID > 0 /\ emitted \subseteq Events
      /\ dropped \subseteq Nat
      /\ \A u \in Threads : Len(stack[u]) \in Nat
      /\ \A u \in Threads : \A i \in 1 .. Len(stack[u]) : stack[u][i] \in Events
  BY <1>1, <1>2, Stacked DEF TypeOK, Ids
<1>4. index[t] \in Nat
  BY <1>1, <1>2 DEF TypeOK, Indexed
<1>5. /\ \A u \in Threads \ {t} : ev'[u] = ev[u]
      /\ ev'[t].id = nextMessageID /\ ev'[t].thread = index[t]
      /\ ev'[t].zone = ev[t].zone /\ ev'[t].parent = ev[t].parent
      /\ ev'[t].value = ev[t].value
  <2>1. ev \in [Threads -> Events]
    BY <1>2 DEF TypeOK
  <2> QED BY <1>1, <1>3, <1>4, <2>1, StampedID
<1>6. \A u \in Threads, i \in Nat : Pending(u, i) => Event(u, i).id < nextMessageID /\ Event(u, i).id > 0
  BY <1>2 DEF Ids
<1>7. Indexed'
  BY <1>1, <1>2, <1>3, <1>5 DEF Indexed
<1>8. Ids'
  <2>1. \A u \in Threads, i \in Nat : Pending(u, i)' =>
          \/ u = t /\ i = 0 /\ Event(u, i)'.id = nextMessageID
          \/ Pending(u, i) /\ Event(u, i)' = Event(u, i) /\ ~ (u = t /\ i = 0)
    BY <1>1, <1>3, <1>5 DEF Pending, Event
  <2>2. \A u \in Threads, i \in Nat : Pending(u, i) => Event(u, i).id \in Nat
    <3>1. ev \in [Threads -> Events] /\ \A e \in Events : e.id \in Nat
      BY <1>2 DEF TypeOK, Events
    <3> QED BY <1>3, <3>1 DEF Pending, Event
  <2>3. \A e \in emitted : e.id \in Nat
    BY <1>3 DEF Events
  <2>4. /\ \A e \in emitted : 0 < e.id /\ e.id < nextMessageID /\ e.id \notin dropped
        /\ \A d, e \in emitted : d.id = e.id => d = e
        /\ \A n \in dropped : n < nextMessageID
    BY <1>2 DEF Ids
  <2>5. (\A e \in emitted : 0 < e.id /\ e.id < nextMessageID /\ e.id \notin dropped)'
    BY <1>1, <1>3, <2>3, <2>4
  <2>6. (\A n \in dropped : n < nextMessageID)'
    BY <1>1, <1>3, <2>4
  <2>7. ASSUME NEW u \in Threads, NEW i \in Nat, Pending(u, i)'
        PROVE  /\ 0 < Event(u, i)'.id /\ Event(u, i)'.id < nextMessageID'
               /\ Event(u, i)'.id \notin dropped
               /\ \A e \in emitted : e.id # Event(u, i)'.id
    <3>1. CASE Event(u, i)'.id = nextMessageID
      BY <1>1, <1>3, <2>3, <2>4, <3>1
    <3>2. CASE Pending(u, i) /\ Event(u, i)' = Event(u, i)
      <4>1. /\ 0 < Event(u, i).id /\ Event(u, i).id < nextMessageID
            /\ Event(u, i).id \notin dropped
            /\ \A e \in emitted : e.id # Event(u, i).id
        BY <1>2, <3>2 DEF Ids
      <4> QED BY <1>1, <1>3, <2>2, <3>2, <4>1
    <3> QED BY <2>1, <2>7, <3>1, <3>2
  <2>8. ASSUME NEW u \in Threads, NEW v \in Threads, NEW i \in Nat, NEW j \in Nat,
               Pending(u, i)', Pending(v, j)', Event(u, i)'.id = Event(v, j)'.id
        PROVE  u = v /\ i = j
    <3>1. CASE Pending(u, i) /\ Pending(v, j) /\ Event(u, i)' = Event(u, i) /\ Event(v, j)' = Event(v, j)
      BY <1>2, <2>8, <3>1 DEF Ids
    <3>2. ASSUME Pending(u, i) PROVE Event(u, i).id # nextMessageID
      BY <1>3, <1>6, <2>2, <3>2
    <3>3. ASSUME Pending(v, j) PROVE Event(v, j).id # nextMessageID
      BY <1>3, <1>6, <2>2, <3>3
    <3> QED BY <2>1, <2>8, <3>1, <3>2, <3>3
  <2>9. nextMessageID' > 0
    BY <1>1, <1>3
  <2> QED BY <1>1, <2>4, <2>5, <2>6, <2>7, <2>8, <2>9 DEF Ids
<1>9. Order'
  <2>1. \A i \in 1 .. Len(stack[t]) : stack[t][i].id < nextMessageID
    <3> SUFFICES ASSUME NEW i \in 1 .. Len(stack[t]) PROVE stack[t][i].id < nextMessageID
      OBVIOUS
    <3>1. i \in Nat /\ Pending(t, i) /\ Event(t, i) = stack[t][i]
      BY <1>3 DEF Pending, Event
    <3> QED BY <1>6, <3>1
  <2>2. \A e \in emitted : e.id < nextMessageID
    BY <1>2 DEF Ids
  <2>3. ASSUME NEW u \in Threads PROVE Stamped(u)'
    <3>1. Stamped(u)
      BY <1>2 DEF Order
    <3>2. CASE u = t
      BY <1>1, <1>3, <1>5, <2>1, <2>2, <3>1, <3>2 DEF Stamped
    <3>3. CASE u # t
      <4>1. ev'[u] = ev[u] /\ pc'[u] = pc[u]
        BY <1>3, <1>5, <3>3
      <4> QED BY <1>1, <3>1, <4>1 DEF Stamped
    <3> QED BY <3>2, <3>3
  <2> QED BY <1>1, <1>2, <2>3, SameOrder
<1>10. Tree'
  <2>1. ASSUME NEW u \in Threads, pc'[u] # "idle", ev'[u].zone PROVE ev'[u].parent = TopID(u)
    <3>1. pc[u] # "idle" /\ ev[u].zone /\ ev'[u].parent = ev[u].parent
      <4>1. CASE u = t
        BY <1>1, <1>5, <2>1, <4>1
      <4>2. CASE u # t
        BY <1>3, <1>5, <2>1, <4>2
      <4> QED BY <4>1, <4>2
    <3> QED BY <1>2, <3>1 DEF Tree
  <2> QED BY <1>1, <1>2, <2>1, SameTree
<1> QED BY <1>7, <1>8, <1>9, <1>10 DEF IInv

\* The clock the event is stamped with is that of no earlier one.
LEMMA StampTimeStep ==
  ASSUME IInv, TypeOK', NEW t \in Threads, StampTime(t)
  PROVE  IInv'
<1>1. /\ UNCHANGED <<stack, index, threadCount, emitted, dropped, now, frameNumber, nextMessageID>>
      /\ pc[t] = "time" /\ pc' = [pc EXCEPT ![t] = "frame"]
      /\ ev' = [ev EXCEPT ![t].time = now]
  BY DEF StampTime, Goto, shared, indexes, events
<1>2. TypeOK /\ Indexed /\ Ids /\ Order /\ Tree
  BY DEF IInv
<1>3. /\ pc \in [Threads -> {"idle", "id", "time", "frame"}]
      /\ pc'[t] = "frame" /\ \A u \in Threads \ {t} : pc'[u] = pc[u]
      /\ now \in Nat /\ emitted \subseteq Events
  BY <1>1, <1>2 DEF TypeOK
<1>4. /\ \A u \in Threads \ {t} : ev'[u] = ev[u]
      /\ ev'[t].time = now /\ ev'[t].id = ev[t].id /\ ev'[t].thread = ev[t].thread
      /\ ev'[t].zone = ev[t].zone /\ ev'[t].parent = ev[t].parent
      /\ ev'[t].value = ev[t].value
  <2>1. ev \in [Threads -> Events]
    BY <1>2 DEF TypeOK
  <2> QED BY <1>1, <1>3, <2>1, StampedTime
<1>5. Indexed'
  BY <1>1, <1>2, <1>3, <1>4 DEF Indexed
<1>6. ASSUME NEW u \in Threads, NEW i \in Nat, Pending(u, i)'
      PROVE  Pending(u, i) /\ Event(u, i).id = Event(u, i)'.id
  BY <1>1, <1>3, <1>4, <1>6 DEF Pending, Event
<1>7. Ids'
  BY <1>1, <1>2, <1>6, SameIds
<1>8. Order'
  <2>1. \A e \in emitted : e.time <= now
    <3> SUFFICES ASSUME NEW e \in emitted PROVE e.time <= now
      OBVIOUS
    <3>1. e.time + e.value <= now
      BY <1>2 DEF Order
    <3>2. e.time \in Nat /\ e.value \in Nat
      BY <1>3 DEF Events
    <3> QED BY <1>3, <3>1, <3>2
  <2>2. now <= now
    BY <1>3
  <2>3. ASSUME NEW u \in Threads PROVE Stamped(u)'
    <3>1. Stamped(u)
      BY <1>2 DEF Order
    <3>2. CASE u = t
      <4>1. \A i \in 1 .. Len(stack[t]) : stack[t][i].time <= now
        BY <1>2 DEF Order
      <4> QED BY <1>1, <1>3, <1>4, <2>1, <2>2, <3>1, <3>2, <4>1 DEF Stamped
    <3>3. CASE u # t
      <4>1. ev'[u] = ev[u] /\ pc'[u] = pc[u]
        BY <1>3, <1>4, <3>3
      <4> QED BY <1>1, <3>1, <4>1 DEF Stamped
    <3> QED BY <3>2, <3>3
  <2> QED BY <1>1, <1>2, <2>3, SameOrder
<1>9. Tree'
  <2>1. ASSUME NEW u \in Threads, pc'[u] # "idle", ev'[u].zone PROVE ev'[u].parent = TopID(u)
    <3>1. pc[u] # "idle" /\ ev[u].zone /\ ev'[u].parent = ev[u].parent
      <4>1. CASE u = t
        BY <1>1, <1>4, <2>1, <4>1
      <4>2. CASE u # t
        BY <1>3, <1>4, <2>1, <4>2
      <4> QED BY <4>1, <4>2
    <3> QED BY <1>2, <3>1 DEF Tree
  <2> QED BY <1>1, <1>2, <2>1, SameTree
<1> QED BY <1>5, <1>7, <1>8, <1>9 DEF IInv

\* An event that is pending has the index of a thread.
LEMMA PendingHasIndex ==
  ASSUME TypeOK, Indexed, NEW t \in Threads, NEW p \in Nat, Pending(t, p)
  PROVE  index[t] # NoIndex
<1>1. Len(stack[t]) \in Nat /\ (stack[t] = <<>> => Len(stack[t]) = 0)
  BY Stacked, EmptySeq
<1> QED BY <1>1 DEF Indexed, Pending

\* No event is the child of one that StampEvent is still at work on.
LEMMA NoChildYet ==
  ASSUME IInv, NEW t \in Threads, pc[t] \in {"time", "frame"}, NEW e \in emitted
  PROVE  e.parent # ev[t].id
<1>1. TypeOK /\ Ids /\ Tree
  BY DEF IInv
<1>2. Pending(t, 0) /\ Event(t, 0) = ev[t]
  BY DEF Pending, Event
<1>3. 0 < ev[t].id /\ ev[t].id \notin dropped /\ \A z \in emitted : z.id # ev[t].id
  BY <1>1, <1>2 DEF Ids
<1>4. ASSUME NEW u \in Threads, NEW i \in 1 .. Len(stack[u]) PROVE stack[u][i].id # ev[t].id
  <2>1. i \in Nat /\ i # 0 /\ Pending(u, i) /\ Event(u, i) = stack[u][i]
    BY <1>1, Stacked DEF Pending, Event
  <2> QED BY <1>1, <1>2, <2>1 DEF Ids
<1>5. ev[t].id # 0
  BY <1>3
<1> QED BY <1>1, <1>3, <1>4, <1>5 DEF Tree, Placed

\* The event goes from StampEvent to the stack of its thread.
LEMMA OpenZoneStep ==
  ASSUME IInv, TypeOK', NEW t \in Threads, OpenZone(t)
  PROVE  IInv'
<1> DEFINE L == Len(stack[t])
           e == [ev[t] EXCEPT !.frame = frameNumber]
<1>1. /\ UNCHANGED <<index, threadCount, emitted, dropped, now, frameNumber, nextMessageID>>
      /\ pc[t] = "frame" /\ ev[t].zone /\ pc' = [pc EXCEPT ![t] = "idle"]
      /\ ev' = [ev EXCEPT ![t] = NewEvent]
      /\ stack' = [stack EXCEPT ![t] = Append(@, e)]
  BY DEF OpenZone, Push, Goto, shared, indexes, events
<1>2. TypeOK /\ Indexed /\ Ids /\ Order /\ Tree
  BY DEF IInv
<1>3. /\ ev \in [Threads -> Events] /\ stack \in [Threads -> Seq(Events)]
      /\ pc \in [Threads -> {"idle", "id", "time", "frame"}]
      /\ now \in Nat /\ frameNumber \in Nat /\ emitted \subseteq Events
      /\ \A u \in Threads : Len(stack[u]) \in Nat
      /\ \A u \in Threads : \A i \in 1 .. Len(stack[u]) : stack[u][i] \in Events
  BY <1>2, Stacked DEF TypeOK
<1>4. \A r \in Events : r.id \in Nat /\ r.time \in Nat /\ r.value \in Nat /\ r.frame \in Nat
  BY DEF Events
<1>5. /\ e \in Events /\ e.frame = frameNumber /\ e.id = ev[t].id /\ e.zone = ev[t].zone
      /\ e.thread = ev[t].thread /\ e.parent = ev[t].parent /\ e.time = ev[t].time
      /\ e.value = ev[t].value
  <2>1. e = [ev[t] EXCEPT !.frame = frameNumber]
    OBVIOUS
  <2> HIDE DEF e
  <2> QED BY <1>3, <2>1, Framed
<1> HIDE DEF e
<1>6. /\ pc'[t] = "idle"
      /\ \A u \in Threads \ {t} : pc'[u] = pc[u] /\ ev'[u] = ev[u] /\ stack'[u] = stack[u]
      /\ stack'[t] = Append(stack[t], e)
  BY <1>1, <1>3
<1>7. /\ L \in Nat /\ Len(stack'[t]) = L + 1 /\ stack'[t][L + 1] = e
      /\ \A i \in 1 .. L : stack'[t][i] = stack[t][i]
      /\ \A i \in 1 .. L + 1 : i = L + 1 \/ i \in 1 .. L
  BY <1>3, <1>5, <1>6, Pushed
<1>8. Pending(t, 0) /\ Event(t, 0) = ev[t]
  BY <1>1 DEF Pending, Event
<1> HIDE DEF L
<1>9. Indexed'
  <2>1. index[t] # NoIndex
    BY <1>2, <1>8, PendingHasIndex
  <2> QED BY <1>1, <1>2, <1>6, <2>1 DEF Indexed
<1>10. Ids'
  <2>1. \A u \in Threads, i \in Nat : Pending(u, i)' =>
          \/ u = t /\ i = L + 1 /\ Event(u, i)'.id = Event(t, 0).id
          \/ Pending(u, i) /\ Event(u, i)' = Event(u, i) /\ ~ (u = t /\ i \in {0, L + 1})
    BY <1>1, <1>5, <1>6, <1>7, <1>8 DEF Pending, Event, L
  <2>2. ASSUME NEW u \in Threads, NEW i \in Nat, Pending(u, i)'
        PROVE  \E j \in Nat : Pending(u, j) /\ Event(u, i)'.id = Event(u, j).id
    BY <1>8, <2>1, <2>2
  <2>3. ASSUME NEW u \in Threads, NEW v \in Threads, NEW i \in Nat, NEW j \in Nat,
               Pending(u, i)', Pending(v, j)', Event(u, i)'.id = Event(v, j)'.id
        PROVE  u = v /\ i = j
    <3>1. \A r, s \in Threads, a, b \in Nat :
            Pending(r, a) /\ Pending(s, b) /\ Event(r, a).id = Event(s, b).id => r = s /\ a = b
      BY <1>2 DEF Ids
    <3> QED BY <1>8, <2>1, <2>3, <3>1
  <2> QED BY <1>1, <1>2, <2>2, <2>3 DEF Ids
<1>11. Order'
  <2>1. /\ e.thread = index[t] /\ e.zone /\ e.value = 0 /\ e.time <= now /\ e.frame <= frameNumber
        /\ \A i \in 1 .. L : stack[t][i].id < e.id /\ stack[t][i].time <= e.time
        /\ \A x \in emitted : x.thread = index[t] => x.id < e.id /\ x.time <= e.time
    <3>1. Stamped(t)
      BY <1>2 DEF Order
    <3> QED BY <1>1, <1>3, <1>5, <3>1 DEF Stamped, L
  <2>2. \A i \in 1 .. L : stack[t][i].frame <= e.frame
    BY <1>2, <1>5 DEF Order, L
  <2>3. \A x \in emitted : x.thread = index[t] => x.frame <= e.frame /\ ~ e.id < x.id
    BY <1>2, <1>3, <1>4, <1>5, <2>1 DEF Order
  <2>4. ASSUME NEW u \in Threads, NEW i \in 1 .. Len(stack'[u])
        PROVE  LET r == stack'[u][i]
               IN  /\ r.thread = index[u] /\ r.zone /\ r.value = 0
                   /\ r.time <= now /\ r.frame <= frameNumber
                   /\ \A x \in emitted : x.thread = index[u] =>
                        /\ x.id < r.id => x.time <= r.time /\ x.frame <= r.frame
                        /\ r.id < x.id => r.time <= x.time /\ r.frame <= x.frame
    <3>1. CASE u = t /\ i = L + 1
      BY <1>7, <2>1, <2>3, <3>1
    <3>2. CASE ~ (u = t /\ i = L + 1)
      <4>1. i \in 1 .. Len(stack[u]) /\ stack'[u][i] = stack[u][i]
        BY <1>6, <1>7, <3>2 DEF L
      <4> QED BY <1>2, <4>1 DEF Order
    <3> QED BY <3>1, <3>2
  <2>5. ASSUME NEW u \in Threads, NEW i \in 1 .. Len(stack'[u]), NEW j \in 1 .. Len(stack'[u]), i < j
        PROVE  /\ stack'[u][i].id < stack'[u][j].id /\ stack'[u][i].time <= stack'[u][j].time
               /\ stack'[u][i].frame <= stack'[u][j].frame
    <3>1. CASE u = t /\ j = L + 1
      BY <1>7, <2>1, <2>2, <2>5, <3>1
    <3>2. CASE ~ (u = t /\ j = L + 1)
      <4>1. /\ i \in 1 .. Len(stack[u]) /\ stack'[u][i] = stack[u][i]
            /\ j \in 1 .. Len(stack[u]) /\ stack'[u][j] = stack[u][j]
        BY <1>6, <1>7, <2>5, <3>2 DEF L
      <4> QED BY <1>2, <2>5, <4>1 DEF Order
    <3> QED BY <3>1, <3>2
  <2>6. ASSUME NEW u \in Threads PROVE Stamped(u)'
    <3>1. Stamped(u)
      BY <1>2 DEF Order
    <3> QED BY <1>1, <1>6, <3>1 DEF Stamped
  <2> QED BY <1>1, <1>2, <2>4, <2>5, <2>6 DEF Order, StampsAscend
<1>12. Tree'
  <2>1. ASSUME NEW u \in Threads, NEW i \in 1 .. Len(stack'[u])
        PROVE  stack'[u][i].parent = IF i = 1 THEN 0 ELSE stack'[u][i - 1].id
    <3>1. CASE u = t /\ i = L + 1
      <4>1. e.parent = TopID(t)
        BY <1>1, <1>2, <1>5 DEF Tree
      <4>2. L # 0 => L \in 1 .. L /\ L + 1 - 1 = L /\ L + 1 # 1
        BY <1>7
      <4> QED BY <1>7, <3>1, <4>1, <4>2 DEF TopID, L
    <3>2. CASE ~ (u = t /\ i = L + 1)
      <4>1. i \in 1 .. Len(stack[u]) /\ stack'[u][i] = stack[u][i]
        BY <1>6, <1>7, <3>2 DEF L
      <4>2. i # 1 => i - 1 \in 1 .. Len(stack[u]) /\ stack'[u][i - 1] = stack[u][i - 1]
        <5>1. \A n \in Nat : i \in 1 .. n /\ i # 1 => i - 1 \in 1 .. n
          OBVIOUS
        <5>2. i # 1 => i - 1 \in 1 .. Len(stack[u])
          BY <1>3, <4>1, <5>1
        <5> QED BY <1>6, <1>7, <5>2 DEF L
      <4> QED BY <1>2, <4>1, <4>2 DEF Tree
    <3> QED BY <3>1, <3>2
  <2>2. \A u \in Threads : (pc[u] # "idle" /\ ev[u].zone)' => ev'[u].parent = TopID(u)'
    BY <1>2, <1>6 DEF Tree, TopID
  <2>3. ASSUME NEW u \in Threads, NEW x \in emitted, NEW i \in 1 .. Len(stack'[u]),
               x.parent = stack'[u][i].id
        PROVE  /\ x.thread = index[u] /\ stack'[u][i].id < x.id
               /\ stack'[u][i].time <= x.time /\ stack'[u][i].frame <= x.frame
    <3>1. CASE u = t /\ i = L + 1
      BY <1>1, <1>5, <1>7, <2>3, <3>1, NoChildYet
    <3>2. CASE ~ (u = t /\ i = L + 1)
      <4>1. i \in 1 .. Len(stack[u]) /\ stack'[u][i] = stack[u][i]
        BY <1>6, <1>7, <3>2 DEF L
      <4> QED BY <1>2, <2>3, <4>1 DEF Tree
    <3> QED BY <3>1, <3>2
  <2>4. ASSUME NEW x \in emitted, x.parent # 0 PROVE Placed(x.parent)'
    <3>1. Placed(x.parent)
      BY <1>2, <2>4 DEF Tree
    <3>2. \A u \in Threads : \A i \in 1 .. Len(stack[u]) :
            i \in 1 .. Len(stack'[u]) /\ stack'[u][i] = stack[u][i]
      BY <1>6, <1>7 DEF L
    <3> QED BY <1>1, <3>1, <3>2 DEF Placed
  <2> QED BY <1>1, <1>2, <2>1, <2>2, <2>3, <2>4 DEF Tree, ParentEncloses
<1> QED BY <1>9, <1>10, <1>11, <1>12 DEF IInv

\* A step gives the event x to the ring, which takes it or not; its place p has
\* been StampEvent (0) or the top of the stack.
Emits(t, p, x) ==
  /\ Pending(t, p) /\ (p = 0 \/ (p = Len(stack[t]) /\ pc[t] = "idle"))
  /\ UNCHANGED <<nextMessageID, now, frameNumber, index, threadCount>> /\ Emit(x)
  /\ pc'[t] = "idle"
  /\ \A u \in Threads \ {t} : pc'[u] = pc[u] /\ ev'[u] = ev[u] /\ stack'[u] = stack[u]
  /\ Len(stack'[t]) = IF p = 0 THEN Len(stack[t]) ELSE Len(stack[t]) - 1
  /\ \A i \in 1 .. Len(stack'[t]) :
       /\ stack'[t][i] = stack[t][i]
       /\ stack[t][i].id < x.id /\ stack[t][i].time <= x.time
       /\ stack[t][i].frame <= x.frame
  /\ x.id = Event(t, p).id /\ x.thread = index[t] /\ x.parent = TopID(t)'
  /\ x.time + x.value <= now /\ x.frame <= frameNumber
  /\ \A e \in emitted : e.thread = index[t] =>
       /\ e.id < x.id => e.time <= x.time /\ e.frame <= x.frame
       /\ x.id < e.id => x.time <= e.time /\ x.frame <= e.frame
  /\ \A e \in emitted : e.parent = x.id =>
       /\ x.zone /\ x.thread = e.thread /\ x.id < e.id
       /\ x.time <= e.time /\ x.frame <= e.frame
       /\ e.time + e.value <= x.time + x.value

LEMMA EmitStep ==
  ASSUME IInv, TypeOK', NEW t \in Threads, NEW p \in Nat, NEW x \in Events, Emits(t, p, x)
  PROVE  IInv'
<1> USE DEF Emits
<1> DEFINE K == Len(stack'[t])
<1>1. TypeOK /\ Indexed /\ Ids /\ Order /\ Tree
  BY DEF IInv
<1>2. /\ emitted \subseteq Events /\ dropped \subseteq Nat /\ now \in Nat /\ frameNumber \in Nat
      /\ nextMessageID \in Nat
      /\ \A u \in Threads : Len(stack[u]) \in Nat
      /\ \A u \in Threads : \A i \in 1 .. Len(stack[u]) : stack[u][i] \in Events
  BY <1>1, Stacked DEF TypeOK
<1>3. \A r \in Events : r.id \in Nat /\ r.time \in Nat /\ r.value \in Nat /\ r.frame \in Nat
  BY DEF Events
<1>4. /\ K \in Nat /\ K <= Len(stack[t]) /\ \A i \in 1 .. K : i \in 1 .. Len(stack[t]) /\ i # p
      /\ \A i \in 1 .. Len(stack[t]) : i \in 1 .. K \/ i = p
  <2>1. \A n \in Nat \ {0} : /\ n - 1 \in Nat /\ n - 1 <= n /\ n \notin 1 .. n - 1
                            /\ \A i \in 1 .. n : i \in 1 .. n - 1 \/ i = n
    OBVIOUS
  <2>2. p # 0 => p \in 1 .. Len(stack[t])
    BY DEF Pending
  <2> QED BY <1>2, <2>1, <2>2
<1>5. \A i \in 1 .. K : stack'[t][i] = stack[t][i]
  OBVIOUS
<1> HIDE DEF K
<1>6. /\ 0 < x.id /\ x.id < nextMessageID /\ x.id \notin dropped /\ \A e \in emitted : e.id # x.id
      /\ \A u \in Threads, i \in Nat : Pending(u, i) /\ Event(u, i).id = x.id => u = t /\ i = p
  BY <1>1 DEF Ids
<1>7. /\ \/ emitted' = emitted \cup {x} /\ dropped' = dropped
         \/ emitted' = emitted /\ dropped' = dropped \cup {x.id}
      /\ \A e \in emitted' : e \in emitted \/ e = x
  BY DEF Emit
<1>8. \A u \in Threads, i \in Nat : Pending(u, i)' =>
        Pending(u, i) /\ Event(u, i)' = Event(u, i) /\ ~ (u = t /\ i = p)
  <2> SUFFICES ASSUME NEW u \in Threads, NEW i \in Nat, Pending(u, i)'
               PROVE  Pending(u, i) /\ Event(u, i)' = Event(u, i) /\ ~ (u = t /\ i = p)
    OBVIOUS
  <2>1. CASE u = t
    <3>1. i \in 1 .. K
      BY <2>1 DEF Pending, K
    <3>2. i # 0
      BY <1>4, <3>1
    <3> QED BY <1>4, <1>5, <2>1, <3>1, <3>2 DEF Pending, Event
  <2>2. CASE u # t
    BY <2>2 DEF Pending, Event
  <2> QED BY <2>1, <2>2
<1>9. \A u \in Threads : \A i \in 1 .. Len(stack'[u]) :
        /\ i \in 1 .. Len(stack[u]) /\ stack'[u][i] = stack[u][i] /\ stack[u][i].id # x.id
        /\ i \in Nat /\ Pending(u, i)
  <2> SUFFICES ASSUME NEW u \in Threads, NEW i \in 1 .. Len(stack'[u])
               PROVE  /\ i \in 1 .. Len(stack[u]) /\ stack'[u][i] = stack[u][i] /\ stack[u][i].id # x.id
                      /\ i \in Nat /\ Pending(u, i)
    OBVIOUS
  <2>1. i \in 1 .. Len(stack[u]) /\ stack'[u][i] = stack[u][i] /\ ~ (u = t /\ i = p)
    BY <1>4, <1>5 DEF K
  <2>2. i \in Nat /\ i # 0
    BY <1>2, <2>1
  <2>3. Pending(u, i) /\ Event(u, i) = stack[u][i]
    BY <2>1, <2>2 DEF Pending, Event
  <2> QED BY <1>6, <2>1, <2>2, <2>3
<1>10. index[t] # NoIndex
  BY <1>1, PendingHasIndex
<1>11. Indexed'
  <2>1. \A e \in emitted' : e.thread < threadCount
    BY <1>1, <1>7 DEF Indexed
  <2> QED BY <1>1, <1>10, <2>1 DEF Indexed
<1>12. Ids'
  <2>1. /\ \A e \in emitted' : 0 < e.id /\ e.id < nextMessageID /\ e.id \notin dropped'
        /\ \A d, e \in emitted' : d.id = e.id => d = e
        /\ \A n \in dropped' : n < nextMessageID
    BY <1>1, <1>6, <1>7 DEF Ids
  <2>2. ASSUME NEW u \in Threads, NEW i \in Nat, Pending(u, i)'
        PROVE  /\ 0 < Event(u, i)'.id /\ Event(u, i)'.id < nextMessageID
               /\ Event(u, i)'.id \notin dropped'
               /\ \A e \in emitted' : e.id # Event(u, i)'.id
    <3>1. Pending(u, i) /\ Event(u, i)' = Event(u, i) /\ Event(u, i).id # x.id
      BY <1>6, <1>8, <2>2
    <3>2. /\ 0 < Event(u, i).id /\ Event(u, i).id < nextMessageID
          /\ Event(u, i).id \notin dropped /\ \A e \in emitted : e.id # Event(u, i).id
      BY <1>1, <3>1 DEF Ids
    <3> QED BY <1>7, <3>1, <3>2
  <2>3. \A u, v \in Threads, i, j \in Nat :
          Pending(u, i)' /\ Pending(v, j)' /\ Event(u, i)'.id = Event(v, j)'.id => u = v /\ i = j
    BY <1>1, <1>8 DEF Ids
  <2>4. nextMessageID > 0
    BY <1>1 DEF Ids
  <2> QED BY <2>1, <2>2, <2>3, <2>4 DEF Ids
<1>13. Order'
  <2>1. \A e \in emitted' : e.time + e.value <= now /\ e.frame <= frameNumber
    BY <1>1, <1>7 DEF Order
  <2>2. \A u \in Threads : \A i \in 1 .. Len(stack'[u]) :
          LET r == stack'[u][i]
          IN  r.thread = index[u] /\ r.zone /\ r.value = 0 /\ r.time <= now /\ r.frame <= frameNumber
    <3> SUFFICES ASSUME NEW u \in Threads, NEW i \in 1 .. Len(stack'[u])
                 PROVE  LET r == stack'[u][i]
                        IN  /\ r.thread = index[u] /\ r.zone /\ r.value = 0
                            /\ r.time <= now /\ r.frame <= frameNumber
      OBVIOUS
    <3>1. i \in 1 .. Len(stack[u]) /\ stack'[u][i] = stack[u][i]
      BY <1>9
    <3> QED BY <1>1, <3>1 DEF Order
  <2>3. ASSUME NEW u \in Threads PROVE Stamped(u)'
    <3>1. CASE u = t
      BY <3>1 DEF Stamped
    <3>2. CASE u # t
      <4>1. Stamped(u) /\ index[t] # index[u]
        BY <1>1, <1>10, <3>2 DEF Order, Indexed
      <4> QED BY <1>7, <3>2, <4>1 DEF Stamped
    <3> QED BY <3>1, <3>2
  <2>4. ASSUME NEW u \in Threads, NEW i \in 1 .. Len(stack'[u]), NEW j \in 1 .. Len(stack'[u]), i < j
        PROVE  /\ stack'[u][i].id < stack'[u][j].id /\ stack'[u][i].time <= stack'[u][j].time
               /\ stack'[u][i].frame <= stack'[u][j].frame
    <3>1. /\ i \in 1 .. Len(stack[u]) /\ stack'[u][i] = stack[u][i]
          /\ j \in 1 .. Len(stack[u]) /\ stack'[u][j] = stack[u][j]
      BY <1>9
    <3> QED BY <1>1, <2>4, <3>1 DEF Order
  <2>5. ASSUME NEW u \in Threads, NEW e \in emitted', NEW i \in 1 .. Len(stack'[u]), e.thread = index[u]
        PROVE  LET r == stack'[u][i]
               IN  /\ e.id < r.id => e.time <= r.time /\ e.frame <= r.frame
                   /\ r.id < e.id => r.time <= e.time /\ r.frame <= e.frame
    <3>1. CASE e \in emitted
      BY <1>1, <1>9, <2>5, <3>1 DEF Order
    <3>2. CASE e = x
      <4>1. u = t
        BY <1>1, <1>10, <2>5, <3>2 DEF Indexed
      <4>2. /\ stack[t][i].id < x.id /\ stack[t][i].time <= x.time /\ stack[t][i].frame <= x.frame
            /\ stack'[t][i] = stack[t][i] /\ stack[t][i] \in Events
        BY <1>2, <1>9, <4>1
      <4>3. ~ x.id < stack[t][i].id
        BY <1>3, <4>2
      <4> QED BY <3>2, <4>1, <4>2, <4>3
    <3> QED BY <1>7, <3>1, <3>2
  <2>6. StampsAscend'
    <3>1. \A d, e \in emitted : d.thread = e.thread /\ d.id < e.id => d.time <= e.time /\ d.frame <= e.frame
      BY <1>1 DEF Order, StampsAscend
    <3>2. x.time <= x.time /\ x.frame <= x.frame
      BY <1>3
    <3> QED BY <1>7, <3>1, <3>2 DEF StampsAscend
  <2> QED BY <2>1, <2>2, <2>3, <2>4, <2>5, <2>6 DEF Order
<1>14. \/ x.parent = 0
       \/ K \in 1 .. K /\ x.parent = stack[t][K].id
  <2>1. K # 0 => K \in 1 .. K
    BY <1>4
  <2>2. x.parent = IF K = 0 THEN 0 ELSE stack'[t][K].id
    BY DEF TopID, K
  <2> QED BY <1>5, <2>1, <2>2
<1>15. x.parent # x.id /\ \A e \in emitted : e.id # x.parent
  <2>1. CASE x.parent = 0
    BY <1>1, <1>6, <2>1 DEF Ids
  <2>2. CASE K \in 1 .. K /\ x.parent = stack[t][K].id
    <3>1. /\ stack[t][K].id # x.id /\ Pending(t, K) /\ K \in Nat /\ K # 0
      <4>1. stack[t][K].id # x.id /\ Pending(t, K)
        BY <1>9, <2>2 DEF K
      <4>2. K # 0
        BY <2>2
      <4> QED BY <1>4, <4>1, <4>2
    <3>2. Event(t, K) = stack[t][K]
      BY <3>1 DEF Event
    <3> QED BY <1>1, <2>2, <3>1, <3>2 DEF Ids
  <2> QED BY <1>14, <2>1, <2>2
<1>16. Tree'
  <2>1. \A u \in Threads : \A i \in 1 .. Len(stack'[u]) :
          stack'[u][i].parent = IF i = 1 THEN 0 ELSE stack'[u][i - 1].id
    <3> SUFFICES ASSUME NEW u \in Threads, NEW i \in 1 .. Len(stack'[u])
                 PROVE  stack'[u][i].parent = IF i = 1 THEN 0 ELSE stack'[u][i - 1].id
      OBVIOUS
    <3>1. i # 1 => i - 1 \in 1 .. Len(stack'[u])
      <4>1. \A n \in Nat : i \in 1 .. n /\ i # 1 => i - 1 \in 1 .. n
        OBVIOUS
      <4>2. Len(stack'[u]) \in Nat
        BY <1>2, <1>4 DEF K
      <4> QED BY <4>1, <4>2
    <3>2. stack[u][i].parent = IF i = 1 THEN 0 ELSE stack[u][i - 1].id
      BY <1>1, <1>9 DEF Tree
    <3> QED BY <1>9, <3>1, <3>2
  <2>2. ASSUME NEW u \in Threads, pc'[u] # "idle", ev'[u].zone PROVE ev'[u].parent = TopID(u)'
    BY <1>1, <2>2 DEF Tree, TopID
  <2>3. ASSUME NEW u \in Threads, NEW e \in emitted', NEW i \in 1 .. Len(stack'[u]),
               e.parent = stack'[u][i].id
        PROVE  /\ e.thread = index[u] /\ stack'[u][i].id < e.id
               /\ stack'[u][i].time <= e.time /\ stack'[u][i].frame <= e.frame
    <3>1. CASE e \in emitted
      <4>1. i \in 1 .. Len(stack[u]) /\ stack'[u][i] = stack[u][i]
        BY <1>9
      <4> QED BY <1>1, <2>3, <3>1, <4>1 DEF Tree
    <3>2. CASE e = x
      <4>1. i \in Nat /\ i # 0 /\ Pending(u, i) /\ Event(u, i) = stack'[u][i]
        BY <1>2, <1>9 DEF Event
      <4>2. x.parent # 0
        BY <1>1, <2>3, <3>2, <4>1 DEF Ids
      <4>3. K \in 1 .. K /\ x.parent = stack[t][K].id
        BY <1>14, <4>2
      <4>4. K \in Nat /\ K # 0 /\ Pending(t, K) /\ Event(t, K) = stack[t][K]
        <5>1. K \in Nat /\ K # 0
          BY <1>4, <4>3
        <5>2. Pending(t, K)
          BY <1>9, <4>3 DEF K
        <5> QED BY <5>1, <5>2 DEF Event
      <4>5. u = t /\ i = K
        BY <1>1, <2>3, <3>2, <4>1, <4>3, <4>4 DEF Ids
      <4> QED BY <1>5, <3>2, <4>5 DEF K
    <3> QED BY <1>7, <3>1, <3>2
  <2>4. ASSUME NEW e \in emitted', e.parent # 0 PROVE Placed(e.parent)'
    <3>1. CASE e \in emitted
      <4>1. Placed(e.parent)
        BY <1>1, <2>4, <3>1 DEF Tree
      <4>2. e.parent # x.id => Placed(e.parent)'
        <5>1. ASSUME NEW u \in Threads, NEW i \in 1 .. Len(stack[u]), stack[u][i].id # x.id
              PROVE  i \in 1 .. Len(stack'[u]) /\ stack'[u][i] = stack[u][i]
          <6>1. CASE u = t /\ i = p
            <7>1. p # 0
              BY <1>2, <6>1
            <7> QED BY <5>1, <6>1, <7>1 DEF Event
          <6>2. CASE ~ (u = t /\ i = p)
            BY <1>4, <1>5, <6>2 DEF K
          <6> QED BY <6>1, <6>2
        <5> QED BY <1>7, <4>1, <5>1 DEF Placed
      <4>3. e.parent = x.id => Placed(e.parent)'
        BY <1>7 DEF Placed
      <4> QED BY <4>2, <4>3
    <3>2. CASE e = x
      BY <1>5, <1>14, <2>4, <3>2 DEF Placed, K
    <3> QED BY <1>7, <3>1, <3>2
  <2>5. ParentEncloses'
    <3> SUFFICES ASSUME NEW e \in emitted', NEW z \in emitted', e.parent = z.id
                 PROVE  /\ z.zone /\ z.thread = e.thread /\ z.id < e.id
                        /\ z.time <= e.time /\ z.frame <= e.frame
                        /\ e.time + e.value <= z.time + z.value
      BY DEF ParentEncloses
    <3>1. CASE e \in emitted /\ z \in emitted
      BY <1>1, <3>1 DEF Tree, ParentEncloses
    <3>2. CASE e \in emitted /\ z = x
      BY <3>2
    <3>3. CASE e = x
      BY <1>7, <1>15, <3>3
    <3> QED BY <1>7, <3>1, <3>2, <3>3
  <2> QED BY <2>1, <2>2, <2>3, <2>4, <2>5 DEF Tree
<1> QED BY <1>11, <1>12, <1>13, <1>16 DEF IInv

LEMMA EmitSampleStep ==
  ASSUME IInv, TypeOK', NEW t \in Threads, EmitSample(t)
  PROVE  IInv'
<1> DEFINE x == [ev[t] EXCEPT !.frame = frameNumber, !.parent = PeekParentID(t)]
<1>1. TypeOK /\ Indexed /\ Ids /\ Order /\ Tree
  BY DEF IInv
<1>2. /\ UNCHANGED <<stack, index, threadCount, now, frameNumber, nextMessageID>>
      /\ pc[t] = "frame" /\ ~ ev[t].zone /\ pc' = [pc EXCEPT ![t] = "idle"]
      /\ ev' = [ev EXCEPT ![t] = NewEvent] /\ Emit(x)
  BY DEF EmitSample, Goto, shared, indexes
<1>3. /\ ev \in [Threads -> Events] /\ frameNumber \in Nat /\ Len(stack[t]) \in Nat
      /\ pc \in [Threads -> {"idle", "id", "time", "frame"}]
      /\ TopID(t) \in Nat /\ PeekParentID(t) = TopID(t) /\ now \in Nat
      /\ \A i \in 1 .. Len(stack[t]) : stack[t][i] \in Events
  BY <1>1, Stacked DEF TypeOK
<1>4. /\ x \in Events /\ x.frame = frameNumber /\ x.parent = TopID(t) /\ x.id = ev[t].id
      /\ x.thread = ev[t].thread /\ x.time = ev[t].time /\ x.value = ev[t].value
  <2>1. x = [ev[t] EXCEPT !.frame = frameNumber, !.parent = PeekParentID(t)]
    OBVIOUS
  <2>2. PeekParentID(t) \in Nat
    BY <1>3
  <2> HIDE DEF x
  <2>3. /\ x \in Events /\ x.frame = frameNumber /\ x.parent = PeekParentID(t) /\ x.id = ev[t].id
        /\ x.thread = ev[t].thread /\ x.time = ev[t].time /\ x.value = ev[t].value
    <3> DEFINE y == ev[t]
               m == PeekParentID(t)
    <3>1. y \in Events /\ frameNumber \in Nat /\ m \in Nat
      BY <1>3
    <3>2. x = [y EXCEPT !.frame = frameNumber, !.parent = m]
      BY <2>1
    <3> HIDE DEF y, m
    <3>3. /\ x \in Events /\ x.frame = frameNumber /\ x.parent = m /\ x.id = y.id
          /\ x.thread = y.thread /\ x.time = y.time /\ x.value = y.value
      BY <3>1, <3>2 DEF Events
    <3> QED BY <3>3 DEF y, m
  <2> QED BY <1>3, <2>3
<1> HIDE DEF x
<1>5. /\ ev[t].thread = index[t] /\ ev[t].time <= now /\ ev[t].value = 0
      /\ \A i \in 1 .. Len(stack[t]) : stack[t][i].id < ev[t].id /\ stack[t][i].time <= ev[t].time
      /\ \A e \in emitted : e.thread = index[t] => e.id < ev[t].id /\ e.time <= ev[t].time
  BY <1>1, <1>2 DEF Order, Stamped
<1>6. \A i \in 1 .. Len(stack[t]) : stack[t][i].zone /\ stack[t][i].frame <= x.frame
  BY <1>1, <1>4 DEF Order
<1>7. \A e \in emitted : e.thread = index[t] => e.frame <= x.frame /\ ~ x.id < e.id
  <2>1. \A e \in emitted : e.id \in Nat
    BY <1>1 DEF TypeOK, Events
  <2>2. x.id \in Nat
    BY <1>4 DEF Events
  <2> QED BY <1>1, <1>4, <1>5, <2>1, <2>2 DEF Order
<1>8. x.time + x.value <= now /\ x.frame <= frameNumber
  <2>1. x.time \in Nat
    BY <1>4 DEF Events
  <2> QED BY <1>3, <1>4, <1>5, <2>1
<1>9. /\ 0 \in Nat /\ Pending(t, 0) /\ Event(t, 0) = ev[t] /\ TopID(t)' = TopID(t)
  BY <1>2 DEF Pending, Event, TopID
<1>10. /\ pc'[t] = "idle"
       /\ \A u \in Threads \ {t} : pc'[u] = pc[u] /\ ev'[u] = ev[u] /\ stack'[u] = stack[u]
  BY <1>2, <1>3
<1>11. \A e \in emitted : e.parent # x.id
  BY <1>2, <1>4, NoChildYet
<1>12. \A e \in emitted : e.thread = index[t] =>
         /\ e.id < x.id => e.time <= x.time /\ e.frame <= x.frame
         /\ x.id < e.id => x.time <= e.time /\ x.frame <= e.frame
  BY <1>4, <1>5, <1>7
<1>13. /\ Len(stack'[t]) = Len(stack[t])
       /\ \A i \in 1 .. Len(stack'[t]) :
            /\ stack[t][i].zone /\ stack[t][i].id < x.id /\ stack[t][i].time <= x.time
            /\ stack[t][i].frame <= x.frame /\ stack'[t][i] = stack[t][i]
  BY <1>2, <1>4, <1>5, <1>6
<1>14. \A e \in emitted : e.parent = x.id =>
         /\ x.zone /\ x.thread = e.thread /\ x.id < e.id
         /\ x.time <= e.time /\ x.frame <= e.frame
         /\ e.time + e.value <= x.time + x.value
  BY <1>11
<1>15. Emits(t, 0, x)
  <2>1. /\ Pending(t, 0)
        /\ UNCHANGED <<nextMessageID, now, frameNumber, index, threadCount>> /\ Emit(x)
        /\ pc'[t] = "idle"
        /\ \A u \in Threads \ {t} : pc'[u] = pc[u] /\ ev'[u] = ev[u] /\ stack'[u] = stack[u]
    BY <1>2, <1>9, <1>10
  <2>2. x.id = Event(t, 0).id /\ x.thread = index[t] /\ x.parent = TopID(t)'
    BY <1>4, <1>5, <1>9
  <2> QED BY <1>8, <1>12, <1>13, <1>14, <2>1, <2>2 DEF Emits
<1> QED BY <1>4, <1>9, <1>15, EmitStep

LEMMA EndStep ==
  ASSUME IInv, TypeOK', NEW t \in Threads, End(t)
  PROVE  IInv'
<1> DEFINE L == Len(stack[t])
           x == [Last(stack[t]) EXCEPT !.value = now - Last(stack[t]).time]
<1>1. TypeOK /\ Indexed /\ Ids /\ Order /\ Tree
  BY DEF IInv
<1>2. /\ UNCHANGED <<pc, ev, index, threadCount, now, frameNumber, nextMessageID>>
      /\ pc[t] = "idle" /\ ~ Empty(t) /\ stack' = [stack EXCEPT ![t] = Front(@)] /\ Emit(x)
  BY DEF End, Ready, Leave, Pop, shared, indexes
<1>3. /\ stack \in [Threads -> Seq(Events)] /\ now \in Nat /\ emitted \subseteq Events
      /\ stack[t] # <<>> /\ stack[t] \in Seq(Events) /\ L \in Nat
      /\ \A i \in 1 .. L : stack[t][i] \in Events
  BY <1>1, <1>2, Stacked DEF TypeOK, Empty
<1>4. /\ stack'[t] = Front(stack[t]) /\ Len(stack'[t]) = L - 1
      /\ \A i \in 1 .. L - 1 : stack'[t][i] = stack[t][i]
      /\ Last(stack[t]) = stack[t][L] /\ L \in Nat \ {0} /\ L \in 1 .. L
      /\ \A i \in 1 .. L - 1 : i \in 1 .. L /\ i < L
      /\ \A u \in Threads \ {t} : stack'[u] = stack[u]
  <2>1. stack'[t] = Front(stack[t]) /\ \A u \in Threads \ {t} : stack'[u] = stack[u]
    BY <1>2, <1>3
  <2>2. /\ Len(Front(stack[t])) = L - 1 /\ \A i \in 1 .. L - 1 : Front(stack[t])[i] = stack[t][i]
        /\ Last(stack[t]) = stack[t][L] /\ L \in Nat \ {0}
    BY <1>3, Popped
  <2> HIDE DEF L
  <2>3. L \in 1 .. L /\ \A i \in 1 .. L - 1 : i \in 1 .. L /\ i < L
    BY <2>2
  <2> QED BY <2>1, <2>2, <2>3
<1>5. /\ stack[t][L] \in Events /\ stack[t][L].thread = index[t] /\ stack[t][L].zone
      /\ stack[t][L].time <= now /\ stack[t][L].frame <= frameNumber
  BY <1>1, <1>3, <1>4 DEF Order
<1>6. /\ now - stack[t][L].time \in Nat
      /\ stack[t][L].time + (now - stack[t][L].time) = now /\ now <= now
  <2> DEFINE d == stack[t][L].time
  <2>1. d \in Nat /\ d <= now
    BY <1>5 DEF Events
  <2> HIDE DEF d
  <2>2. now - d \in Nat /\ d + (now - d) = now /\ now <= now
    BY <1>3, <2>1
  <2> QED BY <2>2 DEF d
<1>7. /\ x \in Events /\ x.value = now - stack[t][L].time /\ x.id = stack[t][L].id
      /\ x.zone = stack[t][L].zone /\ x.thread = stack[t][L].thread
      /\ x.parent = stack[t][L].parent /\ x.time = stack[t][L].time
      /\ x.frame = stack[t][L].frame
  <2>1. x = [stack[t][L] EXCEPT !.value = now - stack[t][L].time]
    BY <1>4
  <2> DEFINE y == stack[t][L]
             n == now - stack[t][L].time
  <2>2. y \in Events /\ n \in Nat /\ x = [y EXCEPT !.value = n]
    BY <1>5, <1>6, <2>1
  <2> HIDE DEF x, y, n
  <2>3. /\ x \in Events /\ x.value = n /\ x.id = y.id /\ x.zone = y.zone
        /\ x.thread = y.thread /\ x.parent = y.parent /\ x.time = y.time /\ x.frame = y.frame
    BY <2>2, Valued
  <2> QED BY <2>3 DEF y, n
<1> HIDE DEF x
<1> HIDE DEF L
<1>8. Pending(t, L) /\ Event(t, L) = stack[t][L]
  BY <1>4 DEF Pending, Event, L
<1>9. x.parent = TopID(t)'
  <2>1. stack[t][L].parent = IF L = 1 THEN 0 ELSE stack[t][L - 1].id
    BY <1>1, <1>4 DEF Tree, L
  <2>2. L # 1 => L - 1 \in 1 .. L - 1 /\ L - 1 # 0
    BY <1>4
  <2>3. TopID(t)' = IF L - 1 = 0 THEN 0 ELSE stack'[t][L - 1].id
    BY <1>4 DEF TopID
  <2>4. L = 1 => L - 1 = 0
    OBVIOUS
  <2> QED BY <1>4, <1>7, <2>1, <2>2, <2>3, <2>4
<1>10. ASSUME NEW i \in 1 .. L - 1
       PROVE  /\ stack[t][i].zone /\ stack[t][i].id < x.id /\ stack[t][i].time <= x.time
              /\ stack[t][i].frame <= x.frame
  <2>1. i \in 1 .. L /\ L \in 1 .. L /\ i < L
    BY <1>4
  <2> QED BY <1>1, <1>7, <2>1 DEF Order, L
<1>11. \A e \in emitted : e.thread = index[t] =>
         /\ e.id < x.id => e.time <= x.time /\ e.frame <= x.frame
         /\ x.id < e.id => x.time <= e.time /\ x.frame <= e.frame
  BY <1>1, <1>4, <1>7 DEF Order, L
<1>12. ASSUME NEW e \in emitted, e.parent = x.id
       PROVE  /\ x.zone /\ x.thread = e.thread /\ x.id < e.id
              /\ x.time <= e.time /\ x.frame <= e.frame
              /\ e.time + e.value <= x.time + x.value
  <2>1. /\ e.thread = index[t] /\ stack[t][L].id < e.id
        /\ stack[t][L].time <= e.time /\ stack[t][L].frame <= e.frame
    BY <1>1, <1>4, <1>7, <1>12 DEF Tree, L
  <2>2. e.time + e.value <= now
    BY <1>1 DEF Order
  <2> QED BY <1>5, <1>6, <1>7, <2>1, <2>2
<1>13. x.time + x.value <= now /\ x.frame <= frameNumber /\ x.thread = index[t] /\ x.id = Event(t, L).id
  BY <1>5, <1>6, <1>7, <1>8
<1>14. L \in Nat /\ L # 0 /\ Len(stack'[t]) = Len(stack[t]) - 1 /\ L = Len(stack[t])
  BY <1>4 DEF L
<1>15. \A i \in 1 .. Len(stack'[t]) :
         /\ stack[t][i].zone /\ stack[t][i].id < x.id /\ stack[t][i].time <= x.time
         /\ stack[t][i].frame <= x.frame /\ stack'[t][i] = stack[t][i]
  BY <1>4, <1>10
<1>16. pc'[t] = "idle" /\ \A u \in Threads \ {t} : pc'[u] = pc[u] /\ ev'[u] = ev[u] /\ stack'[u] = stack[u]
  BY <1>2, <1>4
<1>17. Emits(t, L, x)
  BY <1>2, <1>8, <1>9, <1>11, <1>12, <1>13, <1>14, <1>15, <1>16 DEF Emits
<1> QED BY <1>7, <1>14, <1>17, EmitStep

------------------------------------------------------------------------------
(* The inductive invariant *)

LEMMA InitInv == Init => IInv
<1> SUFFICES ASSUME Init PROVE IInv
  OBVIOUS
<1>1. TypeOK
  <2>1. NewEvent \in Events
    BY DEF NewEvent, Events
  <2>2. <<>> \in Seq(Events) /\ <<>> \in Seq(Nat) /\ \A t \in Threads : Len(stack[t]) <= Depth
    BY EmptySeq, DepthAssumption DEF Init
  <2> QED BY <2>1, <2>2 DEF Init, TypeOK, NoIndex
<1>2. \A t \in Threads : stack[t] = <<>> /\ Len(stack[t]) = 0 /\ pc[t] = "idle"
  BY EmptySeq DEF Init
<1>3. \A t \in Threads : \A i \in 1 .. Len(stack[t]) : FALSE
  BY <1>2
<1>4. Indexed
  <2>1. threadCount = 0 /\ emitted = {} /\ \A t \in Threads : index[t] = NoIndex
    BY DEF Init
  <2> QED BY <1>2, <2>1 DEF Indexed, NoIndex
<1>5. Ids
  <2>1. \A t \in Threads, i \in Nat : ~ Pending(t, i)
    BY <1>2, <1>3 DEF Pending
  <2> QED BY <2>1 DEF Ids, Init
<1>6. Order
  <2>1. \A t \in Threads : Stamped(t)
    BY <1>2 DEF Stamped
  <2> QED BY <1>3, <2>1 DEF Order, StampsAscend, Init
<1>7. Tree
  BY <1>2, <1>3 DEF Tree, ParentEncloses, Init
<1> QED BY <1>1, <1>4, <1>5, <1>6, <1>7 DEF IInv

\* The program's zones keep their type, whatever the library makes of them.
LEMMA ProgramTyped ==
  ASSUME TypeOK, NEW t \in Threads, NEW n \in Nat, Enter(t, n) \/ UNCHANGED nest
  PROVE  nest' \in [Threads -> Seq(Nat)]
<1>1. nest \in [Threads -> Seq(Nat)]
  BY DEF TypeOK
<1>2. Append(nest[t], n) \in Seq(Nat)
  BY <1>1
<1> QED BY <1>1, <1>2 DEF Enter

LEMMA LeaveTyped ==
  ASSUME TypeOK, NEW t \in Threads, Leave(t)
  PROVE  nest' \in [Threads -> Seq(Nat)] /\ overflowed' \in [Threads -> BOOLEAN]
<1>1. nest \in [Threads -> Seq(Nat)] /\ overflowed \in [Threads -> BOOLEAN]
  BY DEF TypeOK
<1>2. Front(nest[t]) \in Seq(Nat)
  BY <1>1, Popped DEF Leave
<1>3. nest' \in [Threads -> Seq(Nat)]
  BY <1>1, <1>2 DEF Leave
<1>4. overflowed' \in [Threads -> BOOLEAN]
  BY <1>1 DEF Leave
<1> QED BY <1>3, <1>4

\* What an Emit of a well-typed event leaves.
LEMMA EmitTyped ==
  ASSUME TypeOK, NEW x \in Events, Emit(x)
  PROVE  emitted' \subseteq Events /\ dropped' \subseteq Nat
<1>1. emitted \subseteq Events /\ dropped \subseteq Nat /\ x.id \in Nat
  BY DEF TypeOK, Events
<1> QED BY <1>1 DEF Emit

\* The types survive every step; those of the events need the invariant: the
\* clock of an open zone is not ahead, and there is room for the zone a call
\* has begun.
LEMMA StepTyped == IInv /\ [Next]_vars => TypeOK'
<1> SUFFICES ASSUME IInv, [Next]_vars PROVE TypeOK'
  OBVIOUS
<1>1. TypeOK /\ Indexed /\ Ids /\ Order /\ Tree
  BY DEF IInv
<1> USE DEF Goto, shared, indexes, events, program
<1>2. ASSUME NEW t \in Threads, InitThread(t) PROVE TypeOK'
  BY <1>1, <1>2 DEF TypeOK, InitThread
<1>3. ASSUME NEW t \in Threads, PausedZone(t) PROVE TypeOK'
  <2>1. nest' \in [Threads -> Seq(Nat)]
    BY <1>1, <1>3, ProgramTyped DEF PausedZone, Unrecorded
  <2> QED BY <1>1, <1>3, <2>1 DEF TypeOK, PausedZone
<1>4. ASSUME NEW t \in Threads, FullZone(t) PROVE TypeOK'
  <2>1. nest' \in [Threads -> Seq(Nat)]
    BY <1>1, <1>4, ProgramTyped DEF FullZone, Unrecorded
  <2> QED BY <1>1, <1>4, <2>1 DEF TypeOK, FullZone
<1>5. ASSUME NEW t \in Threads, BeginZone(t) \/ BeginSample(t) PROVE TypeOK'
  <2>1. ev' \in [Threads -> Events]
    <3>1. NewEvent \in Events /\ PeekParentID(t) \in Nat /\ ev \in [Threads -> Events]
      BY <1>1, Stacked DEF NewEvent, Events, TypeOK
    <3>2. [NewEvent EXCEPT !.zone = TRUE, !.parent = PeekParentID(t)] \in Events
      BY <3>1 DEF NewEvent, Events
    <3> QED BY <1>5, <3>1, <3>2 DEF BeginZone, BeginSample
  <2> QED BY <1>1, <1>5, <2>1 DEF TypeOK, BeginZone, BeginSample
<1>6. ASSUME NEW t \in Threads, StampID(t) PROVE TypeOK'
  <2>1. index[t] \in Nat
    BY <1>1, <1>6 DEF TypeOK, Indexed, StampID
  <2>2. ev' \in [Threads -> Events]
    <3>1. /\ ev \in [Threads -> Events] /\ nextMessageID \in Nat
          /\ ev' = [ev EXCEPT ![t].id = nextMessageID, ![t].thread = index[t]]
      BY <1>1, <1>6 DEF TypeOK, StampID
    <3> QED BY <2>1, <3>1, StampedID
  <2> QED BY <1>1, <1>6, <2>2 DEF TypeOK, StampID
<1>7. ASSUME NEW t \in Threads, StampTime(t) PROVE TypeOK'
  <2>1. ev' \in [Threads -> Events]
    BY <1>1, <1>7, StampedTime DEF TypeOK, StampTime
  <2> QED BY <1>1, <1>7, <2>1 DEF TypeOK, StampTime
<1>8. ASSUME NEW t \in Threads, OpenZone(t) PROVE TypeOK'
  <2> DEFINE e == [ev[t] EXCEPT !.frame = frameNumber]
  <2>1. ev[t] \in Events /\ frameNumber \in Nat /\ e = [ev[t] EXCEPT !.frame = frameNumber]
    BY <1>1 DEF TypeOK
  <2>2. stack' = [stack EXCEPT ![t] = Append(@, e)] /\ Enter(t, e.id)
    BY <1>8 DEF OpenZone, Push
  <2> HIDE DEF e
  <2>3. e \in Events /\ e.id \in Nat
    BY <2>1, Framed DEF Events
  <2>4. nest' \in [Threads -> Seq(Nat)]
    BY <1>1, <2>2, <2>3, ProgramTyped
  <2>5. Append(stack[t], e) \in Seq(Events) /\ Len(Append(stack[t], e)) = Len(stack[t]) + 1
    BY <1>1, <2>3, Stacked, Pushed
  <2>6. Len(stack[t]) + 1 <= Depth
    <3>1. Len(stack[t]) < Depth /\ Len(stack[t]) \in Nat
      BY <1>1, <1>8, Stacked DEF Indexed, OpenZone
    <3> QED BY <3>1, DepthAssumption
  <2>7. stack' \in [Threads -> Seq(Events)] /\ \A u \in Threads : Len(stack'[u]) <= Depth
    BY <1>1, <2>2, <2>5, <2>6 DEF TypeOK
  <2>8. NewEvent \in Events
    BY DEF NewEvent, Events
  <2> QED BY <1>1, <1>8, <2>4, <2>7, <2>8 DEF TypeOK, OpenZone
<1>9. ASSUME NEW t \in Threads, EmitSample(t) PROVE TypeOK'
  <2> DEFINE m == PeekParentID(t)
             y == ev[t]
             x == [y EXCEPT !.frame = frameNumber, !.parent = m]
  <2>1. y \in Events /\ frameNumber \in Nat /\ m \in Nat /\ Emit(x)
    BY <1>1, <1>9, Stacked DEF TypeOK, EmitSample
  <2> HIDE DEF m, y
  <2>2. x \in Events
    BY <2>1 DEF Events
  <2> HIDE DEF x
  <2>3. emitted' \subseteq Events /\ dropped' \subseteq Nat
    BY <1>1, <2>1, <2>2, EmitTyped
  <2>4. NewEvent \in Events
    BY DEF NewEvent, Events
  <2> QED BY <1>1, <1>9, <2>3, <2>4 DEF TypeOK, EmitSample
<1>10. ASSUME NEW t \in Threads, PausedEnd(t) PROVE TypeOK'
  <2>1. nest' \in [Threads -> Seq(Nat)] /\ overflowed' \in [Threads -> BOOLEAN]
    BY <1>1, <1>10, LeaveTyped DEF PausedEnd
  <2> QED BY <1>1, <1>10, <2>1 DEF TypeOK, PausedEnd
<1>11. ASSUME NEW t \in Threads, EmptyEnd(t) PROVE TypeOK'
  <2>1. nest' \in [Threads -> Seq(Nat)] /\ overflowed' \in [Threads -> BOOLEAN]
    BY <1>1, <1>11, LeaveTyped DEF EmptyEnd
  <2> QED BY <1>1, <1>11, <2>1 DEF TypeOK, EmptyEnd
<1>12. ASSUME NEW t \in Threads, End(t) PROVE TypeOK'
  <2>1. nest' \in [Threads -> Seq(Nat)] /\ overflowed' \in [Threads -> BOOLEAN]
    BY <1>1, <1>12, LeaveTyped DEF End
  <2>2. /\ stack[t] # <<>> /\ stack[t] \in Seq(Events) /\ now \in Nat
        /\ Len(stack[t]) \in Nat
    BY <1>1, <1>12, Stacked DEF TypeOK, End, Empty
  <2>3. /\ Front(stack[t]) \in Seq(Events) /\ Len(Front(stack[t])) = Len(stack[t]) - 1
        /\ Last(stack[t]) = stack[t][Len(stack[t])] /\ Last(stack[t]) \in Events
        /\ Len(stack[t]) \in Nat \ {0}
    BY <2>2, Popped
  <2>4. Len(stack[t]) - 1 <= Depth
    <3>1. Len(stack[t]) <= Depth /\ Len(stack[t]) \in Nat
      BY <1>1, <2>2 DEF TypeOK
    <3> QED BY <3>1, DepthAssumption
  <2>5. stack' \in [Threads -> Seq(Events)] /\ \A u \in Threads : Len(stack'[u]) <= Depth
    BY <1>1, <1>12, <2>3, <2>4 DEF TypeOK, End, Pop
  <2> DEFINE e == Last(stack[t])
             n == now - e.time
             x == [e EXCEPT !.value = n]
  <2>6. Emit(x)
    BY <1>12 DEF End
  <2>7. Len(stack[t]) \in 1 .. Len(stack[t])
    BY <2>3
  <2>8. e.time <= now
    BY <1>1, <2>3, <2>7 DEF Order
  <2>9. e \in Events
    BY <2>3
  <2> HIDE DEF e
  <2>10. n \in Nat
    <3>1. e.time \in Nat
      BY <2>9 DEF Events
    <3> QED BY <2>2, <2>8, <3>1
  <2> HIDE DEF n
  <2>11. x = [e EXCEPT !.value = n]
    OBVIOUS
  <2> HIDE DEF x
  <2>12. x \in Events
    BY <2>9, <2>10, <2>11, Valued
  <2>13. emitted' \subseteq Events /\ dropped' \subseteq Nat
    BY <1>1, <2>6, <2>12, EmitTyped
  <2> QED BY <1>1, <1>12, <2>1, <2>5, <2>13 DEF TypeOK, End
<1>13. CASE SetPaused \/ FrameEnd \/ Tick \/ UNCHANGED vars
  <2>1. CASE SetPaused
    BY <1>1, <2>1 DEF TypeOK, SetPaused
  <2>2. CASE FrameEnd
    BY <1>1, <2>2 DEF TypeOK, FrameEnd
  <2>3. CASE Tick
    BY <1>1, <2>3 DEF TypeOK, Tick
  <2>4. CASE UNCHANGED vars
    BY <1>1, <2>4 DEF TypeOK, vars
  <2> QED BY <1>13, <2>1, <2>2, <2>3, <2>4
<1> QED BY <1>2, <1>3, <1>4, <1>5, <1>6, <1>7, <1>8, <1>9, <1>10, <1>11, <1>12, <1>13 DEF Next, Step

LEMMA StepInv == IInv /\ [Next]_vars => IInv'
<1> SUFFICES ASSUME IInv, [Next]_vars PROVE IInv'
  OBVIOUS
<1>1. TypeOK'
  BY StepTyped
<1>2. now \in Nat /\ frameNumber \in Nat
  BY DEF IInv, TypeOK
<1>3. ASSUME UNCHANGED <<stack, pc, ev, events, nextMessageID, indexes>>,
             now' \in {now, now + 1}, frameNumber' \in {frameNumber, frameNumber + 1}
      PROVE  IInv'
  <2>1. now <= now' /\ frameNumber <= frameNumber'
    BY <1>2, <1>3
  <2> QED BY <1>1, <1>3, <2>1, QuietStep
<1>4. ASSUME NEW t \in Threads, Step(t) PROVE IInv'
  <2>1. CASE InitThread(t)
    BY <1>1, <2>1, InitThreadStep
  <2>2. CASE PausedZone(t)
    BY <1>3, <2>2 DEF PausedZone, shared
  <2>3. CASE FullZone(t)
    BY <1>3, <2>3 DEF FullZone, shared
  <2>4. CASE BeginZone(t) \/ BeginSample(t)
    BY <1>1, <2>4, BeginStep
  <2>5. CASE StampID(t)
    BY <1>1, <2>5, StampIDStep
  <2>6. CASE StampTime(t)
    BY <1>1, <2>6, StampTimeStep
  <2>7. CASE OpenZone(t)
    BY <1>1, <2>7, OpenZoneStep
  <2>8. CASE EmitSample(t)
    BY <1>1, <2>8, EmitSampleStep
  <2>9. CASE PausedEnd(t)
    BY <1>3, <2>9 DEF PausedEnd, shared
  <2>10. CASE EmptyEnd(t)
    BY <1>3, <2>10 DEF EmptyEnd, shared
  <2>11. CASE End(t)
    BY <1>1, <2>11, EndStep
  <2> QED BY <1>4, <2>1, <2>2, <2>3, <2>4, <2>5, <2>6, <2>7, <2>8, <2>9, <2>10, <2>11 DEF Step
<1>5. CASE SetPaused
  BY <1>3, <1>5 DEF SetPaused
<1>6. CASE FrameEnd
  BY <1>3, <1>6 DEF FrameEnd
<1>7. CASE Tick
  BY <1>3, <1>7 DEF Tick
<1>8. CASE UNCHANGED vars
  BY <1>3, <1>8 DEF vars, shared
<1> QED BY <1>4, <1>5, <1>6, <1>7, <1>8 DEF Next

LEMMA Invariance == Spec => []IInv
<1>1. Init => IInv
  BY InitInv
<1>2. IInv /\ [Next]_vars => IInv'
  BY StepInv
<1> QED BY <1>1, <1>2, PTL DEF Spec

------------------------------------------------------------------------------
(* The theorems about the events *)

\* Every variable has its type: no stack outgrows its slab (slabstack.h:63),
\* and no zone has a negative duration (Context.cpp:72).
THEOREM TypeCorrect == Spec => []TypeOK
<1>1. IInv => TypeOK
  BY DEF IInv
<1> QED BY <1>1, Invariance, PTL

\* No two events have one id, and none has the id that means no parent
\* (NextEventID, Context.cpp:182), whatever the order of the threads' calls.
\* The ids of the model do not wrap.
THEOREM IdsAreUnique == Spec => []IdsUnique
<1>1. IInv => IdsUnique
  <2>1. Ids => IdsUnique
    BY DEF Ids, IdsUnique
  <2> QED BY <2>1 DEF IInv
<1> QED BY <1>1, Invariance, PTL

\* The events of one thread are stamped in the order of their ids, although id,
\* time and frame are read one after the other and events are emitted when
\* zones end (StampEvent, Context.cpp:29), in the first session of a process.
THEOREM StampsAgree == Spec => []StampsAscend
<1>1. IInv => StampsAscend
  BY DEF IInv, Order
<1> QED BY <1>1, Invariance, PTL

\* No event refers to a zone that never was.
THEOREM ParentsExist == Spec => []NoDanglingParent
<1>1. IInv => NoDanglingParent
  <2> SUFFICES ASSUME IInv, NEW e \in emitted, e.parent # 0
               PROVE  \/ \E z \in emitted : z.id = e.parent
                      \/ e.parent \in dropped
                      \/ \E t \in Threads : \E i \in DOMAIN stack[t] : stack[t][i].id = e.parent
    BY DEF NoDanglingParent
  <2>1. TypeOK /\ Placed(e.parent)
    BY DEF IInv, Tree
  <2>2. \A t \in Threads : DOMAIN stack[t] = 1 .. Len(stack[t])
    BY <2>1, Stacked
  <2> QED BY <2>1, <2>2 DEF Placed
<1> QED BY <1>1, Invariance, PTL

\* The parents make a tree of intervals: a parent is a zone of the event's own
\* thread that contains it, by the times of the first session of a process.
THEOREM ParentsEnclose == Spec => []ParentEncloses
<1>1. IInv => ParentEncloses
  BY DEF IInv, Tree
<1> QED BY <1>1, Invariance, PTL

------------------------------------------------------------------------------
(* The zones of the program and those of the library *)

LEMMA InitNesting == Init => Nesting
BY EmptySeq DEF Init, Nesting, Follows

\* Zones and nestings are sequences.
LEMMA Sizes ==
  ASSUME TypeOK, NEW t \in Threads
  PROVE  /\ Len(stack[t]) \in Nat /\ (stack[t] = <<>> <=> Len(stack[t]) = 0)
         /\ Len(nest[t]) \in Nat /\ (nest[t] = <<>> <=> Len(nest[t]) = 0)
         /\ stack[t] \in Seq(Events) /\ nest[t] \in Seq(Nat)
         /\ stack \in [Threads -> Seq(Events)] /\ nest \in [Threads -> Seq(Nat)]
         /\ overflowed \in [Threads -> BOOLEAN]
BY EmptySeq DEF TypeOK

\* A step of one thread leaves the others as they were.
LEMMA OthersFollow ==
  ASSUME Nesting, NEW t \in Threads, Follows(t)', UNCHANGED paused,
         \A u \in Threads \ {t} :
           /\ stack'[u] = stack[u] /\ nest'[u] = nest[u] /\ overflowed'[u] = overflowed[u]
           /\ pc'[u] = pc[u],
         paused => pc'[t] = "idle" /\ stack'[t] = <<>>
  PROVE  Nesting'
<1>1. ASSUME NEW u \in Threads PROVE Follows(u)'
  <2>1. CASE u = t
    BY <2>1
  <2>2. CASE u # t
    BY <2>2 DEF Nesting, Follows
  <2> QED BY <2>1, <2>2
<1> QED BY <1>1 DEF Nesting

\* The program enters a zone, and the library pushes it or not.
LEMMA Entered ==
  ASSUME TypeOK, NEW t \in Threads, NEW n \in Nat, Enter(t, n)
  PROVE  /\ Len(nest'[t]) = Len(nest[t]) + 1 /\ nest'[t] # <<>>
         /\ nest'[t][Len(nest[t]) + 1] = n
         /\ \A i \in 1 .. Len(nest[t]) : nest'[t][i] = nest[t][i]
         /\ \A u \in Threads \ {t} : nest'[u] = nest[u]
<1>1. nest'[t] = Append(nest[t], n) /\ \A u \in Threads \ {t} : nest'[u] = nest[u]
  BY Sizes DEF Enter
<1>2. nest[t] \in Seq(Nat) /\ Len(nest[t]) \in Nat
  BY Sizes
<1>3. /\ Len(Append(nest[t], n)) = Len(nest[t]) + 1
      /\ Append(nest[t], n)[Len(nest[t]) + 1] = n
      /\ \A i \in 1 .. Len(nest[t]) : Append(nest[t], n)[i] = nest[t][i]
  BY <1>2
<1>4. Append(nest[t], n) # <<>>
  BY <1>2
<1> QED BY <1>1, <1>3, <1>4

\* The program leaves a zone.
LEMMA Left ==
  ASSUME TypeOK, NEW t \in Threads, Leave(t)
  PROVE  /\ Len(nest[t]) \in Nat \ {0} /\ Len(nest'[t]) = Len(nest[t]) - 1
         /\ \A i \in 1 .. Len(nest[t]) - 1 : nest'[t][i] = nest[t][i]
         /\ nest'[t] = <<>> <=> Len(nest[t]) = 1
         /\ overflowed'[t] <=> overflowed[t] /\ Len(nest[t]) > 1
         /\ \A u \in Threads \ {t} : nest'[u] = nest[u] /\ overflowed'[u] = overflowed[u]
         /\ Last(nest[t]) = nest[t][Len(nest[t])]
<1>1. /\ nest[t] # <<>> /\ nest[t] \in Seq(Nat) /\ nest \in [Threads -> Seq(Nat)]
      /\ overflowed \in [Threads -> BOOLEAN]
  BY Sizes DEF Leave
<1>2. /\ nest'[t] = Front(nest[t]) /\ \A u \in Threads \ {t} : nest'[u] = nest[u]
      /\ overflowed'[t] = (overflowed[t] /\ Len(nest[t]) > 1)
      /\ \A u \in Threads \ {t} : overflowed'[u] = overflowed[u]
  BY <1>1 DEF Leave
<1>3. /\ Len(nest'[t]) = Len(nest[t]) - 1 /\ Len(nest[t]) \in Nat \ {0}
      /\ \A i \in 1 .. Len(nest[t]) - 1 : nest'[t][i] = nest[t][i]
      /\ Last(nest[t]) = nest[t][Len(nest[t])] /\ nest'[t] \in Seq(Nat)
  <2> DEFINE s == nest[t]
  <2>1. s \in Seq(Nat) /\ s # <<>>
    BY <1>1
  <2> HIDE DEF s
  <2>2. /\ Len(Front(s)) = Len(s) - 1 /\ Len(s) \in Nat \ {0} /\ Front(s) \in Seq(Nat)
        /\ \A i \in 1 .. Len(s) - 1 : Front(s)[i] = s[i]
        /\ Last(s) = s[Len(s)]
    BY <2>1, Popped
  <2> QED BY <1>2, <2>2 DEF s
<1>4. nest'[t] = <<>> <=> Len(nest[t]) = 1
  <2>1. nest'[t] = <<>> <=> Len(nest'[t]) = 0
    BY <1>3, EmptySeq
  <2> QED BY <1>3, <2>1
<1> QED BY <1>2, <1>3, <1>4

\* While nobody pauses inside a zone, the stacks follow the program's zones.
LEMMA StepNesting ==
  ASSUME PauseAnywhere = FALSE, IInv, IInv', Nesting, [Next]_vars
  PROVE  Nesting'
<1>1. TypeOK /\ TypeOK' /\ Indexed
  BY DEF IInv
<1> USE DEF Goto, shared, indexes, program
<1>2. ASSUME UNCHANGED <<stack, program, paused>>, ~ paused \/ UNCHANGED pc
      PROVE  Nesting'
  <2>1. \A u \in Threads : Follows(u)'
    BY <1>2 DEF Nesting, Follows
  <2> QED BY <1>2, <2>1 DEF Nesting
<1>3. ASSUME NEW t \in Threads, BeginZone(t) \/ BeginSample(t) \/ StampID(t) \/ StampTime(t) \/ EmitSample(t)
      PROVE  Nesting'
  <2>1. UNCHANGED <<stack, program, paused>>
    BY <1>3 DEF BeginZone, BeginSample, StampID, StampTime, EmitSample
  <2>2. pc[t] # "idle" \/ ~ paused
    BY <1>3 DEF BeginZone, BeginSample, StampID, StampTime, EmitSample
  <2>3. ~ paused
    BY <2>2 DEF Nesting
  <2> QED BY <1>2, <2>1, <2>3
<1>4. ASSUME NEW t \in Threads, PausedZone(t) PROVE Nesting'
  <2>1. /\ Len(nest'[t]) = Len(nest[t]) + 1 /\ nest'[t] # <<>>
        /\ \A u \in Threads \ {t} : nest'[u] = nest[u]
    BY <1>1, <1>4, Entered DEF PausedZone, Unrecorded
  <2>2. Len(stack[t]) \in Nat /\ Len(nest[t]) \in Nat
    BY <1>1, Sizes
  <2>3. Len(stack[t]) <= Len(nest[t]) /\ paused /\ pc[t] = "idle" /\ stack[t] = <<>>
    BY <1>4 DEF Nesting, Follows, PausedZone, MayEnter
  <2>4. Follows(t)'
    BY <1>4, <2>1, <2>2, <2>3 DEF Follows, PausedZone
  <2> QED BY <1>4, <2>1, <2>3, <2>4, OthersFollow DEF PausedZone
<1>5. ASSUME NEW t \in Threads, FullZone(t) PROVE Nesting'
  <2>1. /\ Len(nest'[t]) = Len(nest[t]) + 1 /\ nest'[t] # <<>>
        /\ \A u \in Threads \ {t} : nest'[u] = nest[u]
    BY <1>1, <1>5, Entered DEF FullZone, Unrecorded
  <2>2. Len(stack[t]) \in Nat /\ Len(nest[t]) \in Nat /\ overflowed \in [Threads -> BOOLEAN]
    BY <1>1, Sizes
  <2>3. Len(stack[t]) <= Len(nest[t]) /\ ~ paused
    BY <1>5 DEF Nesting, Follows, FullZone
  <2>4. overflowed'[t] /\ \A u \in Threads \ {t} : overflowed'[u] = overflowed[u]
    BY <1>5, <2>2 DEF FullZone
  <2>5. Follows(t)'
    BY <1>5, <2>1, <2>2, <2>3, <2>4 DEF Follows, FullZone
  <2> QED BY <1>5, <2>1, <2>3, <2>4, <2>5, OthersFollow DEF FullZone
<1>6. ASSUME NEW t \in Threads, OpenZone(t) PROVE Nesting'
  <2> DEFINE L == Len(stack[t])
             e == [ev[t] EXCEPT !.frame = frameNumber]
  <2>1. ev[t] \in Events /\ frameNumber \in Nat /\ e = [ev[t] EXCEPT !.frame = frameNumber]
    BY <1>1 DEF TypeOK
  <2>2. /\ stack' = [stack EXCEPT ![t] = Append(@, e)] /\ Enter(t, e.id)
        /\ pc[t] = "frame" /\ UNCHANGED <<overflowed, paused>> /\ pc' = [pc EXCEPT ![t] = "idle"]
    BY <1>6 DEF OpenZone, Push
  <2> HIDE DEF e
  <2>3. e \in Events /\ e.id \in Nat
    BY <2>1, Framed DEF Events
  <2>4. /\ Len(nest'[t]) = Len(nest[t]) + 1 /\ nest'[t] # <<>>
        /\ nest'[t][Len(nest[t]) + 1] = e.id
        /\ \A i \in 1 .. Len(nest[t]) : nest'[t][i] = nest[t][i]
        /\ \A u \in Threads \ {t} : nest'[u] = nest[u]
    BY <1>1, <2>2, <2>3, Entered
  <2>5. /\ L \in Nat /\ Len(nest[t]) \in Nat /\ stack[t] \in Seq(Events)
        /\ stack'[t] = Append(stack[t], e) /\ \A u \in Threads \ {t} : stack'[u] = stack[u]
    BY <1>1, <2>2, Sizes
  <2>6. /\ Len(stack'[t]) = L + 1 /\ stack'[t][L + 1] = e
        /\ \A i \in 1 .. L : stack'[t][i] = stack[t][i]
        /\ \A i \in 1 .. L + 1 : i = L + 1 \/ i \in 1 .. L
    BY <2>3, <2>5, Pushed
  <2>7. ~ paused /\ Follows(t)
    BY <2>2 DEF Nesting
  <2>8. Len(stack'[t]) <= Len(nest'[t])
    BY <2>4, <2>5, <2>6, <2>7 DEF Follows
  <2>9. ASSUME ~ overflowed[t]
        PROVE  /\ Len(stack'[t]) = Len(nest'[t])
               /\ \A i \in 1 .. Len(stack'[t]) : stack'[t][i].id = nest'[t][i]
    <3>1. L = Len(nest[t]) /\ \A i \in 1 .. L : stack[t][i].id = nest[t][i]
      BY <2>7, <2>9 DEF Follows
    <3> HIDE DEF L
    <3> QED BY <2>4, <2>6, <3>1
  <2>10. Follows(t)'
    BY <2>2, <2>4, <2>8, <2>9 DEF Follows
  <2>11. pc \in [Threads -> {"idle", "id", "time", "frame"}]
    BY <1>1 DEF TypeOK
  <2> QED BY <2>2, <2>4, <2>5, <2>7, <2>10, <2>11, OthersFollow
<1>7. ASSUME NEW t \in Threads, PausedEnd(t) \/ EmptyEnd(t) PROVE Nesting'
  <2>1. /\ Len(nest[t]) \in Nat \ {0} /\ Len(nest'[t]) = Len(nest[t]) - 1
        /\ nest'[t] = <<>> <=> Len(nest[t]) = 1
        /\ overflowed'[t] <=> overflowed[t] /\ Len(nest[t]) > 1
        /\ \A u \in Threads \ {t} : nest'[u] = nest[u] /\ overflowed'[u] = overflowed[u]
    BY <1>1, <1>7, Left DEF PausedEnd, EmptyEnd
  <2>2. stack[t] = <<>> /\ UNCHANGED <<stack, pc, paused>> /\ pc[t] = "idle"
    BY <1>7 DEF PausedEnd, EmptyEnd, Empty, Nesting, Leave
  <2>3. Len(stack[t]) = 0 /\ Len(stack'[t]) = 0
    BY <1>1, <2>2, Sizes
  <2>4. Follows(t)
    BY DEF Nesting
  <2>5. Follows(t)'
    <3>1. 0 <= Len(nest'[t])
      BY <2>1
    <3>2. ~ overflowed'[t] /\ ~ paused => Len(nest'[t]) = 0
      BY <2>1, <2>3, <2>4 DEF Follows
    <3>3. nest'[t] = <<>> => ~ overflowed'[t]
      <4>1. ~ (1 > 1)
        OBVIOUS
      <4> QED BY <2>1, <4>1, Zenon
    <3>4. \A i \in 1 .. Len(stack'[t]) : FALSE
      BY <2>3
    <3> QED BY <2>2, <2>3, <3>1, <3>2, <3>3, <3>4 DEF Follows
  <2> QED BY <2>1, <2>2, <2>5, OthersFollow
<1>8. ASSUME NEW t \in Threads, End(t) PROVE Nesting'
  <2> DEFINE L == Len(stack[t])
             N == Len(nest[t])
  <2>1. /\ N \in Nat \ {0} /\ Len(nest'[t]) = N - 1
        /\ \A i \in 1 .. N - 1 : nest'[t][i] = nest[t][i]
        /\ nest'[t] = <<>> <=> N = 1
        /\ overflowed'[t] <=> overflowed[t] /\ N > 1
        /\ \A u \in Threads \ {t} : nest'[u] = nest[u] /\ overflowed'[u] = overflowed[u]
    BY <1>1, <1>8, Left DEF End
  <2>2. /\ stack[t] # <<>> /\ stack' = [stack EXCEPT ![t] = Front(@)] /\ ~ paused
        /\ UNCHANGED <<pc, paused>>
    BY <1>8 DEF End, Empty, Pop
  <2>3. /\ stack[t] \in Seq(Events) /\ stack'[t] = Front(stack[t])
        /\ \A u \in Threads \ {t} : stack'[u] = stack[u]
    BY <1>1, <2>2, Sizes
  <2>4. /\ Len(stack'[t]) = L - 1 /\ \A i \in 1 .. L - 1 : stack'[t][i] = stack[t][i]
        /\ L \in Nat \ {0}
    BY <2>2, <2>3, Popped
  <2>5. /\ L <= N
        /\ ~ overflowed[t] => L = N /\ \A i \in 1 .. L : stack[t][i].id = nest[t][i]
    BY <2>2 DEF Nesting, Follows
  <2> HIDE DEF L, N
  <2>6. Len(stack'[t]) <= Len(nest'[t])
    BY <2>1, <2>4, <2>5
  <2>7. ASSUME ~ overflowed'[t]
        PROVE  /\ Len(stack'[t]) = Len(nest'[t])
               /\ \A i \in 1 .. Len(stack'[t]) : stack'[t][i].id = nest'[t][i]
    <3>1. CASE overflowed[t]
      <4>1. N = 1 /\ L = 1
        BY <2>1, <2>4, <2>5, <2>7, <3>1
      <4>2. Len(stack'[t]) = 0 /\ Len(nest'[t]) = 0
        BY <2>1, <2>4, <4>1
      <4> QED BY <4>2
    <3>2. CASE ~ overflowed[t]
      <4>1. L = N /\ \A i \in 1 .. L - 1 : i \in 1 .. L /\ stack[t][i].id = nest[t][i]
        BY <2>4, <2>5, <3>2
      <4> QED BY <2>1, <2>4, <4>1
    <3> QED BY <3>1, <3>2
  <2>8. nest'[t] = <<>> => ~ overflowed'[t]
    BY <2>1
  <2>9. Follows(t)'
    BY <2>6, <2>7, <2>8 DEF Follows
  <2> QED BY <2>1, <2>2, <2>3, <2>9, OthersFollow
<1>9. CASE SetPaused
  <2>1. \A t \in Threads : pc[t] = "idle" /\ nest[t] = <<>>
    BY <1>9 DEF SetPaused
  <2>2. \A t \in Threads : stack[t] = <<>> /\ Len(stack[t]) = 0 /\ Len(nest[t]) = 0
    <3> SUFFICES ASSUME NEW t \in Threads
                 PROVE  stack[t] = <<>> /\ Len(stack[t]) = 0 /\ Len(nest[t]) = 0
      OBVIOUS
    <3>1. /\ Len(stack[t]) \in Nat /\ (stack[t] = <<>> <=> Len(stack[t]) = 0)
          /\ Len(nest[t]) = 0 /\ Len(stack[t]) <= Len(nest[t])
      BY <1>1, <2>1, Sizes DEF Nesting, Follows
    <3> QED BY <3>1
  <2>3. UNCHANGED <<stack, pc, nest, overflowed>>
    BY <1>9 DEF SetPaused
  <2>4. \A t \in Threads : Follows(t)'
    <3>1. \A t \in Threads : \A i \in 1 .. Len(stack[t]) : FALSE
      BY <2>2
    <3> QED BY <2>2, <2>3, <3>1 DEF Nesting, Follows
  <2> QED BY <2>1, <2>2, <2>3, <2>4 DEF Nesting
<1>10. CASE FrameEnd \/ Tick \/ UNCHANGED vars
  <2>1. UNCHANGED <<stack, pc, nest, overflowed, paused>>
    BY <1>10 DEF FrameEnd, Tick, vars
  <2> QED BY <2>1 DEF Nesting, Follows
<1>11. ASSUME NEW t \in Threads, InitThread(t) PROVE Nesting'
  BY <1>2, <1>11 DEF InitThread
<1> QED BY <1>3, <1>4, <1>5, <1>6, <1>7, <1>8, <1>9, <1>10, <1>11 DEF Next, Step

LEMMA NestingInvariance ==
  ASSUME PauseAnywhere = FALSE
  PROVE  Spec => [](IInv /\ Nesting)
<1>1. Init => IInv /\ Nesting
  BY InitInv, InitNesting
<1>2. IInv /\ Nesting /\ [Next]_vars => IInv' /\ Nesting'
  BY StepInv, StepNesting
<1> QED BY <1>1, <1>2, PTL DEF Spec

\* In a program that pauses outside its zones only, a thread that has left its
\* outermost zone has an empty stack, also after an overflow: what FullZone did
\* not push, EmptyEnd does not pop (slabstack.h:63, :77).
THEOREM CleanAfterZones ==
  ASSUME PauseAnywhere = FALSE
  PROVE  Spec => []CleanOutsideZones
<1>1. IInv /\ Nesting => CleanOutsideZones
  <2> SUFFICES ASSUME IInv, Nesting, NEW t \in Threads, nest[t] = <<>> PROVE Empty(t)
    BY DEF CleanOutsideZones
  <2>1. /\ Len(stack[t]) \in Nat /\ (stack[t] = <<>> <=> Len(stack[t]) = 0)
        /\ Len(nest[t]) = 0 /\ Len(stack[t]) <= Len(nest[t])
    BY Sizes DEF IInv, Nesting, Follows
  <2> QED BY <2>1 DEF Empty
<1> QED BY <1>1, NestingInvariance, PTL

\* In such a program esp_end emits the event of the zone the program leaves,
\* "the last declared profiling zone" (profile.h:91), in every thread that is
\* not in more zones than its stack holds.
THEOREM EndClosesLast ==
  ASSUME PauseAnywhere = FALSE
  PROVE  Spec => EndClosesLastZone
<1>1. IInv /\ Nesting /\ [Next]_vars => [ClosesLastZone]_vars
  <2> SUFFICES ASSUME IInv, Nesting, Next PROVE ClosesLastZone
    OBVIOUS
  <2> SUFFICES ASSUME NEW t \in Threads, Len(nest'[t]) < Len(nest[t]), ~ overflowed[t],
                      NEW e \in emitted' \ emitted
               PROVE  e.id = Last(nest[t])
    BY DEF ClosesLastZone
  <2>1. TypeOK
    BY DEF IInv
  <2>2. Len(nest[t]) \in Nat /\ ~ Len(nest[t]) < Len(nest[t]) /\ ~ Len(nest[t]) + 1 < Len(nest[t])
    BY <2>1, Sizes
  <2>3. nest'[t] # nest[t] /\ emitted' # emitted
    BY <2>2
  <2>4. PICK u \in Threads : Step(u)
    BY <2>3 DEF Next, SetPaused, FrameEnd, Tick, program
  <2>5. End(u)
    BY <2>3, <2>4 DEF Step, InitThread, PausedZone, FullZone, BeginZone, BeginSample,
       StampID, StampTime, OpenZone, EmitSample, PausedEnd, EmptyEnd, program, events
  <2>6. u = t
    BY <2>1, <2>3, <2>5, Left DEF End
  <2> DEFINE x == Last(stack[t])
             r == [x EXCEPT !.value = now - x.time]
  <2>7. Emit(r)
    BY <2>5, <2>6 DEF End
  <2>8. stack[t] # <<>> /\ stack[t] \in Seq(Events)
    BY <2>1, <2>5, <2>6, Sizes DEF End, Empty
  <2>9. x \in Events /\ x = stack[t][Len(stack[t])] /\ Len(stack[t]) \in 1 .. Len(stack[t])
    <3>1. /\ Last(stack[t]) \in Events /\ Last(stack[t]) = stack[t][Len(stack[t])]
          /\ Len(stack[t]) \in Nat \ {0}
      BY <2>8, Popped
    <3>2. Len(stack[t]) \in 1 .. Len(stack[t])
      BY <3>1
    <3> QED BY <3>1, <3>2
  <2>10. x.id = nest[t][Len(nest[t])]
    <3>1. /\ Len(stack[t]) = Len(nest[t])
          /\ \A i \in 1 .. Len(stack[t]) : stack[t][i].id = nest[t][i]
      BY <2>5 DEF Nesting, Follows, End
    <3> QED BY <2>9, <3>1
  <2>11. Last(nest[t]) = nest[t][Len(nest[t])]
    BY <2>1, <2>5, <2>6, Left DEF End
  <2> HIDE DEF x
  <2>12. r.id = x.id
    BY <2>9 DEF Events
  <2> HIDE DEF r
  <2>13. e = r
    BY <2>7 DEF Emit
  <2> QED BY <2>10, <2>11, <2>12, <2>13
<1> QED BY <1>1, NestingInvariance, PTL DEF EndClosesLastZone, Spec
==============================================================================
