--------------------------- MODULE EventDrainProofs ---------------------------
(***************************************************************************)
(* Theorems about EventDrain, for every set of threads, both capacities,   *)
(* every size of the write buffer and every threshold below it.            *)
(*                                                                         *)
(* Both rings keep their windows (EventWindow, StringWindow), because      *)
(* readfront lags front by the threads that are about to publish.  What    *)
(* the file and the buffer hold is said element by element (EventsFiled,   *)
(* StringsFiled), which gives WrittenInOrder.  That nothing is lost rests  *)
(* on what the drain thread has seen by when it is at a place (Drained).   *)
(***************************************************************************)
EXTENDS EventDrain, FiniteSetTheorems, SequenceTheorems, TLAPS

EventIndex  == INSTANCE RingIndexProofs WITH Capacity <- EventCapacity
StringIndex == INSTANCE RingIndexProofs WITH Capacity <- StringCapacity

\* The threads between a compare-and-swap and the fetch_add on readfront.
Holding(l) == {t \in Threads : pc[t] = l}

\* The tickets of a ring that is n publications behind.
Window(q, capacity, n) ==
  /\ q.back <= q.readfront /\ q.front < q.back + capacity
  /\ q.front = q.readfront + n

EventWindow  == Window(contextQueue, EventCapacity, Cardinality(Holding("publish")))
StringWindow == Window(stringQueue, StringCapacity, Cardinality(Holding("string")))

\* When runThread is cleared, nobody is in a call, and nobody calls again.
ShutdownIsLast ==
  /\ runThread <=> session = "open"
  /\ session # "open" => \A t \in Threads : pc[t] = "idle"
  /\ last => session # "open" /\ dpc \in {"write", "flushstrings", "done"}
  /\ dpc = "done" => last
  /\ session = "closed" => dpc = "done"
  /\ closeFailed => session = "closed"

\* The file has what was dequeued from the first event on, the buffer goes on
\* from where the file was when Flush began, and a part of an event is ahead of
\* the whole.  While no ticket has been overtaken, its event is what its dequeue
\* returned.
EventsFiled ==
  /\ Len(taken) = contextQueue.back
  /\ \A i \in 1 .. Len(writeBuffer) :
       writeBuffer[i] = taken[Len(taken) - Len(writeBuffer) + i]
  /\ ~ closeFailed =>
       /\ Len(outputFile) + Len(writeBuffer) - written = Len(taken)
       /\ \A i \in 1 .. Len(outputFile) : outputFile[i] = taken[i]
       /\ \A g \in fragments : g.before < Len(taken) /\ g.of = taken[g.before + 1]
  /\ ~ contextQueue.overtaken => \A i \in 1 .. Len(taken) : taken[i] = i - 1

\* Likewise the strings, but for the one that may have been cut short.
StringsFiled ==
  ~ stringCut /\ ~ closeFailed /\ ~ stringQueue.overtaken =>
    /\ Len(stringFile) = stringQueue.back
    /\ \A i \in 1 .. Len(stringFile) : stringFile[i] = i - 1

\* How full the buffer may be where the drain thread is.
Buffering ==
  /\ dpc # "copy" => want = 0
  /\ dpc # "write" => written = 0 /\ Len(writeBuffer) < Threshold
  /\ written <= Len(writeBuffer)
  /\ Len(writeBuffer) + want <= WriteBufferSize
  /\ contextQueue.back + want <= contextQueue.readfront
  /\ dpc \in {"flushstrings", "done"} => writeBuffer = <<>>

\* Past the last look at the event ring that counts there is nothing in it, and
\* past the last string there is none.
Drained ==
  /\ session # "open" /\ ~ late /\ (PastLastCheck \/ last) =>
       contextQueue.back = contextQueue.front
  /\ dpc = "done" => stringQueue.back = stringQueue.front

\* The inductive invariant.
IInv == /\ TypeOK /\ EventWindow /\ StringWindow /\ ShutdownIsLast
        /\ EventsFiled /\ StringsFiled /\ Buffering /\ Drained

------------------------------------------------------------------------------
(* The two rings *)

\* What the window says of Empty and of the check for room in TryEnqueue
\* (lockless_ring.h:71, :32), for the event ring ...
LEMMA EventRingComparisons ==
  ASSUME NEW a \in Nat, NEW b \in Nat, a <= b, b < a + EventCapacity
  PROVE  /\ EventRing!modcap_eq(b, a) <=> a = b
         /\ ~ EventRing!modcap_eq(b + 1, a) => b + 1 < a + EventCapacity
<1> USE RingsAssumption DEF EventRing!modcap_eq, EventRing!modcap,
                            EventIndex!modcap_eq, EventIndex!modcap
<1>1. EventRing!modcap_eq(b, a) <=> a = b
  BY EventIndex!ModEqual
<1>2. ~ EventRing!modcap_eq(b + 1, a) => b + 1 < a + EventCapacity
  BY EventIndex!NextFull
<1> QED BY <1>1, <1>2

\* ... and for the string ring.
LEMMA StringRingComparisons ==
  ASSUME NEW a \in Nat, NEW b \in Nat, a <= b, b < a + StringCapacity
  PROVE  /\ StringRing!modcap_eq(b, a) <=> a = b
         /\ ~ StringRing!modcap_eq(b + 1, a) => b + 1 < a + StringCapacity
<1> USE RingsAssumption DEF StringRing!modcap_eq, StringRing!modcap,
                            StringIndex!modcap_eq, StringIndex!modcap
<1>1. StringRing!modcap_eq(b, a) <=> a = b
  BY StringIndex!ModEqual
<1>2. ~ StringRing!modcap_eq(b + 1, a) => b + 1 < a + StringCapacity
  BY StringIndex!NextFull
<1> QED BY <1>1, <1>2

\* The block Drain asks for is no longer than its room and than what is
\* published (lockless_ring.h:105).
LEMMA EventBlock ==
  ASSUME NEW a \in Nat, NEW b \in Nat, b <= a, a < b + EventCapacity,
         NEW room \in Nat \ {0}
  PROVE  LET n == EventRing!BlockCopySize(EventRing!modcap(a), EventRing!modcap(b), room)
         IN  n \in Nat /\ n <= room /\ b + n <= a
<1> DEFINE n == EventRing!BlockCopySize(EventRing!modcap(a), EventRing!modcap(b), room)
<1>1. n = EventIndex!BlockCopySize(EventIndex!modcap(a), EventIndex!modcap(b), room)
  BY DEF EventRing!BlockCopySize, EventRing!modcap, EventIndex!BlockCopySize,
         EventIndex!modcap
<1>2. CASE b < a
  <2>1. LET m == EventIndex!BlockCopySize(EventIndex!modcap(a), EventIndex!modcap(b), room)
        IN  m \in Nat \ {0} /\ m <= room /\ b + m <= a
    BY <1>2, EventIndex!BlockInRing, RingsAssumption
  <2> QED BY <1>1, <2>1
<1>3. CASE a = b
  <2>1. a % EventCapacity \in Nat
    BY RingsAssumption
  <2>2. n = 0
    BY <1>3, <2>1 DEF EventRing!BlockCopySize, EventRing!modcap
  <2> QED BY <1>3, <2>2
<1> QED BY <1>2, <1>3

\* A ring's record, and what moving one counter does to it.
LEMMA Counting ==
  ASSUME NEW q \in Rings, NEW n \in Nat
  PROVE  /\ q.front \in Nat /\ q.readfront \in Nat /\ q.back \in Nat
         /\ [q EXCEPT !.front = @ + 1] =
              [front |-> q.front + 1, readfront |-> q.readfront, back |-> q.back,
               overtaken |-> q.overtaken]
         /\ \E o \in BOOLEAN :
              /\ q.overtaken => o
              /\ Publish(q, n) =
                   [front |-> q.front, readfront |-> q.readfront + 1, back |-> q.back,
                    overtaken |-> o]
         /\ [q EXCEPT !.back = @ + n] =
              [front |-> q.front, readfront |-> q.readfront, back |-> q.back + n,
               overtaken |-> q.overtaken]
<1>1. PICK a \in Nat, b \in Nat, c \in Nat, o \in BOOLEAN :
        q = [front |-> a, readfront |-> b, back |-> c, overtaken |-> o]
  BY DEF Rings
<1>2. q.front = a /\ q.readfront = b /\ q.back = c /\ q.overtaken = o
  BY <1>1
<1>v. PICK v \in BOOLEAN : v = (o \/ n # b)
  OBVIOUS
<1>3. /\ [q EXCEPT !.front = @ + 1] =
           [front |-> a + 1, readfront |-> b, back |-> c, overtaken |-> o]
      /\ [q EXCEPT !.back = @ + n] =
           [front |-> a, readfront |-> b, back |-> c + n, overtaken |-> o]
      /\ Publish(q, n) =
           [front |-> a, readfront |-> b + 1, back |-> c, overtaken |-> v]
  <2>2. [q EXCEPT !.front = @ + 1] = [front |-> a + 1, readfront |-> b, back |-> c, overtaken |-> o]
    BY <1>1
  <2>3. [q EXCEPT !.back = @ + n] = [front |-> a, readfront |-> b, back |-> c + n, overtaken |-> o]
    BY <1>1
  <2>4. PICK r : r = [q EXCEPT !.readfront = b + 1]
    OBVIOUS
  <2>5. Publish(q, n) = [r EXCEPT !.overtaken = v]
    BY <1>2, <1>v, <2>4, Zenon DEF Publish
  <2>6. r = [front |-> a, readfront |-> b + 1, back |-> c, overtaken |-> o]
    BY <1>1, <2>4
  <2>7. [r EXCEPT !.overtaken = v] = [front |-> a, readfront |-> b + 1, back |-> c, overtaken |-> v]
    BY <2>6
  <2> QED BY <2>2, <2>3, <2>5, <2>7
<1> QED BY <1>2, <1>3, <1>v

\* Who holds a ticket when a thread goes to another place.
LEMMA Moves ==
  ASSUME TypeOK, NEW t \in Threads, NEW to, pc' = [pc EXCEPT ![t] = to], NEW l
  PROVE  /\ Cardinality(Holding(l)) \in Nat
         /\ Cardinality(Holding(l)') =
              Cardinality(Holding(l)) + (IF to = l THEN 1 ELSE 0)
                                      - (IF pc[t] = l THEN 1 ELSE 0)
<1>1. IsFiniteSet(Holding(l)) /\ Cardinality(Holding(l)) \in Nat
  BY ThreadsAssumption, FS_Subset, FS_CardinalityType DEF Holding
<1>2. CASE pc[t] = l /\ to # l
  <2>1. Holding(l)' = Holding(l) \ {t} /\ t \in Holding(l)
    BY <1>2 DEF Holding, TypeOK
  <2> QED BY <1>1, <1>2, <2>1, FS_RemoveElement
<1>3. CASE pc[t] # l /\ to = l
  <2>1. Holding(l)' = Holding(l) \cup {t} /\ t \notin Holding(l)
    BY <1>3 DEF Holding, TypeOK
  <2> QED BY <1>1, <1>3, <2>1, FS_AddElement
<1>4. CASE pc[t] = l <=> to = l
  <2>1. Holding(l)' = Holding(l)
    BY <1>4 DEF Holding, TypeOK
  <2> QED BY <1>1, <1>4, <2>1
<1> QED BY <1>1, <1>2, <1>3, <1>4

------------------------------------------------------------------------------
(* Invariance *)

\* After esp_init the invariant holds.
LEMMA Initially == Init => IInv
<1> SUFFICES ASSUME Init PROVE IInv
  OBVIOUS
<1> USE ThreadsAssumption, RingsAssumption, WriterAssumption DEF Init, NewRing
<1>1. TypeOK
  BY EmptySeq DEF TypeOK, Rings, Labels, Elements
<1>2. Cardinality(Holding("publish")) = 0 /\ Cardinality(Holding("string")) = 0
  <2>1. Holding("publish") = {} /\ Holding("string") = {}
    BY DEF Holding
  <2> QED BY <2>1, FS_EmptySet
<1>3. EventWindow /\ StringWindow
  BY <1>2 DEF EventWindow, StringWindow, Window
<1>4. ShutdownIsLast /\ EventsFiled /\ StringsFiled /\ Buffering /\ Drained
  BY DEF ShutdownIsLast, EventsFiled, StringsFiled, Buffering, Drained, PastLastCheck
<1> QED BY <1>1, <1>3, <1>4 DEF IInv

\* A call moves front and readfront; all that follows for the drain side is that
\* readfront does not go back, and a ring that was overtaken stays so.
LEMMA CallKeeps ==
  ASSUME IInv, TypeOK', EventWindow', StringWindow', UNCHANGED <<main, drain>>,
         session = "open",
         contextQueue'.back = contextQueue.back, stringQueue'.back = stringQueue.back,
         contextQueue'.readfront >= contextQueue.readfront,
         contextQueue.overtaken => contextQueue'.overtaken,
         stringQueue.overtaken => stringQueue'.overtaken
  PROVE  IInv'
<1> USE DEF IInv, main, drain, writer, buffer, file, queues
<1>1. ShutdownIsLast'
  BY DEF ShutdownIsLast
<1>2. EventsFiled'
  BY DEF EventsFiled
<1>3. StringsFiled'
  BY DEF StringsFiled
<1>4. Buffering'
  BY DEF Buffering, TypeOK, Rings
<1>5. Drained'
  BY DEF Drained, PastLastCheck, ShutdownIsLast
<1> QED BY <1>1, <1>2, <1>3, <1>4, <1>5

\* Every step of an instrumented thread preserves the invariant.
LEMMA CallStep ==
  ASSUME IInv, NEW t \in Threads, Call(t)
  PROVE  IInv'
<1> USE RingsAssumption DEF IInv, Goto
<1>0. /\ contextQueue \in Rings /\ stringQueue \in Rings
      /\ pc \in [Threads -> {"idle", "string", "event", "publish"}]
      /\ ticket \in [Threads -> Nat]
      /\ session # "open" => \A u \in Threads : pc[u] = "idle"
  BY DEF TypeOK, ShutdownIsLast
<1> DEFINE e == Cardinality(Holding("publish"))
           s == Cardinality(Holding("string"))
           GoesTo(l) ==
             /\ pc' = [pc EXCEPT ![t] = l]
             /\ e' = e + (IF l = "publish" THEN 1 ELSE 0)
                       - (IF pc[t] = "publish" THEN 1 ELSE 0)
             /\ s' = s + (IF l = "string" THEN 1 ELSE 0)
                       - (IF pc[t] = "string" THEN 1 ELSE 0)
             /\ e \in Nat /\ s \in Nat
             /\ UNCHANGED <<main, drain>>
             /\ ticket' \in [Threads -> Nat]
<1>a. ASSUME NEW l, pc' = [pc EXCEPT ![t] = l], UNCHANGED <<main, drain>>,
             ticket' \in [Threads -> Nat]
      PROVE  GoesTo(l)
  BY <1>a, Moves
<1>b. Window(contextQueue, EventCapacity, e) /\ Window(stringQueue, StringCapacity, s)
  BY DEF EventWindow, StringWindow
<1>c. ASSUME NEW l \in {"idle", "string", "event", "publish"}, GoesTo(l),
             contextQueue' \in Rings, stringQueue' \in Rings,
             contextQueue'.back = contextQueue.back, stringQueue'.back = stringQueue.back,
             contextQueue'.readfront >= contextQueue.readfront,
             contextQueue.overtaken => contextQueue'.overtaken,
             stringQueue.overtaken => stringQueue'.overtaken,
             Window(contextQueue', EventCapacity, e'),
             Window(stringQueue', StringCapacity, s'),
             session = "open" \/ pc[t] # "idle"
      PROVE  IInv'
  <2>1. TypeOK'
    BY <1>0, <1>c DEF TypeOK, main, drain, writer, buffer, file
  <2>2. session = "open"
    BY <1>0, <1>c
  <2>3. EventWindow' /\ StringWindow'
    BY <1>c DEF EventWindow, StringWindow
  <2> HIDE DEF e, s
  <2> QED BY <1>c, <2>1, <2>2, <2>3, CallKeeps
<1> HIDE DEF e, s
<1>1. CASE ClaimString(t)
  <2>0. ticket' \in [Threads -> Nat]
    BY <1>0, <1>1, Counting DEF ClaimString
  <2>1. /\ GoesTo("string") /\ contextQueue' = contextQueue
        /\ pc[t] = "idle" /\ session = "open" /\ ~ StringsFull
    BY <1>1, <1>a, <2>0 DEF ClaimString
  <2>2. stringQueue' = [front |-> stringQueue.front + 1,
                        readfront |-> stringQueue.readfront, back |-> stringQueue.back,
                        overtaken |-> stringQueue.overtaken]
    BY <1>0, <1>1, Counting, Zenon DEF ClaimString
  <2>3. stringQueue.front + 1 < stringQueue.back + StringCapacity
    BY <1>0, <1>b, <2>1, StringRingComparisons DEF StringsFull, Window, Rings
  <2> QED BY <1>0, <1>b, <1>c, <2>1, <2>2, <2>3 DEF Window, Rings
<1>2. CASE DropString(t)
  <2>1. /\ GoesTo("event") /\ pc[t] = "idle" /\ session = "open"
        /\ contextQueue' = contextQueue /\ stringQueue' = stringQueue
    BY <1>0, <1>2, <1>a DEF DropString, queues
  <2> QED BY <1>0, <1>b, <1>c, <2>1 DEF Window, Rings
<1>3. CASE PublishString(t)
  <2>0. ticket' \in [Threads -> Nat]
    BY <1>0, <1>3 DEF PublishString
  <2>1. GoesTo("event") /\ pc[t] = "string" /\ contextQueue' = contextQueue
    BY <1>3, <1>a, <2>0 DEF PublishString
  <2>2. PICK o \in BOOLEAN :
          /\ stringQueue.overtaken => o
          /\ stringQueue' = [front |-> stringQueue.front,
                             readfront |-> stringQueue.readfront + 1,
                             back |-> stringQueue.back, overtaken |-> o]
    BY <1>0, <1>3, Counting DEF PublishString
  <2> QED BY <1>0, <1>b, <1>c, <2>1, <2>2 DEF Window, Rings
<1>4. CASE ClaimEvent(t)
  <2>0. ticket' \in [Threads -> Nat]
    BY <1>0, <1>4, Counting DEF ClaimEvent
  <2>1. /\ GoesTo("publish") /\ stringQueue' = stringQueue
        /\ pc[t] \in {"idle", "event"} /\ session = "open" /\ ~ EventsFull
    BY <1>4, <1>a, <2>0 DEF ClaimEvent
  <2>2. contextQueue' = [front |-> contextQueue.front + 1,
                         readfront |-> contextQueue.readfront, back |-> contextQueue.back,
                         overtaken |-> contextQueue.overtaken]
    BY <1>0, <1>4, Counting, Zenon DEF ClaimEvent
  <2>3. contextQueue.front + 1 < contextQueue.back + EventCapacity
    BY <1>0, <1>b, <2>1, EventRingComparisons DEF EventsFull, Window, Rings
  <2> QED BY <1>0, <1>b, <1>c, <2>1, <2>2, <2>3 DEF Window, Rings
<1>5. CASE DropEvent(t)
  <2>1. /\ GoesTo("idle") /\ pc[t] = "event"
        /\ contextQueue' = contextQueue /\ stringQueue' = stringQueue
    BY <1>0, <1>5, <1>a DEF DropEvent, queues
  <2> QED BY <1>0, <1>b, <1>c, <2>1 DEF Window, Rings
<1>6. CASE PublishEvent(t)
  <2>0. ticket' \in [Threads -> Nat]
    BY <1>0, <1>6 DEF PublishEvent
  <2>1. GoesTo("idle") /\ pc[t] = "publish" /\ stringQueue' = stringQueue
    BY <1>6, <1>a, <2>0 DEF PublishEvent
  <2>2. PICK o \in BOOLEAN :
          /\ contextQueue.overtaken => o
          /\ contextQueue' = [front |-> contextQueue.front,
                              readfront |-> contextQueue.readfront + 1,
                              back |-> contextQueue.back, overtaken |-> o]
    BY <1>0, <1>6, Counting DEF PublishEvent
  <2> QED BY <1>0, <1>b, <1>c, <2>1, <2>2 DEF Window, Rings
<1> QED BY <1>1, <1>2, <1>3, <1>4, <1>5, <1>6 DEF Call

\* esp_shutdown preserves the invariant, whatever becomes of the file.
LEMMA ShutdownStep ==
  ASSUME IInv, Shutdown \/ CloseFile \/ CloseFileFails
  PROVE  IInv'
<1> USE DEF IInv, queues, caller, drain, writer, buffer, file
<1>1. CASE Shutdown
  BY <1>1 DEF Shutdown, TypeOK, EventWindow, StringWindow, Holding, ShutdownIsLast,
       EventsFiled, StringsFiled, Buffering, Drained, PastLastCheck
<1>2. CASE CloseFile
  BY <1>2 DEF CloseFile, TypeOK, EventWindow, StringWindow, Holding, ShutdownIsLast,
       EventsFiled, StringsFiled, Buffering, Drained, PastLastCheck
<1>3. CASE CloseFileFails
  <2>1. outputFile' \in Seq(Elements) /\ stringFile' \in Seq(Elements)
    BY <1>3 DEF CloseFileFails, TypeOK
  <2>2. fragments' \subseteq fragments
    BY <1>3 DEF CloseFileFails
  <2>3. TypeOK'
    BY <1>3, <2>1, <2>2 DEF CloseFileFails, TypeOK
  <2> QED BY <1>3, <2>3 DEF CloseFileFails, EventWindow, StringWindow, Holding, ShutdownIsLast,
         EventsFiled, StringsFiled, Buffering, Drained, PastLastCheck
<1> QED BY <1>1, <1>2, <1>3

\* A step of the drain thread keeps the windows of rings it does not touch.
LEMMA WindowsKept ==
  ASSUME UNCHANGED pc
  PROVE  /\ EventWindow /\ UNCHANGED contextQueue => EventWindow'
         /\ StringWindow /\ UNCHANGED stringQueue => StringWindow'
BY DEF EventWindow, StringWindow, Holding

\* s is head and then tail, element by element.
Joins(s, head, tail) ==
  /\ s \in Seq(Elements) /\ Len(s) = Len(head) + Len(tail)
  /\ \A i \in 1 .. Len(head) : s[i] = head[i]
  /\ \A j \in 1 .. Len(tail) : s[Len(head) + j] = tail[j]
  /\ \A i \in 1 .. Len(s) : i \in 1 .. Len(head) \/ \E j \in 1 .. Len(tail) : i = Len(head) + j

\* Two sequences put together.
LEMMA Appended ==
  ASSUME NEW head \in Seq(Elements), NEW tail \in Seq(Elements)
  PROVE  Joins(head \o tail, head, tail)
<1>1. PICK h, n : h = Len(head) /\ n = Len(tail)
  OBVIOUS
<1>2. /\ head \o tail \in Seq(Elements) /\ Len(head \o tail) = h + n /\ h \in Nat /\ n \in Nat
      /\ \A i \in 1 .. h + n : (head \o tail)[i] = IF i <= h THEN head[i] ELSE tail[i - h]
  BY <1>1, ConcatProperties, LenProperties
<1>3. ASSUME NEW i \in 1 .. h PROVE (head \o tail)[i] = head[i]
  <2>1. i \in 1 .. h + n /\ i <= h
    BY <1>2
  <2> QED BY <1>2, <2>1
<1>4. ASSUME NEW j \in 1 .. n PROVE (head \o tail)[h + j] = tail[j]
  <2>1. h + j \in 1 .. h + n /\ ~ (h + j <= h) /\ (h + j) - h = j
    BY <1>2
  <2> QED BY <1>2, <2>1
<1>5. ASSUME NEW i \in 1 .. h + n, i \notin 1 .. h
      PROVE  \E j \in 1 .. n : i = h + j
  <2>1. i - h \in 1 .. n /\ i = h + (i - h)
    BY <1>2, <1>5
  <2> QED BY <2>1
<1> QED BY <1>1, <1>2, <1>3, <1>4, <1>5 DEF Joins

\* What the writer keeps, where it is at work: the file is not closed yet.
LEMMA AtWork ==
  ASSUME IInv, dpc # "done"
  PROVE  /\ ~ closeFailed
         /\ contextQueue \in Rings /\ contextQueue.front \in Nat
         /\ contextQueue.readfront \in Nat /\ contextQueue.back \in Nat
         /\ writeBuffer \in Seq(Elements) /\ outputFile \in Seq(Elements)
         /\ taken \in Seq(Elements) /\ want \in Nat /\ written \in Nat
         /\ Len(writeBuffer) \in Nat /\ Len(outputFile) \in Nat
         /\ Len(taken) = contextQueue.back
         /\ Len(outputFile) + Len(writeBuffer) - written = Len(taken)
         /\ written <= Len(writeBuffer)
         /\ \A i \in 1 .. Len(outputFile) : outputFile[i] = taken[i]
         /\ \A i \in 1 .. Len(writeBuffer) :
              writeBuffer[i] = taken[Len(taken) - Len(writeBuffer) + i]
         /\ \A g \in fragments : /\ g \in [before : Nat, of : Elements]
                                 /\ g.before < Len(taken) /\ g.of = taken[g.before + 1]
         /\ ~ contextQueue.overtaken => \A i \in 1 .. Len(taken) : taken[i] = i - 1
<1>1. ~ closeFailed
  BY DEF IInv, ShutdownIsLast
<1>2. /\ contextQueue \in Rings /\ fragments \subseteq [before : Nat, of : Elements]
      /\ writeBuffer \in Seq(Elements) /\ outputFile \in Seq(Elements)
      /\ taken \in Seq(Elements) /\ want \in Nat /\ written \in Nat
  BY DEF IInv, TypeOK
<1>3. contextQueue.front \in Nat /\ contextQueue.readfront \in Nat /\ contextQueue.back \in Nat
  BY <1>2 DEF Rings
<1>4. Len(writeBuffer) \in Nat /\ Len(outputFile) \in Nat
  BY <1>2
<1>5. written <= Len(writeBuffer)
  BY DEF IInv, Buffering
<1> QED BY <1>1, <1>2, <1>3, <1>4, <1>5 DEF IInv, EventsFiled

\* Drain's dequeue preserves the invariant (EventStreamIO.cpp:63).
LEMMA LoadStep ==
  ASSUME IInv, LoadCounters
  PROVE  IInv'
<1> USE RingsAssumption, WriterAssumption DEF IInv
<1>1. /\ dpc = "load" /\ dpc' = "copy"
      /\ UNCHANGED <<queues, caller, main, last, stillBusy, writeBuffer, written, taken, file>>
  BY DEF LoadCounters
<1>2. /\ contextQueue \in Rings /\ Len(writeBuffer) \in Nat
      /\ contextQueue.front \in Nat /\ contextQueue.readfront \in Nat /\ contextQueue.back \in Nat
  BY <1>1, AtWork
<1>3. WriteBufferSize - Len(writeBuffer) \in Nat \ {0}
  BY <1>1, <1>2 DEF Buffering
<1>4. /\ contextQueue.back <= contextQueue.readfront
      /\ contextQueue.readfront < contextQueue.back + EventCapacity
  <2>1. Cardinality(Holding("publish")) \in Nat
    BY ThreadsAssumption, FS_Subset, FS_CardinalityType DEF Holding
  <2> QED BY <1>2, <2>1 DEF EventWindow, Window
<1>5. /\ want' \in Nat /\ want' <= WriteBufferSize - Len(writeBuffer)
      /\ contextQueue.back + want' <= contextQueue.readfront
  BY <1>2, <1>3, <1>4, EventBlock DEF LoadCounters
<1>6. TypeOK'
  BY <1>1, <1>5 DEF TypeOK, queues, caller, main, file, Labels
<1>7. EventWindow' /\ StringWindow'
  BY <1>1, WindowsKept DEF queues, caller
<1>8. ShutdownIsLast' /\ EventsFiled' /\ StringsFiled' /\ Drained'
  BY <1>1 DEF ShutdownIsLast, EventsFiled, StringsFiled, Drained, PastLastCheck, queues,
              caller, main, file
<1>9. Buffering'
  BY <1>1, <1>2, <1>5 DEF Buffering, queues
<1> QED BY <1>6, <1>7, <1>8, <1>9

LEMMA CopyStep ==
  ASSUME IInv, CopyBlock
  PROVE  IInv'
<1>1. /\ dpc = "copy" /\ dpc' \in {"write", "strings"} /\ want' = 0
      /\ dpc' = "write" \/ ~ (Len(writeBuffer') >= Threshold)
      /\ writeBuffer' = writeBuffer \o Block /\ taken' = taken \o Block
      /\ UNCHANGED <<stringQueue, caller, main, last, stillBusy, written, file>>
  BY DEF CopyBlock
<1>2. PICK b, k, o, q, B, w, t, l :
        /\ q = contextQueue /\ b = q.back /\ k = want /\ o = q.overtaken /\ B = Block
        /\ w = writeBuffer /\ t = taken /\ l = Len(w)
  OBVIOUS
<1>t. /\ b \in Nat /\ k \in Nat /\ q \in Rings /\ o \in BOOLEAN
      /\ w \in Seq(Elements) /\ t \in Seq(Elements) /\ l \in Nat
  BY <1>1, <1>2, AtWork DEF Rings
<1>3. contextQueue' = [front |-> q.front, readfront |-> q.readfront, back |-> b + k,
                       overtaken |-> o]
  BY <1>2, <1>t, Counting DEF CopyBlock
<1>4. /\ B \in Seq(Elements) /\ Len(B) = k
      /\ \A j \in 1 .. k : ~ o => B[j] = b + j - 1
  <2>1. B = [i \in 1 .. k |-> IF o THEN Anything ELSE b + i - 1]
    BY <1>2 DEF Block, Element
  <2>2. \A i \in 1 .. k : (IF o THEN Anything ELSE b + i - 1) \in Elements
    BY <1>t DEF Elements
  <2> QED BY <1>t, <2>1, <2>2
<1>5. /\ w \o B \in Seq(Elements) /\ Len(w \o B) = l + k
      /\ \A i \in 1 .. l : (w \o B)[i] = w[i]
      /\ \A j \in 1 .. k : (w \o B)[l + j] = B[j]
      /\ \A i \in 1 .. l + k : i \in 1 .. l \/ \E j \in 1 .. k : i = l + j
  <2>1. Joins(w \o B, w, B)
    BY <1>4, <1>t, Appended, Zenon
  <2>2. Len(w) = l /\ Len(B) = k
    BY <1>2, <1>4
  <2> QED BY <2>1, <2>2 DEF Joins
<1>6. Len(t) = b
  BY <1>1, <1>2, AtWork
<1>7. /\ t \o B \in Seq(Elements) /\ Len(t \o B) = b + k
      /\ \A i \in 1 .. b : (t \o B)[i] = t[i]
      /\ \A j \in 1 .. k : (t \o B)[b + j] = B[j]
      /\ \A i \in 1 .. b + k : i \in 1 .. b \/ \E j \in 1 .. k : i = b + j
  <2>1. Joins(t \o B, t, B)
    BY <1>4, <1>t, Appended, Zenon
  <2> QED BY <1>4, <1>6, <2>1 DEF Joins
<1>8. writeBuffer' = w \o B /\ taken' = t \o B
  BY <1>1, <1>2
<1>9. written = 0 /\ l <= b /\ Len(outputFile) + l = b /\ Len(outputFile) \in Nat
  BY <1>1, <1>2, <1>6, <1>t, AtWork DEF IInv, Buffering
<1>10. TypeOK'
  <2>1. contextQueue' \in Rings
    BY <1>2, <1>3, <1>t DEF Rings
  <2> QED BY <1>1, <1>5, <1>7, <1>8, <2>1 DEF IInv, TypeOK, caller, main, file, Labels
<1>11. StringWindow'
  BY <1>1, WindowsKept DEF IInv, caller
<1>12. EventWindow'
  <2>1. Holding("publish")' = Holding("publish")
    BY <1>1 DEF Holding, caller
  <2>2. b + k <= q.readfront /\ q.front < b + EventCapacity
        /\ q.front = q.readfront + Cardinality(Holding("publish")) /\ q.front \in Nat
        /\ q.readfront \in Nat
    BY <1>2, <1>t DEF IInv, Buffering, EventWindow, Window, Rings
  <2>3. /\ contextQueue'.front = q.front /\ contextQueue'.readfront = q.readfront
        /\ contextQueue'.back = b + k
    BY <1>3
  <2>4. PICK c : c = Cardinality(Holding("publish"))
    OBVIOUS
  <2>5. Cardinality(Holding("publish")') = c
    BY <2>1, <2>4
  <2>6. b + k <= q.readfront /\ q.front < (b + k) + EventCapacity /\ q.front = q.readfront + c
    BY <1>t, <2>2, <2>4, RingsAssumption
  <2>7. Window(contextQueue', EventCapacity, c)
    BY <2>3, <2>6 DEF Window
  <2> QED BY <2>5, <2>7 DEF EventWindow, Window
<1>13. EventsFiled'
  <2>1. ASSUME NEW i \in 1 .. l + k PROVE (w \o B)[i] = (t \o B)[(b + k) - (l + k) + i]
    <3>1. CASE i \in 1 .. l
      <4>1. w[i] = t[b - l + i]
        BY <1>1, <1>2, <1>6, <3>1, AtWork
      <4>2. b - l + i \in 1 .. b /\ (b + k) - (l + k) + i = b - l + i
        BY <1>9, <1>t, <3>1
      <4> QED BY <1>5, <1>7, <3>1, <4>1, <4>2
    <3>2. ASSUME NEW j \in 1 .. k, i = l + j PROVE (w \o B)[i] = (t \o B)[(b + k) - (l + k) + i]
      <4>1. (b + k) - (l + k) + i = b + j
        BY <1>t, <3>2
      <4> QED BY <1>5, <1>7, <3>2, <4>1
    <3> QED BY <1>5, <3>1, <3>2
  <2>2. \A i \in 1 .. Len(outputFile) : outputFile[i] = (t \o B)[i]
    <3> TAKE i \in 1 .. Len(outputFile)
    <3>1. outputFile[i] = t[i] /\ i \in 1 .. b
      BY <1>1, <1>2, <1>9, <1>t, AtWork
    <3> QED BY <1>7, <3>1
  <2>3. \A g \in fragments : g.before < b + k /\ g.of = (t \o B)[g.before + 1]
    <3> TAKE g \in fragments
    <3>1. g.before \in Nat /\ g.before < b /\ g.of = t[g.before + 1]
      BY <1>1, <1>2, <1>6, AtWork
    <3>2. g.before + 1 \in 1 .. b /\ g.before < b + k
      BY <1>t, <3>1
    <3> QED BY <1>7, <3>1, <3>2
  <2>4. ~ o => \A i \in 1 .. b + k : (t \o B)[i] = i - 1
    <3> SUFFICES ASSUME ~ o, NEW i \in 1 .. b + k PROVE (t \o B)[i] = i - 1
      OBVIOUS
    <3>1. CASE i \in 1 .. b
      <4>1. t[i] = i - 1
        BY <1>1, <1>2, <1>6, <3>1, AtWork
      <4> QED BY <1>7, <3>1, <4>1
    <3>2. ASSUME NEW j \in 1 .. k, i = b + j PROVE (t \o B)[i] = i - 1
      <4>1. (t \o B)[i] = B[j] /\ B[j] = b + j - 1
        BY <1>4, <1>7, <3>2
      <4> QED BY <1>t, <3>2, <4>1
    <3> QED BY <1>7, <3>1, <3>2
  <2>5. Len(outputFile) + (l + k) - written = b + k
    BY <1>9, <1>t
  <2>6. UNCHANGED <<outputFile, fragments, written, closeFailed>>
    BY <1>1 DEF file, main
  <2> QED BY <1>3, <1>5, <1>7, <1>8, <2>1, <2>2, <2>3, <2>4, <2>5, <2>6 DEF IInv, EventsFiled
<1>14. Buffering'
  <2>1. l + k <= WriteBufferSize /\ b + k <= q.readfront
    BY <1>2, <1>t DEF IInv, Buffering
  <2>2. dpc' = "write" \/ Len(writeBuffer') < Threshold
    BY <1>1, <1>5, <1>8, <1>t, WriterAssumption
  <2>3. Len(writeBuffer') = l + k /\ written' = 0
    BY <1>1, <1>5, <1>8, <1>9, <1>t
  <2>4. contextQueue'.readfront = q.readfront /\ contextQueue'.back = b + k
    BY <1>3
  <2>5. PICK u \in Nat, v \in Nat : u = b + k /\ v = l + k
    BY <1>t
  <2>6. /\ u + 0 <= contextQueue'.readfront /\ v + 0 <= WriteBufferSize /\ 0 <= v
        /\ contextQueue'.back = u /\ Len(writeBuffer') = v
    BY <1>t, <2>1, <2>3, <2>4, <2>5 DEF Rings
  <2> QED BY <1>1, <2>2, <2>3, <2>6 DEF Buffering
<1>15. ShutdownIsLast' /\ Drained' /\ StringsFiled'
  BY <1>1 DEF IInv, ShutdownIsLast, Drained, StringsFiled, PastLastCheck, caller, main, file
<1> QED BY <1>10, <1>11, <1>12, <1>13, <1>14, <1>15 DEF IInv

\* A turn of Flush's loop preserves the invariant, whatever fwrite accepts
\* (EventStreamIO.cpp:49).
LEMMA FwriteStep ==
  ASSUME IInv, NEW n \in 0 .. WriteBufferSize, Fwrite(n)
  PROVE  IInv'
<1>1. /\ dpc = "write" /\ n <= Len(writeBuffer) - written
      /\ outputFile' = outputFile \o SubSeq(writeBuffer, written + 1, written + n)
      /\ UNCHANGED <<queues, caller, main, last, stillBusy, want, taken, stringFile, stringCut>>
  BY DEF Fwrite
<1>2. PICK f \in Seq(Elements), w \in Seq(Elements), t \in Seq(Elements), d \in Nat :
        f = outputFile /\ w = writeBuffer /\ t = taken /\ d = written
  BY <1>1, AtWork
<1>l. PICK l \in Nat, m \in Nat : l = Len(w) /\ m = Len(f)
  OBVIOUS
<1>3. n \in Nat /\ d + n <= l /\ Len(t) = m + l - d /\ d <= l /\ want = 0
  BY <1>1, <1>2, <1>l, AtWork DEF IInv, Buffering
<1>4. PICK P : P = SubSeq(w, d + 1, d + n)
  OBVIOUS
<1>5. P \in Seq(Elements) /\ Len(P) = n /\ \A j \in 1 .. n : P[j] = w[d + j]
  BY <1>2, <1>l, <1>3, <1>4
<1>6. /\ f \o P \in Seq(Elements) /\ Len(f \o P) = m + n
      /\ \A i \in 1 .. m : (f \o P)[i] = f[i]
      /\ \A j \in 1 .. n : (f \o P)[m + j] = P[j]
      /\ \A i \in 1 .. m + n : i \in 1 .. m \/ \E j \in 1 .. n : i = m + j
  <2>1. Joins(f \o P, f, P)
    BY <1>2, <1>5, Appended, Zenon
  <2> QED BY <1>5, <1>l, <2>1 DEF Joins
<1>7. outputFile' = f \o P
  BY <1>1, <1>2, <1>l, <1>4
<1>8. /\ \A i \in 1 .. l : w[i] = t[Len(t) - l + i]
      /\ \A i \in 1 .. m : f[i] = t[i]
  BY <1>1, <1>2, <1>l, AtWork
<1>9. ASSUME NEW i \in 1 .. m + n PROVE (f \o P)[i] = t[i]
  <2>1. CASE i \in 1 .. m
    BY <1>6, <1>8, <2>1
  <2>2. ASSUME NEW j \in 1 .. n, i = m + j PROVE (f \o P)[i] = t[i]
    <3>1. d + j \in 1 .. l /\ Len(t) - l + (d + j) = m + j
      BY <1>3
    <3>2. w[d + j] = t[Len(t) - l + (d + j)]
      BY <1>8, <3>1
    <3> QED BY <1>5, <1>6, <2>2, <3>1, <3>2
  <2> QED BY <1>6, <2>1, <2>2
<1>10. /\ fragments' \subseteq [before : Nat, of : Elements]
       /\ \A g \in fragments' : g.before < Len(t) /\ g.of = t[g.before + 1]
  <2>1. /\ fragments \subseteq [before : Nat, of : Elements]
        /\ \A g \in fragments : g.before < Len(t) /\ g.of = t[g.before + 1]
    BY <1>1, <1>2, <1>l, AtWork
  <2>2. CASE fragments' = fragments
    BY <2>1, <2>2
  <2>3. CASE fragments' # fragments
    <3>1. d + n < l
      BY <1>2, <1>l, <2>3 DEF Fwrite
    <3>2. fragments' = fragments \cup {[before |-> m + n, of |-> w[d + n + 1]]}
      BY <1>2, <1>l, <2>3, <3>1 DEF Fwrite, MoreFragments
    <3>3. d + n + 1 \in 1 .. l /\ Len(t) - l + (d + n + 1) = (m + n) + 1 /\ m + n < Len(t)
      BY <1>3, <3>1
    <3>4. w[d + n + 1] = t[(m + n) + 1] /\ w[d + n + 1] \in Elements
      BY <1>2, <1>l, <1>8, <3>3
    <3>5. PICK g : g = [before |-> m + n, of |-> w[d + n + 1]]
      OBVIOUS
    <3>6. g \in [before : Nat, of : Elements] /\ g.before < Len(t) /\ g.of = t[g.before + 1]
      BY <3>3, <3>4, <3>5
    <3> QED BY <2>1, <3>2, <3>5, <3>6
  <2> QED BY <2>2, <2>3
<1>11. EventWindow' /\ StringWindow'
  BY <1>1, WindowsKept DEF IInv, queues, caller
<1>12. CASE d + n < l
  <2>1. written' = d + n /\ UNCHANGED <<dpc, writeBuffer>>
    BY <1>2, <1>l, <1>12 DEF Fwrite
  <2>2. TypeOK'
    <3>1. written' \in Nat /\ outputFile' \in Seq(Elements)
      BY <1>2, <1>3, <1>6, <1>7, <2>1
    <3> QED BY <1>1, <1>10, <2>1, <3>1 DEF IInv, TypeOK, queues, caller, main
  <2>3. EventsFiled'
    <3>1. (m + n) + l - (d + n) = Len(t)
      BY <1>3
    <3>2. /\ Len(taken') = contextQueue'.back /\ Len(writeBuffer') = l /\ Len(taken') = Len(t)
          /\ Len(outputFile') = m + n /\ written' = d + n
          /\ ~ contextQueue'.overtaken => \A i \in 1 .. Len(taken') : taken'[i] = i - 1
          /\ writeBuffer' = w /\ taken' = t /\ outputFile' = f \o P
      BY <1>1, <1>2, <1>l, <1>6, <1>7, <2>1, AtWork DEF queues
    <3>3. \A i \in 1 .. Len(writeBuffer') : writeBuffer'[i] = taken'[Len(taken') - Len(writeBuffer') + i]
      BY <1>8, <3>2
    <3>4. Len(outputFile') + Len(writeBuffer') - written' = Len(taken')
      BY <3>1, <3>2
    <3>5. \A i \in 1 .. Len(outputFile') : outputFile'[i] = taken'[i]
      BY <1>9, <3>2
    <3>6. \A g \in fragments' : g.before < Len(taken') /\ g.of = taken'[g.before + 1]
      BY <1>10, <3>2
    <3> QED BY <3>2, <3>3, <3>4, <3>5, <3>6, Zenon DEF EventsFiled
  <2>4. Buffering'
    <3>1. /\ d + n \in Nat /\ written' = d + n /\ Len(writeBuffer') = l /\ want' = 0 /\ dpc' = "write"
          /\ contextQueue' = contextQueue /\ want = 0 /\ Len(writeBuffer) = l
      BY <1>1, <1>2, <1>l, <1>3, <2>1 DEF queues
    <3>2. PICK e \in Nat : e = d + n
      BY <1>3
    <3>3. written' = e /\ e <= l /\ l <= WriteBufferSize /\ l + 0 <= WriteBufferSize
      BY <1>12, <3>1, <3>2, WriterAssumption DEF IInv, Buffering
    <3> QED BY <3>1, <3>3 DEF IInv, Buffering
  <2>5. ShutdownIsLast' /\ Drained' /\ StringsFiled'
    BY <1>1, <2>1 DEF IInv, ShutdownIsLast, Drained, StringsFiled, PastLastCheck, caller, main, queues
  <2> QED BY <1>11, <2>2, <2>3, <2>4, <2>5 DEF IInv
<1>13. CASE ~ (d + n < l)
  <2>1. written' = 0 /\ dpc' = "flushstrings" /\ writeBuffer' = <<>>
    BY <1>2, <1>l, <1>13 DEF Fwrite
  <2>2. Len(writeBuffer') = 0 /\ writeBuffer' \in Seq(Elements)
    BY <2>1, EmptySeq
  <2>3. TypeOK'
    BY <1>1, <1>6, <1>7, <1>10, <2>1, <2>2 DEF IInv, TypeOK, queues, caller, main, Labels
  <2>4. EventsFiled'
    <3>1. (m + n) + 0 - 0 = Len(t)
      BY <1>3, <1>13
    <3>2. /\ Len(taken') = contextQueue'.back /\ Len(writeBuffer') = 0 /\ Len(taken') = Len(t)
          /\ Len(outputFile') = m + n /\ written' = 0
          /\ ~ contextQueue'.overtaken => \A i \in 1 .. Len(taken') : taken'[i] = i - 1
          /\ taken' = t /\ outputFile' = f \o P
      BY <1>1, <1>2, <1>l, <1>6, <1>7, <2>1, <2>2, AtWork DEF queues
    <3>3. \A i \in 1 .. Len(writeBuffer') : writeBuffer'[i] = taken'[Len(taken') - Len(writeBuffer') + i]
      BY <3>2
    <3>4. Len(outputFile') + Len(writeBuffer') - written' = Len(taken')
      BY <3>1, <3>2
    <3>5. \A i \in 1 .. Len(outputFile') : outputFile'[i] = taken'[i]
      BY <1>9, <3>2
    <3>6. \A g \in fragments' : g.before < Len(taken') /\ g.of = taken'[g.before + 1]
      BY <1>10, <3>2
    <3> QED BY <3>2, <3>3, <3>4, <3>5, <3>6, Zenon DEF EventsFiled
  <2>5. Buffering'
    <3>1. want' = 0 /\ contextQueue' = contextQueue /\ want = 0
      BY <1>1, <1>3 DEF queues
    <3> QED BY <2>1, <2>2, <3>1, WriterAssumption DEF IInv, Buffering
  <2>6. ShutdownIsLast' /\ Drained' /\ StringsFiled'
    BY <1>1, <2>1 DEF IInv, ShutdownIsLast, Drained, StringsFiled, PastLastCheck, caller, main, queues
  <2> QED BY <1>11, <2>3, <2>4, <2>5, <2>6 DEF IInv
<1> QED BY <1>3, <1>12, <1>13

\* The strings, and the looks at the queues (Comms.cpp:15, EventStreamIO.cpp:39, :71).
LEMMA LookStep ==
  ASSUME IInv, Loop \/ WriteString \/ StringsFlushed \/ CheckEvents \/ CheckStrings
  PROVE  IInv'
<1> USE RingsAssumption, WriterAssumption DEF IInv
<1>0. /\ contextQueue \in Rings /\ stringQueue \in Rings
      /\ contextQueue.back <= contextQueue.front
      /\ contextQueue.front < contextQueue.back + EventCapacity
      /\ stringQueue.back <= stringQueue.readfront
      /\ stringQueue.readfront < stringQueue.back + StringCapacity
      /\ session # "open" => stringQueue.readfront = stringQueue.front
  <2>1. /\ IsFiniteSet(Holding("publish")) /\ Cardinality(Holding("publish")) \in Nat
        /\ IsFiniteSet(Holding("string")) /\ Cardinality(Holding("string")) \in Nat
    BY ThreadsAssumption, FS_Subset, FS_CardinalityType DEF Holding
  <2>2. session # "open" => Cardinality(Holding("string")) = 0
    <3>1. session # "open" => Holding("string") = {}
      BY DEF Holding, ShutdownIsLast
    <3> QED BY <3>1, FS_EmptySet
  <2> QED BY <2>1, <2>2 DEF TypeOK, Rings, EventWindow, StringWindow, Window
<1> USE DEF queues, caller, main
<1>1. CASE Loop
  BY <1>1, WindowsKept DEF Loop, writer, buffer, file, TypeOK, Labels, ShutdownIsLast,
       EventsFiled, StringsFiled, Buffering, Drained, PastLastCheck
<1>2. CASE WriteString
  <2>1. /\ dpc \in {"flushstrings", "strings"}
        /\ UNCHANGED <<contextQueue, caller, main, dpc, last, stillBusy, buffer, outputFile, fragments>>
        /\ ~ StringRing!modcap_eq(stringQueue.readfront, stringQueue.back)
        /\ \/ /\ stringFile' = Append(stringFile, Element(stringQueue, stringQueue.back))
              /\ UNCHANGED stringCut
           \/ stringCut' = TRUE /\ UNCHANGED stringFile
    BY <1>2 DEF WriteString
  <2>2. stringQueue' = [front |-> stringQueue.front,
            readfront |-> stringQueue.readfront, back |-> stringQueue.back + 1,
            overtaken |-> stringQueue.overtaken]
    BY <1>0, <1>2, Counting, Zenon DEF WriteString
  <2>3. stringQueue.back + 1 <= stringQueue.readfront
    BY <1>0, <2>1, StringRingComparisons DEF Rings
  <2>4. StringWindow' /\ EventWindow'
    <3>1. Holding("string")' = Holding("string")
      BY <2>1 DEF Holding
    <3> QED BY <1>0, <2>1, <2>2, <2>3, <3>1, WindowsKept DEF StringWindow, Window, Rings
  <2>5. PICK sf \in Seq(Elements), k \in Nat, x \in Elements :
          /\ sf = stringFile /\ k = stringQueue.back /\ x = Element(stringQueue, k)
          /\ ~ stringQueue.overtaken => x = k
    BY <1>0 DEF TypeOK, Rings, Element, Elements
  <2>6. stringFile' \in Seq(Elements) /\ stringCut' \in BOOLEAN
    <3>1. stringCut \in BOOLEAN
      BY DEF TypeOK
    <3>2. stringCut' \in BOOLEAN
      BY <2>1, <3>1, Zenon
    <3>3. Append(sf, x) \in Seq(Elements)
      OBVIOUS
    <3>4. stringFile' = Append(sf, x) \/ stringFile' = sf
      BY <2>1, <2>5
    <3> QED BY <3>2, <3>3, <3>4
  <2>7. TypeOK'
    BY <1>0, <2>1, <2>2, <2>6 DEF TypeOK, buffer, Rings
  <2>8. StringsFiled'
    <3> SUFFICES ASSUME ~ stringCut', ~ closeFailed', ~ stringQueue'.overtaken
                 PROVE  /\ Len(stringFile') = stringQueue'.back
                        /\ \A i \in 1 .. Len(stringFile') : stringFile'[i] = i - 1
      BY DEF StringsFiled
    <3>1. /\ ~ stringCut /\ ~ closeFailed /\ ~ stringQueue.overtaken
          /\ stringFile' = Append(sf, x) /\ x = k
      BY <2>1, <2>2, <2>5
    <3>2. Len(sf) = k /\ \A i \in 1 .. Len(sf) : sf[i] = i - 1
      BY <2>5, <3>1 DEF StringsFiled
    <3>3. Len(Append(sf, k)) = k + 1 /\ \A i \in 1 .. k + 1 : Append(sf, k)[i] = i - 1
      BY <3>2
    <3> QED BY <2>2, <2>5, <3>1, <3>3
  <2> QED BY <2>1, <2>4, <2>7, <2>8 DEF ShutdownIsLast, EventsFiled, Buffering, Drained,
                                   PastLastCheck, buffer
<1>3. CASE StringsFlushed
  <2>1. /\ dpc \in {"flushstrings", "strings"}
        /\ dpc' = IF dpc = "strings" THEN "events?" ELSE IF last THEN "done" ELSE "strings"
        /\ UNCHANGED <<queues, caller, main, last, stillBusy, writer>>
    BY <1>3 DEF StringsFlushed
  <2>2. stringQueue.readfront = stringQueue.back
    BY <1>0, <1>3, StringRingComparisons DEF StringsFlushed, Rings
  <2> QED BY <1>0, <2>1, <2>2, WindowsKept DEF writer, buffer, file, TypeOK, Labels,
             ShutdownIsLast, EventsFiled, StringsFiled, Buffering, Drained, PastLastCheck
<1>4. CASE CheckEvents
  <2>1. /\ dpc = "events?" /\ UNCHANGED <<queues, caller, main, last, writer>>
        /\ \/ contextQueue.front = contextQueue.back /\ dpc' = "strings?" /\ UNCHANGED stillBusy
           \/ dpc' = "loop" /\ stillBusy' = TRUE
    BY <1>0, <1>4, EventRingComparisons DEF CheckEvents, EventsEmpty, Rings
  <2> QED BY <2>1, WindowsKept DEF writer, buffer, file, TypeOK, Labels,
             ShutdownIsLast, EventsFiled, StringsFiled, Buffering, Drained, PastLastCheck
<1>5. CASE CheckStrings
  BY <1>5, WindowsKept DEF CheckStrings, writer, buffer, file, TypeOK, Labels,
       ShutdownIsLast, EventsFiled, StringsFiled, Buffering, Drained, PastLastCheck
<1> QED BY <1>1, <1>2, <1>3, <1>4, <1>5

\* Every step preserves the invariant.
LEMMA Step == IInv /\ [Next]_vars => IInv'
<1> SUFFICES ASSUME IInv, [Next]_vars PROVE IInv'
  OBVIOUS
<1>1. ASSUME NEW t \in Threads, Call(t) PROVE IInv'
  BY <1>1, CallStep
<1>2. CASE Shutdown \/ CloseFile \/ CloseFileFails
  BY <1>2, ShutdownStep
<1>3. CASE DrainStep
  BY <1>3, LoadStep, CopyStep, FwriteStep, LookStep DEF DrainStep
<1>4. CASE UNCHANGED vars
  BY <1>4 DEF vars, queues, caller, main, drain, writer, buffer, file, IInv, TypeOK,
       EventWindow, StringWindow, Holding, ShutdownIsLast, EventsFiled, StringsFiled,
       Buffering, Drained, PastLastCheck
<1> QED BY <1>1, <1>2, <1>3, <1>4 DEF Next, Done

\* The invariant holds in every state of every behaviour.
LEMMA Invariance == Spec => []IInv
BY Initially, Step, PTL DEF Spec

------------------------------------------------------------------------------
\* Every variable keeps its type (Comms.h:21).
THEOREM TypeCorrect == Spec => []TypeOK
<1>1. IInv => TypeOK
  BY DEF IInv
<1> QED BY <1>1, Invariance, PTL

\* Whatever each fwrite accepts, the file and the unwritten rest of the buffer
\* are the dequeued events in order, and a part of an event is only ever ahead of
\* the whole of it (EventStreamIO.cpp:49, :63).
THEOREM WritesInOrder == Spec => []WrittenInOrder
<1>1. IInv => WrittenInOrder
  <2> SUFFICES ASSUME IInv, ~ closeFailed PROVE WrittenInOrder
    BY DEF WrittenInOrder
  <2>0. PICK f \in Seq(Elements), w \in Seq(Elements), t \in Seq(Elements), d \in Nat :
          f = outputFile /\ w = writeBuffer /\ t = taken /\ d = written
    BY DEF IInv, TypeOK
  <2>1. PICK l \in Nat, m \in Nat : l = Len(w) /\ m = Len(f)
    OBVIOUS
  <2>2. d <= l /\ Len(t) = m + l - d
    BY <2>0, <2>1 DEF IInv, EventsFiled, Buffering
  <2>3. /\ \A i \in 1 .. l : w[i] = t[Len(t) - l + i]
        /\ \A i \in 1 .. m : f[i] = t[i]
    BY <2>0, <2>1 DEF IInv, EventsFiled
  <2>4. PICK P : P = SubSeq(w, d + 1, l)
    OBVIOUS
  <2>5. P \in Seq(Elements) /\ Len(P) = l - d /\ \A j \in 1 .. l - d : P[j] = w[d + j]
    BY <2>1, <2>2, <2>4
  <2>6. /\ f \o P \in Seq(Elements) /\ Len(f \o P) = Len(t)
        /\ \A i \in 1 .. m : (f \o P)[i] = f[i]
        /\ \A j \in 1 .. l - d : (f \o P)[m + j] = P[j]
        /\ \A i \in 1 .. Len(f \o P) : i \in 1 .. m \/ \E j \in 1 .. l - d : i = m + j
    <3>1. Len(t) = m + (l - d) /\ Len(f) = m
      BY <2>1, <2>2
    <3>2. Joins(f \o P, f, P)
      BY <2>0, <2>5, Appended, Zenon
    <3> QED BY <2>5, <3>1, <3>2 DEF Joins
  <2>7. ASSUME NEW i \in 1 .. Len(f \o P) PROVE (f \o P)[i] = t[i]
    <3>1. CASE i \in 1 .. m
      BY <2>3, <2>6, <3>1
    <3>2. ASSUME NEW j \in 1 .. l - d, i = m + j PROVE (f \o P)[i] = t[i]
      <4>1. d + j \in 1 .. l /\ Len(t) - l + (d + j) = m + j
        BY <2>2
      <4>2. w[d + j] = t[Len(t) - l + (d + j)]
        BY <2>3, <4>1
      <4> QED BY <2>5, <2>6, <3>2, <4>1, <4>2
    <3> QED BY <2>6, <3>1, <3>2
  <2>8. f \o P = t
    BY <2>6, <2>7, SeqEqual
  <2>9. outputFile \o SubSeq(writeBuffer, written + 1, Len(writeBuffer)) = taken
    BY <2>0, <2>1, <2>4, <2>8
  <2> QED BY <2>9 DEF WrittenInOrder, IInv, EventsFiled
<1> QED BY <1>1, Invariance, PTL

\* The block that Drain dequeues fits the buffer, and there is always room to
\* ask for (EventStreamIO.cpp:63).
THEOREM BatchesFit == Spec => []BatchFits
<1>1. IInv => BatchFits
  BY DEF IInv, BatchFits, Buffering
<1> QED BY <1>1, Invariance, PTL

\* A sequence whose elements count up from 0.
LEMMA CountingUp ==
  ASSUME NEW f \in Seq(Elements), NEW k \in Nat, Len(f) = k, \A i \in 1 .. k : f[i] = i - 1
  PROVE  f = [i \in 1 .. k |-> i - 1]
<1>1. f \in [1 .. k -> Elements]
  BY LenProperties
<1> QED BY <1>1

\* Every string that was enqueued is in a closed file, once and in order, unless
\* its write fell short, the close failed or its ring was overtaken
\* (profile.cpp:57, EventStreamIO.cpp:57).
THEOREM StringsSurvive == Spec => []StringsSurviveShutdown
<1>1. IInv => StringsSurviveShutdown
  <2> SUFFICES ASSUME IInv, session = "closed", ~ stringCut, ~ closeFailed,
                      ~ stringQueue.overtaken
               PROVE  stringFile = [n \in 1 .. stringQueue.front |-> n - 1]
    BY DEF StringsSurviveShutdown
  <2>1. PICK f \in Seq(Elements), k \in Nat : f = stringFile /\ k = stringQueue.front
    BY DEF IInv, TypeOK, Rings
  <2>2. stringQueue.back = k
    BY <2>1 DEF IInv, Drained, ShutdownIsLast
  <2>3. Len(f) = k /\ \A i \in 1 .. k : f[i] = i - 1
    BY <2>1, <2>2 DEF IInv, StringsFiled
  <2> QED BY <2>1, <2>3, CountingUp
<1> QED BY <1>1, Invariance, PTL

\* Every event that was enqueued is in a closed file, once and in order, unless
\* runThread was cleared after the drain thread's last look, the close failed or
\* its ring was overtaken (EventStreamIO.cpp:71, Comms.cpp:37).
THEOREM EventsSurvive == Spec => []LostOnlyWhenLate
<1>1. IInv => LostOnlyWhenLate
  <2> SUFFICES ASSUME IInv, session = "closed", ~ late, ~ closeFailed,
                      ~ contextQueue.overtaken
               PROVE  outputFile = [n \in 1 .. contextQueue.front |-> n - 1]
    BY DEF LostOnlyWhenLate
  <2>1. PICK f \in Seq(Elements), k \in Nat : f = outputFile /\ k = contextQueue.front
    BY DEF IInv, TypeOK, Rings
  <2>2. dpc = "done" /\ last /\ contextQueue.back = k
    BY <2>1 DEF IInv, ShutdownIsLast, Drained
  <2>3. Len(writeBuffer) = 0 /\ written = 0
    BY <2>2, EmptySeq DEF IInv, Buffering
  <2>4. /\ Len(taken) = k /\ Len(f) + 0 - 0 = k
        /\ \A i \in 1 .. Len(f) : f[i] = taken[i]
        /\ \A i \in 1 .. k : taken[i] = i - 1
    BY <2>1, <2>2, <2>3 DEF IInv, EventsFiled
  <2>5. Len(f) = k
    BY <2>1, <2>4
  <2> QED BY <2>1, <2>4, <2>5, CountingUp
<1> QED BY <1>1, Invariance, PTL
==============================================================================
