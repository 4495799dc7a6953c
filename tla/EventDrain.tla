------------------------------ MODULE EventDrain ------------------------------
(***************************************************************************)
(* The drain side of libesp: EventStreamConsumer (src/src/Comms.cpp), the  *)
(* RawEventWriter that derives from it (src/src/EventStreamIO.cpp), and    *)
(* what esp_shutdown does to them (src/src/profile.cpp), from the moment   *)
(* esp_init has returned to the moment the stream file is closed.          *)
(*                                                                         *)
(* LocklessRing models the rings step by step.  Here they are what it      *)
(* shows of them.  Loading front, checking for room and winning the        *)
(* compare-and-swap are one step, which is what its TicketWindow allows:   *)
(* the check holds at the instant of the swap.  An event or a string is    *)
(* the ticket it was enqueued with, and the dequeue of a ticket returns    *)
(* it, until a thread publishes before one that claimed an earlier ticket  *)
(* (overtaken): from then on a dequeue may as well return an item once     *)
(* more or a slot that was never written, and one of them may be missing.  *)
(*                                                                         *)
(* A definition named ...Slip is a plausible mistake in the one after it;  *)
(* no specification uses it.                                               *)
(***************************************************************************)
EXTENDS Integers, Sequences, FiniteSets

CONSTANTS Threads,           \* the instrumented threads, the main one included
          EventCapacity,     \* espMaxEventBuffer
          StringCapacity,    \* size of the StringReferenceQueue
          WriteBufferSize,   \* espWriteBufferSize
          Threshold,         \* espWriteBufferThresholdPrecompute
          MaxEvents,         \* bound: events enqueued in the session
          MaxStrings,        \* bound: strings enqueued in the session
          MaxFragments,      \* bound: writes that stop inside an event
          Anything           \* what a dequeue returns of an overtaken ring

ASSUME ThreadsAssumption == Threads # {} /\ IsFiniteSet(Threads)
ASSUME BoundsAssumption  ==
  MaxEvents \in Nat /\ MaxStrings \in Nat /\ MaxFragments \in Nat
ASSUME AnythingAssumption == Anything \notin Nat
ASSUME RingsAssumption ==
  EventCapacity \in Nat \ {0} /\ StringCapacity \in Nat \ {0}
ASSUME WriterAssumption ==
  /\ WriteBufferSize \in Nat /\ Threshold \in Nat
  /\ 0 < Threshold /\ Threshold < WriteBufferSize

EventRing  == INSTANCE RingIndex WITH Capacity <- EventCapacity
StringRing == INSTANCE RingIndex WITH Capacity <- StringCapacity

VARIABLES
  contextQueue, stringQueue, \* the two rings
  pc, ticket,                \* instrumented threads: where they are in a call,
                             \* the ticket they hold (TryEnqueue's f)
  session,                   \* the main thread: open, closing, closed
  runThread, stillBusy,      \* flags of the EventStreamConsumer
  dpc, last,                 \* drain thread: where it is; in DrainLoop's Flush?
  writeBuffer, want,         \* the events buffered; block being dequeued
  written,                   \* Flush's count of events written so far
  outputFile, fragments,     \* the whole events in the stream file, in order;
                             \* the parts of an event that short writes left in
                             \* it, each with the number of events before it
  stringFile,                \* the whole strings in the stream file, in order
  taken,                     \* history: every event a dequeue returned
  late,                      \* history: see Shutdown
  stringCut, closeFailed     \* history: did an fwrite of a string fall short;
                             \* did fflush or fclose fail?

queues  == <<contextQueue, stringQueue>>
caller  == <<pc, ticket>>
main    == <<session, runThread, late, closeFailed>>
buffer  == <<writeBuffer, want, written, taken>>
file    == <<outputFile, fragments, stringFile, stringCut>>
writer  == <<buffer, file>>
drain   == <<dpc, last, stillBusy, writer>>
vars    == <<queues, caller, main, drain>>

\* The counters of a ring, and whether a thread has published before one that
\* claimed an earlier ticket.
Rings   == [front : Nat, readfront : Nat, back : Nat, overtaken : BOOLEAN]
NewRing == [front |-> 0, readfront |-> 0, back |-> 0, overtaken |-> FALSE]

\* What the dequeue of ticket n returns.
Element(ring, n) == IF ring.overtaken THEN Anything ELSE n

\* readfront.fetch_add(1) by the thread that holds ticket n.
Publish(ring, n) ==
  [ring EXCEPT !.readfront = @ + 1, !.overtaken = @ \/ n # ring.readfront]

\* After esp_init: StartDrainThread sets runThread, then starts the thread.
Init ==
  /\ contextQueue = NewRing /\ stringQueue = NewRing
  /\ pc = [t \in Threads |-> "idle"] /\ ticket = [t \in Threads |-> 0]
  /\ session = "open" /\ late = FALSE /\ closeFailed = FALSE
  /\ runThread = TRUE /\ stillBusy = FALSE
  /\ dpc = "loop" /\ last = FALSE
  /\ writeBuffer = <<>> /\ want = 0 /\ written = 0 /\ taken = <<>>
  /\ outputFile = <<>> /\ fragments = {} /\ stringFile = <<>> /\ stringCut = FALSE

EventsFull   == EventRing!modcap_eq(contextQueue.front + 1, contextQueue.back)
EventsEmpty  == EventRing!modcap_eq(contextQueue.front, contextQueue.back)
StringsFull  == StringRing!modcap_eq(stringQueue.front + 1, stringQueue.back)
StringsEmpty == StringRing!modcap_eq(stringQueue.front, stringQueue.back)

------------------------------------------------------------------------------
(* An instrumented thread.  A probe, or a zone and its end, enqueues the   *)
(* name the first time it is used and then the event.                      *)

Goto(t, l) == pc' = [pc EXCEPT ![t] = l]

ClaimString(t) ==
  /\ pc[t] = "idle" /\ session = "open" /\ ~ StringsFull
  /\ stringQueue.front < MaxStrings
  /\ stringQueue' = [stringQueue EXCEPT !.front = @ + 1]
  /\ ticket' = [ticket EXCEPT ![t] = stringQueue.front]
  /\ Goto(t, "string")
  /\ UNCHANGED <<contextQueue, main, drain>>

\* "String overflow": the call goes on without the string.
DropString(t) ==
  /\ pc[t] = "idle" /\ session = "open" /\ StringsFull
  /\ Goto(t, "event")
  /\ UNCHANGED <<queues, ticket, main, drain>>

PublishString(t) ==
  /\ pc[t] = "string"
  /\ stringQueue' = Publish(stringQueue, ticket[t])
  /\ ticket' = [ticket EXCEPT ![t] = 0]
  /\ Goto(t, "event")
  /\ UNCHANGED <<contextQueue, main, drain>>

ClaimEvent(t) ==
  /\ pc[t] \in {"idle", "event"} /\ session = "open" /\ ~ EventsFull
  /\ contextQueue.front < MaxEvents
  /\ contextQueue' = [contextQueue EXCEPT !.front = @ + 1]
  /\ ticket' = [ticket EXCEPT ![t] = contextQueue.front]
  /\ Goto(t, "publish")
  /\ UNCHANGED <<stringQueue, main, drain>>

\* The ring is full, or the bound reached: the event is not recorded.
DropEvent(t) ==
  /\ pc[t] = "event" /\ (EventsFull \/ contextQueue.front = MaxEvents)
  /\ Goto(t, "idle")
  /\ UNCHANGED <<queues, ticket, main, drain>>

PublishEvent(t) ==
  /\ pc[t] = "publish"
  /\ contextQueue' = Publish(contextQueue, ticket[t])
  /\ ticket' = [ticket EXCEPT ![t] = 0]
  /\ Goto(t, "idle")
  /\ UNCHANGED <<stringQueue, main, drain>>

------------------------------------------------------------------------------
(* esp_shutdown, called when the other threads have been joined. *)

\* The drain thread can no longer be counted on to look at the event queue.
PastLastCheck == dpc = "strings?" \/ (dpc = "loop" /\ ~ stillBusy)

Shutdown ==
  /\ session = "open" /\ \A t \in Threads : pc[t] = "idle"
  /\ session' = "closing"
  /\ runThread' = FALSE
  /\ late' = PastLastCheck
  /\ UNCHANGED <<queues, caller, closeFailed, drain>>

\* drainThread.join() returns and the writer is deleted, closing the file.
CloseFile ==
  /\ session = "closing" /\ dpc = "done"
  /\ session' = "closed"
  /\ UNCHANGED <<queues, caller, runThread, late, closeFailed, drain>>

\* fflush or fclose fails, which nobody looks at: the end of the file is lost.
CloseFileFails ==
  /\ session = "closing" /\ dpc = "done"
  /\ session' = "closed" /\ closeFailed' = TRUE
  /\ \E n \in 0 .. Len(outputFile) :
       /\ outputFile' = SubSeq(outputFile, 1, n)
       /\ fragments' = {g \in fragments : g.before <= n}
  /\ \E n \in 0 .. Len(stringFile) : stringFile' = SubSeq(stringFile, 1, n)
  /\ UNCHANGED <<queues, caller, runThread, late, dpc, last, stillBusy, buffer, stringCut>>

------------------------------------------------------------------------------
(* DrainLoop: while (runThread || stillBusy) Drain();  Flush(); *)

LoopSlip ==
  /\ dpc = "loop"
  /\ dpc' = IF runThread THEN "load" ELSE "write"
  /\ last' = ~ runThread
  /\ UNCHANGED <<queues, caller, main, stillBusy, writer>>

Loop ==
  /\ dpc = "loop"
  /\ dpc' = IF runThread \/ stillBusy THEN "load" ELSE "write"
  /\ last' = ~ (runThread \/ stillBusy)
  /\ UNCHANGED <<queues, caller, main, stillBusy, writer>>

\* Drain: TryDequeue(writeBuffer + writeBufferUsed, room) loads the counters.
LoadCounters ==
  /\ dpc = "load"
  /\ want' = EventRing!BlockCopySize(EventRing!modcap(contextQueue.readfront),
                                     EventRing!modcap(contextQueue.back),
                                     WriteBufferSize - Len(writeBuffer))
  /\ dpc' = "copy"
  /\ UNCHANGED <<queues, caller, main, last, stillBusy, writeBuffer, written, taken, file>>

\* It copies the block and moves back; a full enough buffer is flushed.
Block == [i \in 1 .. want |-> Element(contextQueue, contextQueue.back + i - 1)]

CopyBlockSlip ==
  /\ dpc = "copy"
  /\ writeBuffer' = writeBuffer \o Block
  /\ taken' = taken \o Block
  /\ contextQueue' = [contextQueue EXCEPT !.back = @ + want]
  /\ want' = 0
  /\ dpc' = IF Len(writeBuffer') = Threshold THEN "write" ELSE "strings"
  /\ UNCHANGED <<stringQueue, caller, main, last, stillBusy, written, file>>

CopyBlock ==
  /\ dpc = "copy"
  /\ writeBuffer' = writeBuffer \o Block
  /\ taken' = taken \o Block
  /\ contextQueue' = [contextQueue EXCEPT !.back = @ + want]
  /\ want' = 0
  /\ dpc' = IF Len(writeBuffer') >= Threshold THEN "write" ELSE "strings"
  /\ UNCHANGED <<stringQueue, caller, main, last, stillBusy, written, file>>

\* Flush: one fwrite of what is left of the buffer.  It writes n events whole
\* and, if it stops inside the next, part of that one.  The next turn starts
\* again at the first event that was not written whole.
MoreFragments(n) ==
  {fragments} \cup
    IF Cardinality(fragments) = MaxFragments THEN {}
    ELSE {fragments \cup {[before |-> Len(outputFile) + n,
                           of     |-> writeBuffer[written + n + 1]]}}

FwriteSlip(n) ==
  /\ dpc = "write" /\ n <= Len(writeBuffer) - written
  /\ outputFile' = outputFile \o SubSeq(writeBuffer, 1, n)
  /\ IF written + n < Len(writeBuffer)
     THEN /\ written' = written + n /\ UNCHANGED <<dpc, writeBuffer>>
          /\ fragments' \in MoreFragments(n)
     ELSE /\ written' = 0 /\ dpc' = "flushstrings" /\ writeBuffer' = <<>>
          /\ UNCHANGED fragments
  /\ UNCHANGED <<queues, caller, main, last, stillBusy, want, taken, stringFile, stringCut>>

Fwrite(n) ==
  /\ dpc = "write" /\ n <= Len(writeBuffer) - written
  /\ outputFile' = outputFile \o SubSeq(writeBuffer, written + 1, written + n)
  /\ IF written + n < Len(writeBuffer)
     THEN /\ written' = written + n /\ UNCHANGED <<dpc, writeBuffer>>
          /\ fragments' \in MoreFragments(n)
     ELSE /\ written' = 0 /\ dpc' = "flushstrings" /\ writeBuffer' = <<>>
          /\ UNCHANGED fragments
  /\ UNCHANGED <<queues, caller, main, last, stillBusy, want, taken, stringFile, stringCut>>

\* FlushStrings: dequeue one string and write it, header and characters.  What
\* the two fwrites return is not looked at: a string cut short stays so.
WriteString ==
  /\ dpc \in {"flushstrings", "strings"}
  /\ ~ StringRing!modcap_eq(stringQueue.readfront, stringQueue.back)
  /\ stringQueue' = [stringQueue EXCEPT !.back = @ + 1]
  /\ \/ /\ stringFile' = Append(stringFile, Element(stringQueue, stringQueue.back))
        /\ UNCHANGED stringCut
     \/ stringCut' = TRUE /\ UNCHANGED stringFile
  /\ UNCHANGED <<contextQueue, caller, main, dpc, last, stillBusy, buffer, outputFile, fragments>>

StringsFlushedSlip ==
  /\ dpc \in {"flushstrings", "strings"}
  /\ dpc' = CASE dpc = "strings" -> "events?"
              [] dpc = "flushstrings" /\ last -> "done"
              [] OTHER -> "strings"
  /\ UNCHANGED <<queues, caller, main, last, stillBusy, writer>>

\* ... until the queue has none.  Flush ends with FlushStrings, and so does
\* Drain's own sequence before it looks at the queues again.
StringsFlushed ==
  /\ dpc \in {"flushstrings", "strings"}
  /\ StringRing!modcap_eq(stringQueue.readfront, stringQueue.back)
  /\ dpc' = CASE dpc = "strings" -> "events?"
              [] dpc = "flushstrings" /\ last -> "done"
              [] OTHER -> "strings"
  /\ UNCHANGED <<queues, caller, main, last, stillBusy, writer>>

\* stillBusy = !(contextQueue->Empty() && stringQueue.Empty())
CheckEvents ==
  /\ dpc = "events?"
  /\ IF EventsEmpty
     THEN dpc' = "strings?" /\ UNCHANGED stillBusy
     ELSE dpc' = "loop" /\ stillBusy' = TRUE
  /\ UNCHANGED <<queues, caller, main, last, writer>>

CheckStrings ==
  /\ dpc = "strings?"
  /\ stillBusy' = ~ StringsEmpty
  /\ dpc' = "loop"
  /\ UNCHANGED <<queues, caller, main, last, writer>>

------------------------------------------------------------------------------
Call(t) ==
  \/ ClaimString(t) \/ DropString(t) \/ PublishString(t)
  \/ ClaimEvent(t) \/ DropEvent(t) \/ PublishEvent(t)

DrainStep ==
  \/ Loop \/ LoadCounters \/ CopyBlock
  \/ \E n \in 0 .. WriteBufferSize : Fwrite(n)
  \/ WriteString \/ StringsFlushed \/ CheckEvents \/ CheckStrings

Done == session = "closed" /\ UNCHANGED vars

Next ==
  \/ Shutdown \/ CloseFile \/ CloseFileFails \/ DrainStep \/ Done
  \/ \E t \in Threads : Call(t)

Spec == Init /\ [][Next]_vars

\* The drain thread is scheduled, and the disk is not full for ever: of the
\* fwrites that Flush repeats, some writes all it is asked to.
Fairness ==
  /\ WF_vars(DrainStep)
  /\ WF_vars(Fwrite(Len(writeBuffer) - written))
  /\ WF_vars(CloseFile \/ CloseFileFails)
  /\ \A t \in Threads : WF_vars(pc[t] # "idle" /\ Call(t))

FairSpec == Spec /\ Fairness

------------------------------------------------------------------------------
(* Properties. *)

Elements == Nat \cup {Anything}

Labels == {"loop", "load", "copy", "write", "flushstrings", "strings",
           "events?", "strings?", "done"}

\* Every variable has its type.
TypeOK ==
  /\ contextQueue \in Rings /\ stringQueue \in Rings
  /\ pc \in [Threads -> {"idle", "string", "event", "publish"}]
  /\ ticket \in [Threads -> Nat]
  /\ session \in {"open", "closing", "closed"}
  /\ late \in BOOLEAN /\ closeFailed \in BOOLEAN /\ stringCut \in BOOLEAN
  /\ runThread \in BOOLEAN /\ stillBusy \in BOOLEAN
  /\ dpc \in Labels /\ last \in BOOLEAN
  /\ writeBuffer \in Seq(Elements) /\ want \in Nat /\ written \in Nat
  /\ outputFile \in Seq(Elements) /\ stringFile \in Seq(Elements)
  /\ fragments \subseteq [before : Nat, of : Elements]
  /\ taken \in Seq(Elements)

\* No event that left the ring is lost, repeated or overtaken on its way to
\* the file, whatever part of it each fwrite accepts: the whole events in the
\* file and the unwritten rest of the buffer are what was dequeued, in order.
\* A write that stops inside an event leaves a part of it, always just ahead
\* of the whole of the same event.  (Until a close that fails cuts the file.)
WrittenInOrder == ~ closeFailed =>
  /\ outputFile \o SubSeq(writeBuffer, written + 1, Len(writeBuffer)) = taken
  /\ \A g \in fragments : g.before < Len(taken) /\ g.of = taken[g.before + 1]

\* The block Drain dequeues fits what is left of writeBuffer, and there is
\* always room to ask for: a Drain that offered none would dequeue nothing,
\* stay below no threshold, and loop for ever.
BatchFits ==
  /\ Len(writeBuffer) + want <= WriteBufferSize
  /\ dpc = "load" => Len(writeBuffer) < Threshold

\* Every string that was enqueued is in a closed file, once and in order, at
\* whatever point of the drain loop the shutdown came, unless its fwrite fell
\* short, the file could not be closed, or a thread published a string before
\* one that had claimed an earlier ticket.
StringsSurviveShutdown ==
  session = "closed" /\ ~ stringCut /\ ~ closeFailed /\ ~ stringQueue.overtaken =>
    stringFile = [n \in 1 .. stringQueue.front |-> n - 1]

\* Every event enqueued before esp_shutdown is in the closed file, once and in
\* order, unless the drain thread had already made its last check of the queue
\* when runThread was cleared, the file could not be closed, or a thread
\* published an event before one that had claimed an earlier ticket.
LostOnlyWhenLate ==
  session = "closed" /\ ~ late /\ ~ closeFailed /\ ~ contextQueue.overtaken =>
    outputFile = [n \in 1 .. contextQueue.front |-> n - 1]

\* esp_shutdown "will flush all pending events to disk and block until IO is
\* complete" (README.md:149): if the file can be closed, it has as many events
\* as were enqueued.
ShutdownFlushesAll ==
  session = "closed" /\ ~ closeFailed => Len(outputFile) = contextQueue.front

\* esp_shutdown returns.
ShutdownCompletes == session = "closing" ~> session = "closed"

\* While the session is open every published ticket leaves the ring, however
\* many strings, flushes and short writes the drain thread meets on the way.
EventsDrain ==
  \A n \in 1 .. MaxEvents :
    contextQueue.readfront >= n ~> contextQueue.back >= n \/ session # "open"
==============================================================================
