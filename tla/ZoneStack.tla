------------------------------ MODULE ZoneStack ------------------------------
(***************************************************************************)
(* The instrumentation calls of libesp (src/src/profile.cpp) and the       *)
(* ThreadContext behind them (src/src/Context.cpp): each thread keeps the  *)
(* zones it is in on a SlabStack of fixed size, stamps an event when a     *)
(* zone begins and emits it when the zone ends.  A probe is stamped and    *)
(* emitted at once.  The threads share the pause flag, the counter of      *)
(* event ids, the frame number, and the clock that the timestamp thread    *)
(* sets; each of them is read in a step of its own.  The clock ascends, as *)
(* it does in the first session of a process: at the start of another, the *)
(* first store of the timestamp thread sets it back (src/src/Timing.cpp).  *)
(*                                                                         *)
(* The stack a program means is the history variable nest: an instrumented *)
(* program calls esp_zone and esp_end in pairs (esp::Z does), whether or   *)
(* not the library records them.                                           *)
(*                                                                         *)
(* StringTable models MapStringToReference and LocklessRing TryEnqueue:    *)
(* here names are left out and an event is either emitted or refused.      *)
(*                                                                         *)
(* A definition named ...Slip is a plausible mistake in the one after it;  *)
(* no specification uses it.                                               *)
(***************************************************************************)
EXTENDS Integers, Sequences, SequencesExt

CONSTANTS Threads,       \* the instrumented threads
          Depth,         \* espMaxZoneRecursion
          PauseAnywhere, \* may esp_set_paused be called while a zone is open?
          MaxNesting,    \* bound: zones a thread has open at once
          MaxEvents,     \* bound: events stamped in the session
          MaxFrames,     \* bound: calls of esp_frame_end
          MaxTime        \* bound: how far the clock gets; below 2^32, so that
                         \* the 32-bit value of a zone holds its duration

ASSUME DepthAssumption == Depth \in Nat \ {0} /\ PauseAnywhere \in BOOLEAN
ASSUME BoundsAssumption ==
  {MaxNesting, MaxEvents, MaxFrames, MaxTime} \subseteq Nat

VARIABLES
  paused, nextMessageID, frameNumber, now,  \* shared by the threads
  threadCount, index,        \* InitThread: threads so far, each one's index
  stack,                     \* profileIntervalStack of each thread
  pc, ev,                    \* where a thread is in StampEvent, and its event
  nest,                      \* history: the zones the program has open, each
                             \* by its event's id, or Unrecorded
  overflowed,                \* history: a zone was not recorded for want of
                             \* room since the thread was last outside zones
  emitted, dropped           \* history: events enqueued; ids of those refused

shared  == <<paused, nextMessageID, frameNumber, now>>
indexes == <<threadCount, index>>
events  == <<emitted, dropped>>
program == <<nest, overflowed>>
vars    == <<shared, indexes, stack, pc, ev, program, events>>

NoIndex    == -1
Unrecorded == 0

NewEvent == [id |-> 0, zone |-> FALSE, thread |-> 0, parent |-> 0,
             frame |-> 0, time |-> 0, value |-> 0]

\* The ProfileContext constructor counts ids from 1: 0 means "no parent".
Init ==
  /\ paused = FALSE /\ nextMessageID = 1 /\ frameNumber = 0 /\ now = 0
  /\ threadCount = 0 /\ index = [t \in Threads |-> NoIndex]
  /\ stack = [t \in Threads |-> <<>>]
  /\ pc = [t \in Threads |-> "idle"] /\ ev = [t \in Threads |-> NewEvent]
  /\ nest = [t \in Threads |-> <<>>] /\ overflowed = [t \in Threads |-> FALSE]
  /\ emitted = {} /\ dropped = {}

Goto(t, l) == pc' = [pc EXCEPT ![t] = l]

\* A thread calls esp_thread_init, or its first call does it for the thread.
InitThread(t) ==
  /\ index[t] = NoIndex
  /\ index' = [index EXCEPT ![t] = threadCount]
  /\ threadCount' = threadCount + 1
  /\ UNCHANGED <<shared, stack, pc, ev, program, events>>

Ready(t) == pc[t] = "idle" /\ index[t] # NoIndex

------------------------------------------------------------------------------
(* SlabStack *)

FullSlip(t) == Len(stack[t]) > Depth
Full(t)     == Len(stack[t]) = Depth
Empty(t)    == stack[t] = <<>>

PushSlip(t, e) == stack' = [stack EXCEPT ![t] = IF Empty(t) THEN <<e>> ELSE [@ EXCEPT ![Len(@)] = e]]
Push(t, e)     == stack' = [stack EXCEPT ![t] = Append(@, e)]

PopSlip(t) == UNCHANGED stack
Pop(t)     == stack' = [stack EXCEPT ![t] = Front(@)]

PeekParentID(t) == IF Empty(t) THEN 0 ELSE Last(stack[t]).id

\* eventQueue.TryEnqueue: the ring takes the event or is full.
Emit(e) ==
  \/ emitted' = emitted \cup {e} /\ UNCHANGED dropped
  \/ dropped' = dropped \cup {e.id} /\ UNCHANGED emitted

------------------------------------------------------------------------------
(* esp_zone and esp_sample_int, esp_sample_uint, esp_sample_float *)

Enter(t, id) == nest' = [nest EXCEPT ![t] = Append(@, id)]

MayEnter(t) == pc[t] = "idle" /\ Len(nest[t]) < MaxNesting

PausedZone(t) ==
  /\ MayEnter(t) /\ paused
  /\ Enter(t, Unrecorded)
  /\ UNCHANGED <<shared, indexes, stack, pc, ev, overflowed, events>>

\* The stack is full: Push returns nullptr, and so does StampEvent.
FullZone(t) ==
  /\ MayEnter(t) /\ Ready(t) /\ ~ paused /\ Full(t)
  /\ Enter(t, Unrecorded)
  /\ overflowed' = [overflowed EXCEPT ![t] = TRUE]
  /\ UNCHANGED <<shared, indexes, stack, pc, ev, events>>

\* The parent is looked up before the new zone is pushed.
BeginZone(t) ==
  /\ MayEnter(t) /\ Ready(t) /\ ~ paused /\ ~ Full(t)
  /\ ev' = [ev EXCEPT ![t] = [NewEvent EXCEPT !.zone = TRUE,
                                              !.parent = PeekParentID(t)]]
  /\ Goto(t, "id")
  /\ UNCHANGED <<shared, indexes, stack, program, events>>

BeginSample(t) ==
  /\ Ready(t) /\ ~ paused
  /\ ev' = [ev EXCEPT ![t] = NewEvent]
  /\ Goto(t, "id")
  /\ UNCHANGED <<shared, indexes, stack, program, events>>

\* StampEvent: NextEventID, ...
StampIDSlip(t) ==
  /\ pc[t] = "id" /\ nextMessageID <= MaxEvents
  /\ ev' = [ev EXCEPT ![t].id = nextMessageID, ![t].thread = index[t]]
  /\ Goto(t, "time")
  /\ UNCHANGED <<shared, indexes, stack, program, events>>

StampID(t) ==
  /\ pc[t] = "id" /\ nextMessageID <= MaxEvents
  /\ ev' = [ev EXCEPT ![t].id = nextMessageID, ![t].thread = index[t]]
  /\ nextMessageID' = nextMessageID + 1
  /\ Goto(t, "time")
  /\ UNCHANGED <<paused, frameNumber, now, indexes, stack, program, events>>

\* ... the timestamp, ...
StampTimeSlip(t) ==
  /\ pc[t] = "time"
  /\ ev' = IF ev[t].zone THEN [ev EXCEPT ![t].time = now] ELSE ev
  /\ Goto(t, "frame")
  /\ UNCHANGED <<shared, indexes, stack, program, events>>

StampTime(t) ==
  /\ pc[t] = "time"
  /\ ev' = [ev EXCEPT ![t].time = now]
  /\ Goto(t, "frame")
  /\ UNCHANGED <<shared, indexes, stack, program, events>>

\* ... and the frame number.  The zone is on the stack ...
OpenZone(t) ==
  /\ pc[t] = "frame" /\ ev[t].zone
  /\ LET e == [ev[t] EXCEPT !.frame = frameNumber]
     IN  Push(t, e) /\ Enter(t, e.id)
  /\ ev' = [ev EXCEPT ![t] = NewEvent]
  /\ Goto(t, "idle")
  /\ UNCHANGED <<shared, indexes, overflowed, events>>

\* ... or the probe is enqueued; its parent is looked up at the end.
EmitSample(t) ==
  /\ pc[t] = "frame" /\ ~ ev[t].zone
  /\ Emit([ev[t] EXCEPT !.frame = frameNumber, !.parent = PeekParentID(t)])
  /\ ev' = [ev EXCEPT ![t] = NewEvent]
  /\ Goto(t, "idle")
  /\ UNCHANGED <<shared, indexes, stack, program>>

------------------------------------------------------------------------------
(* esp_end *)

\* The program leaves its innermost zone.
Leave(t) ==
  /\ pc[t] = "idle" /\ nest[t] # <<>>
  /\ nest' = [nest EXCEPT ![t] = Front(@)]
  /\ overflowed' = [overflowed EXCEPT ![t] = @ /\ Len(nest[t]) > 1]

PausedEnd(t) ==
  /\ Leave(t) /\ paused
  /\ UNCHANGED <<shared, indexes, stack, pc, ev, events>>

EmptyEnd(t) ==
  /\ Leave(t) /\ Ready(t) /\ ~ paused /\ Empty(t)
  /\ UNCHANGED <<shared, indexes, stack, pc, ev, events>>

End(t) ==
  /\ Leave(t) /\ Ready(t) /\ ~ paused /\ ~ Empty(t)
  /\ Pop(t)
  /\ LET e == Last(stack[t]) IN Emit([e EXCEPT !.value = now - e.time])
  /\ UNCHANGED <<shared, indexes, pc, ev>>

------------------------------------------------------------------------------
(* The rest of the world. *)

\* esp_set_paused, by any thread.
SetPaused ==
  /\ PauseAnywhere \/ \A t \in Threads : pc[t] = "idle" /\ nest[t] = <<>>
  /\ paused' = ~ paused
  /\ UNCHANGED <<nextMessageID, frameNumber, now, indexes, stack, pc, ev, program, events>>

\* esp_frame_end; nothing reads the frameTimestamp it also sets.
FrameEnd ==
  /\ frameNumber < MaxFrames
  /\ frameNumber' = frameNumber + 1
  /\ UNCHANGED <<paused, nextMessageID, now, indexes, stack, pc, ev, program, events>>

\* The timestamp thread has seen the time go on.
Tick ==
  /\ now < MaxTime
  /\ now' = now + 1
  /\ UNCHANGED <<paused, nextMessageID, frameNumber, indexes, stack, pc, ev, program, events>>

Step(t) ==
  \/ InitThread(t)
  \/ PausedZone(t) \/ FullZone(t) \/ BeginZone(t) \/ BeginSample(t)
  \/ StampID(t) \/ StampTime(t) \/ OpenZone(t) \/ EmitSample(t)
  \/ PausedEnd(t) \/ EmptyEnd(t) \/ End(t)

Next == SetPaused \/ FrameEnd \/ Tick \/ \E t \in Threads : Step(t)

Spec == Init /\ [][Next]_vars

------------------------------------------------------------------------------
(* Properties. *)

Events == [id : Nat, zone : BOOLEAN, thread : Nat, parent : Nat,
           frame : Nat, time : Nat, value : Nat]

\* Every variable has its type; no stack outgrows its slab, and no duration is
\* negative (in the first session of a process).
TypeOK ==
  /\ paused \in BOOLEAN
  /\ nextMessageID \in Nat /\ frameNumber \in Nat /\ now \in Nat
  /\ threadCount \in Nat /\ index \in [Threads -> Nat \cup {NoIndex}]
  /\ stack \in [Threads -> Seq(Events)]
  /\ \A t \in Threads : Len(stack[t]) <= Depth
  /\ pc \in [Threads -> {"idle", "id", "time", "frame"}]
  /\ ev \in [Threads -> Events]
  /\ nest \in [Threads -> Seq(Nat)] /\ overflowed \in [Threads -> BOOLEAN]
  /\ emitted \subseteq Events /\ dropped \subseteq Nat

\* esp_end "ends the last declared profiling zone by popping the top of the
\* interval stack and emitting the corresponding ZONE_INTERVAL event"
\* (profile.h:91): the event it emits is that of the zone the program leaves.
\* Not so for a thread in more zones than its stack holds.
ClosesLastZone ==
  \A t \in Threads :
    Len(nest'[t]) < Len(nest[t]) /\ ~ overflowed[t] =>
      \A e \in emitted' \ emitted : e.id = Last(nest[t])

EndClosesLastZone == [][ClosesLastZone]_vars

\* A thread that has left its outermost zone has an empty stack, also when it
\* was in more zones than the stack holds: an overflow does no harm beyond the
\* outermost zone it happens in.
CleanOutsideZones ==
  \A t \in Threads : pc[t] = "idle" /\ nest[t] = <<>> => Empty(t)

\* An event's parent is a zone of its own thread that began no later, in no
\* later frame, and ended no earlier: the parents make a tree of intervals,
\* however the threads, the clock and the frames interleave.  The times are
\* those of the first session of a process (Timing.cpp:102).
ParentEncloses ==
  \A e, z \in emitted : e.parent = z.id =>
    /\ z.zone /\ z.thread = e.thread /\ z.id < e.id
    /\ z.time <= e.time /\ z.frame <= e.frame
    /\ e.time + e.value <= z.time + z.value

\* A parent that is not in the stream is one whose zone is still open, or whose
\* event the ring refused: no event refers to a zone that never was.
NoDanglingParent ==
  \A e \in emitted : e.parent # 0 =>
    \/ \E z \in emitted : z.id = e.parent
    \/ e.parent \in dropped
    \/ \E t \in Threads : \E i \in DOMAIN stack[t] : stack[t][i].id = e.parent

\* An id is "unique to each event emitted in this run" (Event.h:44), and no
\* event has the id that stands for no parent.
IdsUnique ==
  /\ \A d, e \in emitted : d.id = e.id => d = e
  /\ \A e \in emitted : e.id # 0 /\ e.id \notin dropped

\* In the events of a thread, ids, timestamps and frames ascend together, in
\* the first session of a process (Timing.cpp:102).  (Between threads they need
\* not: they are read at different moments.)
StampsAscend ==
  \A d, e \in emitted : d.thread = e.thread /\ d.id < e.id =>
    d.time <= e.time /\ d.frame <= e.frame
==============================================================================
