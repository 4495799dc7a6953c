------------------------------- MODULE Session -------------------------------
(***************************************************************************)
(* The life of libesp's sessions: esp_init and esp_shutdown                *)
(* (src/src/profile.cpp), called by one thread, the boss, session after    *)
(* session; the ProfileContext they make and delete (src/src/Context.cpp); *)
(* the timestamp thread (TimestampThread) and the drain thread that run    *)
(* meanwhile; and the calls other threads make at any time.                *)
(*                                                                         *)
(* A ProfileContext lives at an address.  The memory of a deleted one may  *)
(* be given to the next, and a thread keeps its _thread_context, a pointer *)
(* into that memory, for as long as the thread lives.  A call that uses    *)
(* memory which is not a live context, or a pointer that is not set, is a  *)
(* fault, after which nothing is modelled.                                 *)
(*                                                                         *)
(* What a call does inside a session is in ZoneStack and StringTable, and  *)
(* what the drain thread does in EventDrain: here it matters only which    *)
(* memory they touch and whether the queues hold anything.                 *)
(*                                                                         *)
(* A definition named ...Slip is a plausible mistake in the one after it;  *)
(* no specification uses it.                                               *)
(***************************************************************************)
EXTENDS TimestampThread

CONSTANTS Threads,        \* the instrumented threads, the boss included
          Boss,           \* the one that calls esp_init and esp_shutdown
          Addresses,      \* where a ProfileContext may be allocated
          MaxThreadCount, \* espMaxThreadCount
          Programs,       \* bound: which threads call, and how far the clock
                          \* goes: nothing but a call's stamp depends on both
          Null            \* nullptr

ASSUME ThreadsAssumption   == Boss \in Threads
ASSUME ProgramsAssumption ==
  Programs \subseteq [callers : SUBSET Threads, horizon : Nat]
ASSUME ContextsAssumption  == Null \notin Addresses /\ MaxThreadCount \in Nat \ {0}

\* A pointer that is set is not the null pointer.
ASSUME NullAssumption ==
  Null \notin [base : Addresses, index : Nat, session : Nat \ {0}]

VARIABLES
  callers,          \* bound: the threads that call
  context,          \* _context
  contexts,         \* what is at each address
  threadContext,    \* _thread_context of each thread
  pc, ctx,          \* where a thread is in a call; the _context it loaded
  stage,            \* the boss: where it is in esp_init or esp_shutdown
  runThread, drain, \* the EventStreamConsumer's flag and its thread
  queued,           \* is there an event or a string in the queues?
  sessions,         \* sessions begun
  span              \* history: what the session was during each thread's call

calls  == <<callers, threadContext, pc, ctx, span>>
memory == <<context, contexts, sessions>>
draining == <<runThread, drain, queued>>
vars  == <<timing, memory, calls, stage, draining>>

Freed     == 0   \* the session of an address that holds no live context
NoContext == [session |-> Freed, threadCount |-> 0, consumer |-> FALSE]
NoDrain   == [at |-> "none", stillBusy |-> FALSE, base |-> Null, session |-> 0]

Init ==
  /\ TimingInit
  /\ \E p \in Programs : callers = p.callers /\ horizon = p.horizon
  /\ context = Null /\ sessions = 0
  /\ contexts = [a \in Addresses |-> NoContext]
  /\ threadContext = [t \in Threads |-> Null]
  /\ pc = [t \in Threads |-> "idle"] /\ ctx = [t \in Threads |-> Null]
  /\ span = [t \in Threads |-> "none"]
  /\ stage = "closed" /\ runThread = FALSE /\ drain = NoDrain /\ queued = FALSE

Live(a) == a # Null /\ contexts[a].session # Freed

Crashed == \E t \in Threads : pc[t] \in {"fault", "framefault"}

------------------------------------------------------------------------------
(* The boss *)

\* A session is open, closed, or on its way from one to the other.
When(s) == IF s \in {"open", "closed"} THEN s ELSE "moving"

BossStep(from, to) ==
  /\ stage = from /\ stage' = to
  /\ pc[Boss] = "idle" /\ UNCHANGED callers
  /\ span' = [t \in Threads |->
                IF span[t] \in {"none", When(to)} THEN span[t] ELSE "moving"]

\* esp_init: the constructor leaves eventConsumer as it is in memory.
NewContext(a) ==
  /\ BossStep("closed", "initthread") /\ sessions < MaxSessions
  /\ ~ Live(a)
  /\ sessions' = sessions + 1
  /\ contexts' = [contexts EXCEPT ![a] =
       [session |-> sessions + 1, threadCount |-> 0, consumer |-> FALSE]]
  /\ context' = a
  /\ queued' = FALSE
  /\ UNCHANGED <<timing, threadContext, pc, ctx, runThread, drain>>

\* InitThread has no effect on a thread whose _thread_context is set.
AssignSlip(t, a) ==
  /\ threadContext' = IF threadContext[t] # Null THEN threadContext
       ELSE [threadContext EXCEPT ![t] = [base |-> a, index |-> contexts[a].threadCount,
                                          session |-> contexts[a].session]]
  /\ UNCHANGED contexts

Assign(t, a) ==
  IF threadContext[t] # Null
  THEN UNCHANGED <<threadContext, contexts>>
  ELSE /\ threadContext' = [threadContext EXCEPT ![t] =
            [base |-> a, index |-> contexts[a].threadCount,
             session |-> contexts[a].session]]
       /\ contexts' = [contexts EXCEPT ![a].threadCount = @ + 1]

InitBoss ==
  /\ BossStep("initthread", "timer")
  /\ Assign(Boss, context)
  /\ UNCHANGED <<timing, context, sessions, pc, ctx, draining>>

StartTimer ==
  /\ BossStep("timer", "drain")
  /\ StartTimestampUpdate(sessions)
  /\ UNCHANGED <<memory, threadContext, pc, ctx, draining>>

StartDrain ==
  /\ BossStep("drain", "open")
  /\ contexts' = [contexts EXCEPT ![context].consumer = TRUE]
  /\ runThread' = TRUE
  /\ drain' = [at |-> "loop", stillBusy |-> FALSE, base |-> context,
               session |-> sessions]
  /\ UNCHANGED <<timing, context, sessions, threadContext, pc, ctx, queued>>

\* esp_shutdown
StopTimer ==
  /\ BossStep("open", "jointimer")
  /\ StopTimestampUpdate
  /\ UNCHANGED <<memory, threadContext, pc, ctx, draining>>

TimerJoined ==
  /\ BossStep("jointimer", "stopdrain")
  /\ JoinTimer
  /\ UNCHANGED <<memory, threadContext, pc, ctx, draining>>

StopDrain ==
  /\ BossStep("stopdrain", "joindrain")
  /\ runThread' = FALSE
  /\ UNCHANGED <<timing, memory, threadContext, pc, ctx, drain, queued>>

JoinDrainSlip ==
  /\ BossStep("joindrain", "delete")
  /\ UNCHANGED <<timing, memory, threadContext, pc, ctx, draining>>

JoinDrain ==
  /\ BossStep("joindrain", "delete")
  /\ drain.at = "done"
  /\ drain' = NoDrain
  /\ UNCHANGED <<timing, memory, threadContext, pc, ctx, runThread, queued>>

DeleteContext ==
  /\ BossStep("delete", "clear")
  /\ contexts' = [contexts EXCEPT ![context] = NoContext]
  /\ UNCHANGED <<timing, context, sessions, threadContext, pc, ctx, draining>>

ClearContextSlip ==
  /\ BossStep("clear", "closed")
  /\ UNCHANGED <<timing, memory, threadContext, pc, ctx, draining>>

ClearContext ==
  /\ BossStep("clear", "closed")
  /\ context' = Null
  /\ UNCHANGED <<timing, contexts, sessions, threadContext, pc, ctx, draining>>

EspInit ==
  (\E a \in Addresses : NewContext(a)) \/ InitBoss \/ StartTimer \/ StartDrain

EspShutdown ==
  \/ StopTimer \/ TimerJoined \/ StopDrain \/ JoinDrain \/ DeleteContext
  \/ ClearContext

------------------------------------------------------------------------------
(* The drain thread: a turn empties the queues and then looks at them. *)

DrainStep(from, to) ==
  /\ drain.at = from /\ drain' = [drain EXCEPT !.at = to]
  /\ UNCHANGED <<timing, memory, calls, stage, runThread>>

DrainLoop ==
  /\ DrainStep("loop", IF runThread \/ drain.stillBusy THEN "drain" ELSE "done")
  /\ UNCHANGED queued

DrainQueues ==
  /\ DrainStep("drain", "look")
  /\ queued' = FALSE

LookAtQueues ==
  /\ drain.at = "look"
  /\ drain' = [drain EXCEPT !.at = "loop", !.stillBusy = queued]
  /\ UNCHANGED <<timing, memory, calls, stage, runThread, queued>>

Drain == DrainLoop \/ DrainQueues \/ LookAtQueues

------------------------------------------------------------------------------
(* The instrumentation calls of a thread *)

Goto(t, l) ==
  /\ pc' = [pc EXCEPT ![t] = l]
  /\ span' = IF l = "idle" THEN [span EXCEPT ![t] = "none"] ELSE span

Begin(t, l) ==
  /\ pc' = [pc EXCEPT ![t] = l]
  /\ span' = [span EXCEPT ![t] = When(stage)]

MayCall(t) ==
  t \in callers /\ pc[t] = "idle" /\ (t = Boss => stage \in {"open", "closed"})

InCall(t, from) ==
  /\ pc[t] = from
  /\ UNCHANGED <<timing, callers, context, sessions, stage, runThread, drain>>

\* esp_zone, esp_end, esp_sample_...: a thread without a context gets one.  A
\* thread that calls esp_thread_init is one that stops after AssignContext.
CallEvent(t) ==
  /\ MayCall(t)
  /\ Begin(t, IF threadContext[t] = Null THEN "load" ELSE "check")
  /\ UNCHANGED <<timing, memory, callers, threadContext, ctx, stage, draining>>

\* Without a _context, InitThread counts threads through a null pointer.
LoadContext(t) ==
  /\ InCall(t, "load")
  /\ ctx' = [ctx EXCEPT ![t] = context]
  /\ Goto(t, IF context = Null THEN "fault" ELSE "init")
  /\ UNCHANGED <<contexts, threadContext, queued>>

AssignContext(t) ==
  /\ InCall(t, "init")
  /\ IF Live(ctx[t])
     THEN Assign(t, ctx[t]) /\ (Goto(t, "idle") \/ Goto(t, "check"))
     ELSE Goto(t, "fault") /\ UNCHANGED <<threadContext, contexts>>
  /\ ctx' = [ctx EXCEPT ![t] = Null]
  /\ UNCHANGED queued

\* if (!_context) return.  esp_end only emits, on a stack that holds a zone.
CheckContext(t) ==
  /\ InCall(t, "check")
  /\ IF context = Null THEN Goto(t, "idle")
                       ELSE Goto(t, "stamp") \/ Goto(t, "emit")
  /\ UNCHANGED <<contexts, threadContext, ctx, queued>>

\* The memory of the thread's own context and the global one, read again.
Sound(t) ==
  /\ Live(threadContext[t].base) /\ threadContext[t].index < MaxThreadCount
  /\ Live(context)

\* StampEvent uses both, and for a name that is new the consumer's queue, too.
\* It is new to a context without a consumer: no name has got into its table.
Stamp(t) ==
  /\ InCall(t, "stamp")
  /\ IF Sound(t) /\ contexts[context].consumer
     THEN (Goto(t, "emit") \/ Goto(t, "idle")) /\ queued' \in {queued, TRUE}
     ELSE Goto(t, "fault") /\ UNCHANGED queued
  /\ UNCHANGED <<contexts, threadContext, ctx>>

Emit(t) ==
  /\ InCall(t, "emit")
  /\ IF Sound(t) THEN Goto(t, "idle") /\ queued' = TRUE
                 ELSE Goto(t, "fault") /\ UNCHANGED queued
  /\ UNCHANGED <<contexts, threadContext, ctx>>

\* esp_frame_end loads _context and does not check it.
CallFrameEnd(t) ==
  /\ MayCall(t)
  /\ Begin(t, "frame")
  /\ ctx' = [ctx EXCEPT ![t] = context]
  /\ UNCHANGED <<timing, memory, callers, threadContext, stage, draining>>

FrameEnd(t) ==
  /\ InCall(t, "frame")
  /\ Goto(t, IF Live(ctx[t]) THEN "idle" ELSE "framefault")
  /\ ctx' = [ctx EXCEPT ![t] = Null]
  /\ UNCHANGED <<contexts, threadContext, queued>>

\* The thread ends; t then stands for a thread that has yet to be created.
\* Bound: no more threads than are one too many.
ExitThread(t) ==
  /\ \A a \in Addresses : contexts[a].threadCount <= MaxThreadCount
  /\ t # Boss /\ pc[t] = "idle" /\ threadContext[t] # Null
  /\ threadContext' = [threadContext EXCEPT ![t] = Null]
  /\ UNCHANGED <<timing, memory, callers, pc, ctx, span, stage, draining>>

Thread(t) ==
  \/ CallEvent(t) \/ LoadContext(t) \/ AssignContext(t) \/ CheckContext(t)
  \/ Stamp(t) \/ Emit(t) \/ CallFrameEnd(t) \/ FrameEnd(t) \/ ExitThread(t)

------------------------------------------------------------------------------
OutsideTiming == <<memory, calls, stage, draining>>

TimerThread == \E s \in Timers : Timer(s) /\ UNCHANGED OutsideTiming

Time == Tick /\ UNCHANGED OutsideTiming

Next ==
  /\ ~ Crashed
  /\ \/ EspInit \/ EspShutdown \/ Drain \/ TimerThread \/ Time
     \/ \E t \in Threads : Thread(t)

\* The library's threads are scheduled, time goes on, and a shutdown that has
\* begun goes on.  Nobody has to begin a session, to end one, or to call.
Fairness ==
  /\ WF_vars(~ Crashed /\ Drain) /\ WF_vars(~ Crashed /\ Time)
  /\ \A s \in Timers : WF_vars(~ Crashed /\ Timer(s) /\ UNCHANGED OutsideTiming)
  /\ WF_vars(~ Crashed /\ stage # "open" /\ EspShutdown)

Spec == Init /\ [][Next]_vars /\ Fairness

------------------------------------------------------------------------------
Stages == {"closed", "initthread", "timer", "drain", "open", "jointimer",
           "stopdrain", "joindrain", "delete", "clear"}

Sessions == 0 .. MaxSessions

\* The types of the variables (Context.h:97, Comms.h:21).
TypeOK ==
  /\ TimingTypeOK /\ callers \subseteq Threads
  /\ context \in Addresses \cup {Null} /\ sessions \in Sessions
  /\ contexts \in [Addresses -> [session : Sessions, threadCount : Nat,
                                 consumer : BOOLEAN]]
  /\ threadContext \in [Threads -> {Null} \cup
       [base : Addresses, index : Nat, session : 1 .. MaxSessions]]
  /\ pc \in [Threads -> {"idle", "load", "init", "check", "stamp", "emit",
                         "frame", "fault", "framefault"}]
  /\ ctx \in [Threads -> Addresses \cup {Null}]
  /\ span \in [Threads -> {"none", "open", "closed", "moving"}]
  /\ stage \in Stages /\ runThread \in BOOLEAN /\ queued \in BOOLEAN
  /\ drain \in [at : {"none", "loop", "drain", "look", "done"},
                stillBusy : BOOLEAN, base : Addresses \cup {Null},
                session : Sessions]

\* A call of a zone or a probe faults only if it overlaps an esp_init or an
\* esp_shutdown, if it is the first of its thread while no session is open, or
\* if, in an open session, the thread got its context in an earlier session or
\* as one thread too many.  In particular a thread that has a context may go on
\* calling after the shutdown is over (profile.cpp:59, Context.cpp:47).
\* esp_frame_end may only be called in an open session, by whatever thread.
FaultsExplained ==
  \A t \in Threads :
    /\ pc[t] = "fault" =>
         \/ span[t] = "moving"
         \/ span[t] = "closed" /\ threadContext[t] = Null
         \/ /\ span[t] = "open" /\ threadContext[t] # Null
            /\ \/ threadContext[t].session # sessions
               \/ threadContext[t].index >= MaxThreadCount
    /\ pc[t] = "framefault" => span[t] # "open"

\* Two threads that got their contexts in one session have contexts of their
\* own; only a thread that outlived its session may find another thread in the
\* context it still points to (Context.cpp:144).
ContextsOwned ==
  \A t, u \in Threads :
    /\ t # u /\ threadContext[t] # Null /\ threadContext[u] # Null
    /\ threadContext[t].session = threadContext[u].session
    => threadContext[t].index # threadContext[u].index

\* While the drain thread runs, the context that holds its queue has not been
\* deleted (profile.cpp:57): not even its memory given to the next session.
DrainHasItsQueue ==
  drain.at \in {"loop", "drain", "look"} =>
    contexts[drain.base].session = drain.session

\* From a session's first timestamp on its clock does not go back: a timestamp
\* thread is done before the next one starts (Timing.cpp:123).
ClockAscends == [][fresh => current_timestamp' >= current_timestamp]_vars

\* From then on a timestamp counts from the start of the session, not from
\* that of an earlier one or of the machine (Event.h:73, Timing.cpp:95).
StampWithinSession == fresh => current_timestamp <= Microseconds - started

\* If the instrumented threads leave the queues empty in the end, esp_shutdown
\* returns, whatever the timestamp thread is doing: also with the target that
\* clock_nanosleep refuses (Timing.cpp:81).
ShutdownReturns ==
  <>[](~ queued) =>
    (stage \notin {"closed", "initthread", "timer", "drain", "open"})
      ~> (stage = "closed" \/ Crashed)
==============================================================================
