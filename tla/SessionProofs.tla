---------------------------- MODULE SessionProofs ----------------------------
(***************************************************************************)
(* Theorems about Session, for every set of threads and of addresses,      *)
(* every number of contexts, and however often sessions follow each other. *)
(*                                                                         *)
(* ContextsOwned holds because the threads that got their contexts from a  *)
(* ProfileContext have indexes below its count (Counted), and no two live  *)
(* contexts are of one session (SessionsApart).  FaultsExplained holds     *)
(* because a call that spans no change of the session finds the context it *)
(* expects (StageContext), and has loaded that one (CallsPlaced).          *)
(***************************************************************************)
EXTENDS Session, TLAPS

Calls == {"idle", "load", "init", "check", "stamp", "emit", "frame", "fault",
          "framefault"}

\* The types of the variables that the proofs are about.
Typed ==
  /\ context \in Addresses \cup {Null} /\ sessions \in Nat
  /\ contexts \in [Addresses -> [session : Nat, threadCount : Nat, consumer : BOOLEAN]]
  /\ threadContext \in [Threads -> {Null} \cup
       [base : Addresses, index : Nat, session : Nat \ {0}]]
  /\ pc \in [Threads -> Calls]
  /\ ctx \in [Threads -> Addresses \cup {Null}]
  /\ span \in [Threads -> {"none", "open", "closed", "moving"}]
  /\ stage \in Stages

\* Nothing is of a session that has yet to come, and a session is at one place.
SessionsApart ==
  /\ \A a \in Addresses : contexts[a].session <= sessions
  /\ \A a, b \in Addresses :
       contexts[a].session = contexts[b].session /\ contexts[a].session # Freed => a = b
  /\ \A t \in Threads : threadContext[t] # Null => threadContext[t].session <= sessions

\* A thread's context is where its session's ProfileContext is, if that is still
\* there, which has counted the thread.
Counted ==
  \A t \in Threads, a \in Addresses :
    threadContext[t] # Null /\ threadContext[t].session = contexts[a].session
    => threadContext[t].base = a /\ threadContext[t].index < contexts[a].threadCount

\* From its constructor to its deletion the context is this session's.
StageContext ==
  /\ stage \notin {"closed", "clear"} => Live(context) /\ contexts[context].session = sessions
  /\ stage = "open" => contexts[context].consumer
  /\ stage = "closed" => context = Null

\* Where a call is tells what its thread has, and what its session was if it is
\* still the same.
CallsPlaced ==
  \A t \in Threads :
    /\ pc[t] = "idle" <=> span[t] = "none"
    /\ span[t] \in {"open", "closed"} => stage = span[t]
    /\ pc[t] \in {"load", "init"} => threadContext[t] = Null
    /\ pc[t] \in {"check", "stamp", "emit"} => threadContext[t] # Null
    /\ span[t] = "open" /\ pc[t] \in {"init", "frame"} => ctx[t] = context
    /\ span[t] = "closed" => pc[t] \notin {"init", "stamp", "emit"}

\* The inductive invariant.
IInv == /\ Typed /\ SessionsApart /\ Counted /\ StageContext /\ CallsPlaced
        /\ ContextsOwned /\ FaultsExplained

------------------------------------------------------------------------------
\* When a session is neither open nor closed it is moving.
LEMMA WhenTyped == \A s \in Stages : When(s) \in {"open", "closed", "moving"}
BY DEF When

\* Before esp_init is first called, the invariant holds.
LEMMA Initially == Init => IInv
<1> SUFFICES ASSUME Init PROVE IInv
  OBVIOUS
<1> USE ThreadsAssumption, ContextsAssumption DEF Init
<1>1. Typed
  BY DEF Typed, NoContext, Freed, Calls, Stages
<1>2. SessionsApart /\ Counted
  BY DEF SessionsApart, Counted, NoContext, Freed
<1>3. StageContext /\ CallsPlaced
  BY DEF StageContext, CallsPlaced
<1>4. ContextsOwned /\ FaultsExplained
  BY DEF ContextsOwned, FaultsExplained
<1> QED BY <1>1, <1>2, <1>3, <1>4 DEF IInv

\* InitThread gives a thread a context that no other thread of the session has,
\* and changes nothing else (Context.cpp:142).
LEMMA AssignKeeps ==
  ASSUME Typed, SessionsApart, Counted, ContextsOwned, NEW t \in Threads,
         NEW a \in Addresses, Live(a), Assign(t, a), UNCHANGED sessions
  PROVE  /\ contexts' \in [Addresses -> [session : Nat, threadCount : Nat, consumer : BOOLEAN]]
         /\ threadContext' \in [Threads -> {Null} \cup
              [base : Addresses, index : Nat, session : Nat \ {0}]]
         /\ SessionsApart' /\ Counted' /\ ContextsOwned'
         /\ \A b \in Addresses : /\ contexts'[b].session = contexts[b].session
                                 /\ contexts'[b].consumer = contexts[b].consumer
         /\ threadContext'[t] # Null
         /\ \A u \in Threads \ {t} : threadContext'[u] = threadContext[u]
<1> USE DEF Typed, Live, Freed
<1>1. CASE threadContext[t] # Null
  BY <1>1 DEF Assign, SessionsApart, Counted, ContextsOwned
<1>2. CASE threadContext[t] = Null
  <2> DEFINE new == [base |-> a, index |-> contexts[a].threadCount,
                     session |-> contexts[a].session]
  <2>1. /\ threadContext' = [threadContext EXCEPT ![t] = new]
        /\ contexts' = [contexts EXCEPT ![a].threadCount = @ + 1]
    BY <1>2 DEF Assign
  <2>2. /\ new \in [base : Addresses, index : Nat, session : Nat \ {0}]
        /\ new.base = a /\ new.index = contexts[a].threadCount
        /\ new.session = contexts[a].session
    OBVIOUS
  <2>3. new # Null
    BY <2>2, NullAssumption
  <2> HIDE DEF new
  <2>4. /\ threadContext'[t] = new
        /\ \A u \in Threads \ {t} : threadContext'[u] = threadContext[u]
        /\ threadContext' \in [Threads -> {Null} \cup
              [base : Addresses, index : Nat, session : Nat \ {0}]]
    BY <2>1, <2>2
  <2>5. /\ contexts' \in [Addresses -> [session : Nat, threadCount : Nat, consumer : BOOLEAN]]
        /\ \A b \in Addresses : /\ contexts'[b].session = contexts[b].session
                                /\ contexts'[b].consumer = contexts[b].consumer
                                /\ contexts'[b].threadCount =
                                     IF b = a THEN contexts[b].threadCount + 1
                                              ELSE contexts[b].threadCount
    BY <2>1
  <2>6. SessionsApart'
    BY <2>2, <2>4, <2>5 DEF SessionsApart
  <2>7. Counted'
    BY <2>2, <2>3, <2>4, <2>5 DEF Counted, SessionsApart
  <2>8. ContextsOwned'
    <3> SUFFICES ASSUME NEW u \in Threads, NEW v \in Threads, u # v,
                        threadContext'[u] # Null, threadContext'[v] # Null,
                        threadContext'[u].session = threadContext'[v].session
                 PROVE  threadContext'[u].index # threadContext'[v].index
      BY DEF ContextsOwned
    <3>1. CASE u # t /\ v # t
      BY <3>1, <2>4 DEF ContextsOwned
    <3>2. CASE u = t
      BY <3>2, <2>2, <2>4 DEF Counted
    <3>3. CASE v = t
      BY <3>3, <2>2, <2>4 DEF Counted
    <3> QED BY <3>1, <3>2, <3>3
  <2> QED BY <2>3, <2>4, <2>5, <2>6, <2>7, <2>8
<1> QED BY <1>1, <1>2

\* A step of the boss leaves every other call where it is, and one that was
\* going on spans a change of the session from then on.
LEMMA BossKeepsCalls ==
  ASSUME IInv, ~ Crashed, NEW from \in Stages, NEW to \in Stages,
         BossStep(from, to), When(from) = "moving" \/ When(to) = "moving",
         UNCHANGED <<pc, ctx>>,
         \A t \in Threads : pc[t] # "idle" => threadContext'[t] = threadContext[t]
  PROVE  /\ span' \in [Threads -> {"none", "open", "closed", "moving"}]
         /\ stage' \in Stages /\ CallsPlaced' /\ FaultsExplained'
<1> USE DEF IInv, Typed
<1>1. /\ stage = from /\ stage' = to
      /\ span' = [t \in Threads |->
           IF span[t] \in {"none", When(to)} THEN span[t] ELSE "moving"]
  BY DEF BossStep
<1>2. \A t \in Threads : span'[t] = IF span[t] = "none" THEN "none" ELSE "moving"
  <2> SUFFICES ASSUME NEW t \in Threads
               PROVE  span'[t] = IF span[t] = "none" THEN "none" ELSE "moving"
    OBVIOUS
  <2>1. CASE When(to) = "moving"
    BY <1>1, <2>1
  <2>2. CASE When(from) = "moving"
    <3>1. span[t] \notin {"open", "closed"}
      BY <1>1, <2>2 DEF CallsPlaced, When
    <3> QED BY <1>1, <3>1, WhenTyped
  <2> QED BY <2>1, <2>2
<1>3. \A t \in Threads : pc[t] \notin {"fault", "framefault"}
  BY DEF Crashed
<1>4. CallsPlaced'
  BY <1>1, <1>2 DEF CallsPlaced
<1>5. FaultsExplained'
  BY <1>3 DEF FaultsExplained
<1> QED BY <1>1, <1>2, <1>4, <1>5

\* Every step of esp_init preserves the invariant.
LEMMA InitStep ==
  ASSUME IInv, ~ Crashed, EspInit
  PROVE  IInv'
<1> USE ContextsAssumption DEF IInv, Typed
<1>1. ASSUME NEW a \in Addresses, NewContext(a)
      PROVE  IInv'
  <2>1. /\ CallsPlaced' /\ FaultsExplained' /\ stage' \in Stages
        /\ span' \in [Threads -> {"none", "open", "closed", "moving"}]
    BY <1>1, BossKeepsCalls DEF NewContext, When, Stages
  <2>2. /\ contexts' = [contexts EXCEPT ![a] = [session |-> sessions + 1,
                          threadCount |-> 0, consumer |-> FALSE]]
        /\ sessions' = sessions + 1 /\ context' = a
        /\ UNCHANGED <<threadContext, pc, ctx>> /\ stage' = "initthread"
    BY <1>1 DEF NewContext, BossStep
  <2>3. Typed'
    BY <2>1, <2>2
  <2>4. SessionsApart'
    BY <2>2 DEF SessionsApart
  <2>5. Counted'
    BY <2>2 DEF Counted, SessionsApart
  <2>6. StageContext'
    BY <2>2 DEF StageContext, Live, Freed
  <2>7. ContextsOwned'
    BY <2>2 DEF ContextsOwned
  <2> QED BY <2>1, <2>3, <2>4, <2>5, <2>6, <2>7
<1>2. CASE InitBoss
  <2>1. /\ stage = "initthread" /\ stage' = "timer" /\ pc[Boss] = "idle"
        /\ Assign(Boss, context) /\ UNCHANGED <<context, sessions, pc, ctx>>
    BY <1>2 DEF InitBoss, BossStep
  <2>2. Live(context) /\ context \in Addresses
    BY <2>1 DEF StageContext, Live
  <2>3. /\ contexts' \in [Addresses -> [session : Nat, threadCount : Nat, consumer : BOOLEAN]]
        /\ threadContext' \in [Threads -> {Null} \cup
             [base : Addresses, index : Nat, session : Nat \ {0}]]
        /\ SessionsApart' /\ Counted' /\ ContextsOwned'
        /\ \A b \in Addresses : contexts'[b].session = contexts[b].session
        /\ \A u \in Threads \ {Boss} : threadContext'[u] = threadContext[u]
    BY <2>1, <2>2, AssignKeeps, ThreadsAssumption
  <2>4. /\ CallsPlaced' /\ FaultsExplained' /\ stage' \in Stages
        /\ span' \in [Threads -> {"none", "open", "closed", "moving"}]
    BY <1>2, <2>1, <2>3, BossKeepsCalls DEF InitBoss, When, Stages
  <2>5. StageContext'
    BY <2>1, <2>2, <2>3 DEF StageContext, Live
  <2> QED BY <2>1, <2>3, <2>4, <2>5
<1>3. CASE StartTimer
  <2>1. /\ stage = "timer" /\ stage' = "drain"
        /\ UNCHANGED <<context, contexts, sessions, threadContext, pc, ctx>>
    BY <1>3 DEF StartTimer, BossStep, memory
  <2>2. /\ CallsPlaced' /\ FaultsExplained' /\ stage' \in Stages
        /\ span' \in [Threads -> {"none", "open", "closed", "moving"}]
    BY <1>3, <2>1, BossKeepsCalls DEF StartTimer, When, Stages
  <2> QED BY <2>1, <2>2 DEF SessionsApart, Counted, StageContext, Live, ContextsOwned
<1>4. CASE StartDrain
  <2>1. /\ stage = "drain" /\ stage' = "open"
        /\ contexts' = [contexts EXCEPT ![context].consumer = TRUE]
        /\ UNCHANGED <<context, sessions, threadContext, pc, ctx>>
    BY <1>4 DEF StartDrain, BossStep
  <2>2. Live(context) /\ context \in Addresses /\ contexts[context].session = sessions
    BY <2>1 DEF StageContext, Live
  <2>3. /\ contexts' \in [Addresses -> [session : Nat, threadCount : Nat, consumer : BOOLEAN]]
        /\ contexts'[context].consumer
        /\ \A b \in Addresses : /\ contexts'[b].session = contexts[b].session
                                /\ contexts'[b].threadCount = contexts[b].threadCount
    BY <2>1, <2>2
  <2>4. /\ CallsPlaced' /\ FaultsExplained' /\ stage' \in Stages
        /\ span' \in [Threads -> {"none", "open", "closed", "moving"}]
    BY <1>4, <2>1, BossKeepsCalls DEF StartDrain, When, Stages
  <2>5. StageContext' /\ ContextsOwned'
    BY <2>1, <2>2, <2>3 DEF StageContext, Live, ContextsOwned
  <2>6. SessionsApart' /\ Counted'
    BY <2>1, <2>3 DEF SessionsApart, Counted
  <2> QED BY <2>1, <2>3, <2>4, <2>5, <2>6
<1> QED BY <1>1, <1>2, <1>3, <1>4 DEF EspInit

\* Every step of esp_shutdown preserves the invariant.
LEMMA ShutdownStep ==
  ASSUME IInv, ~ Crashed, EspShutdown
  PROVE  IInv'
<1> USE ContextsAssumption DEF IInv, Typed
<1>1. ASSUME StopTimer \/ TimerJoined \/ StopDrain \/ JoinDrain
      PROVE  IInv'
  <2>1. PICK from \in {"open", "jointimer", "stopdrain", "joindrain"},
             to \in {"jointimer", "stopdrain", "joindrain", "delete"} :
          /\ BossStep(from, to)
          /\ UNCHANGED <<context, contexts, sessions, threadContext, pc, ctx>>
    BY <1>1 DEF StopTimer, TimerJoined, StopDrain, JoinDrain, memory
  <2>2. stage = from /\ stage' = to
    BY <2>1 DEF BossStep
  <2>3. /\ CallsPlaced' /\ FaultsExplained' /\ stage' \in Stages
        /\ span' \in [Threads -> {"none", "open", "closed", "moving"}]
    BY <2>1, BossKeepsCalls DEF When, Stages
  <2> QED BY <2>1, <2>2, <2>3 DEF SessionsApart, Counted, StageContext, Live, ContextsOwned
<1>2. CASE DeleteContext
  <2>1. /\ stage = "delete" /\ stage' = "clear"
        /\ contexts' = [contexts EXCEPT ![context] =
             [session |-> 0, threadCount |-> 0, consumer |-> FALSE]]
        /\ UNCHANGED <<context, sessions, threadContext, pc, ctx>>
    BY <1>2 DEF DeleteContext, BossStep, NoContext, Freed
  <2>2. /\ CallsPlaced' /\ FaultsExplained' /\ stage' \in Stages
        /\ span' \in [Threads -> {"none", "open", "closed", "moving"}]
    BY <1>2, <2>1, BossKeepsCalls DEF DeleteContext, When, Stages
  <2>3. Typed'
    BY <2>1, <2>2
  <2>4. SessionsApart'
    BY <2>1 DEF SessionsApart, Freed
  <2>5. Counted'
    BY <2>1 DEF Counted
  <2>6. StageContext' /\ ContextsOwned'
    BY <2>1 DEF StageContext, ContextsOwned
  <2> QED BY <2>2, <2>3, <2>4, <2>5, <2>6
<1>3. CASE ClearContext
  <2>1. /\ stage = "clear" /\ stage' = "closed" /\ context' = Null
        /\ UNCHANGED <<contexts, sessions, threadContext, pc, ctx>>
    BY <1>3 DEF ClearContext, BossStep
  <2>2. /\ CallsPlaced' /\ FaultsExplained' /\ stage' \in Stages
        /\ span' \in [Threads -> {"none", "open", "closed", "moving"}]
    BY <1>3, <2>1, BossKeepsCalls DEF ClearContext, When, Stages
  <2> QED BY <2>1, <2>2 DEF SessionsApart, Counted, StageContext, ContextsOwned
<1> QED BY <1>1, <1>2, <1>3 DEF EspShutdown

------------------------------------------------------------------------------
\* What a step of a thread's call leaves alone, and that is enough.
LEMMA CallKeeps ==
  ASSUME IInv, ~ Crashed, NEW t \in Threads,
         UNCHANGED <<context, contexts, sessions, threadContext, stage>>,
         pc' \in [Threads -> Calls], ctx' \in [Threads -> Addresses \cup {Null}],
         span' \in [Threads -> {"none", "open", "closed", "moving"}],
         \A u \in Threads \ {t} : /\ pc'[u] = pc[u] /\ span'[u] = span[u]
                                  /\ ctx'[u] = ctx[u],
         pc'[t] = "idle" <=> span'[t] = "none",
         span'[t] \in {"open", "closed"} => stage = span'[t],
         pc'[t] \in {"load", "init"} => threadContext[t] = Null,
         pc'[t] \in {"check", "stamp", "emit"} => threadContext[t] # Null,
         span'[t] = "open" /\ pc'[t] \in {"init", "frame"} => ctx'[t] = context,
         span'[t] = "closed" => pc'[t] \notin {"init", "stamp", "emit"},
         pc'[t] = "fault" =>
           \/ span'[t] = "moving"
           \/ span'[t] = "closed" /\ threadContext[t] = Null
           \/ /\ span'[t] = "open" /\ threadContext[t] # Null
              /\ \/ threadContext[t].session # sessions
                 \/ threadContext[t].index >= MaxThreadCount,
         pc'[t] = "framefault" => span'[t] # "open"
  PROVE  IInv'
<1> USE DEF IInv, Typed
<1>1. CallsPlaced'
  BY DEF CallsPlaced
<1>2. FaultsExplained'
  BY DEF FaultsExplained
<1> QED BY <1>1, <1>2 DEF SessionsApart, Counted, StageContext, Live, ContextsOwned

\* Every step of a thread preserves the invariant.
LEMMA ThreadStep ==
  ASSUME IInv, ~ Crashed, NEW t \in Threads, Thread(t)
  PROVE  IInv'
<1> USE ContextsAssumption DEF IInv, Typed, Goto, Begin, InCall, memory
<1> USE DEF Calls
<1>0. When(stage) \in {"open", "closed", "moving"}
      /\ (When(stage) \in {"open", "closed"} => stage = When(stage))
  BY DEF When
<1>1. CASE CallEvent(t)
  BY <1>0, <1>1, CallKeeps DEF CallEvent, MayCall
<1>2. CASE LoadContext(t)
  <2>1. span[t] = "closed" => context = Null
    BY DEF CallsPlaced, StageContext
  <2>2. span[t] = "open" => context # Null
    BY DEF CallsPlaced, StageContext, Live
  <2>3. threadContext[t] = Null /\ span[t] # "none"
    BY <1>2 DEF LoadContext, CallsPlaced
  <2> QED BY <1>2, <2>1, <2>2, <2>3, CallKeeps DEF LoadContext, CallsPlaced
<1>3. CASE AssignContext(t)
  <2>1. /\ pc[t] = "init" /\ threadContext[t] = Null /\ span[t] \in {"open", "moving"}
        /\ span[t] = "open" => ctx[t] = context /\ Live(context)
    BY <1>3 DEF AssignContext, CallsPlaced, StageContext
  <2>2. CASE ~ Live(ctx[t])
    BY <1>3, <2>1, <2>2, CallKeeps DEF AssignContext, CallsPlaced
  <2>3. CASE Live(ctx[t])
    <3>1. /\ Assign(t, ctx[t]) /\ ctx[t] \in Addresses
          /\ Goto(t, "idle") \/ Goto(t, "check")
          /\ ctx' = [ctx EXCEPT ![t] = Null]
          /\ UNCHANGED <<context, sessions, stage>>
      BY <1>3, <2>3 DEF AssignContext, Live
    <3>2. /\ contexts' \in [Addresses -> [session : Nat, threadCount : Nat, consumer : BOOLEAN]]
          /\ threadContext' \in [Threads -> {Null} \cup
               [base : Addresses, index : Nat, session : Nat \ {0}]]
          /\ SessionsApart' /\ Counted' /\ ContextsOwned'
          /\ \A b \in Addresses : /\ contexts'[b].session = contexts[b].session
                                  /\ contexts'[b].consumer = contexts[b].consumer
          /\ threadContext'[t] # Null
          /\ \A u \in Threads \ {t} : threadContext'[u] = threadContext[u]
      BY <2>3, <3>1, AssignKeeps
    <3>3. StageContext'
      BY <3>1, <3>2 DEF StageContext, Live
    <3>4. /\ pc' \in [Threads -> Calls] /\ pc'[t] \in {"idle", "check"}
          /\ span' \in [Threads -> {"none", "open", "closed", "moving"}]
          /\ span'[t] = IF pc'[t] = "idle" THEN "none" ELSE span[t]
          /\ \A u \in Threads \ {t} : pc'[u] = pc[u] /\ span'[u] = span[u] /\ ctx'[u] = ctx[u]
      BY <3>1
    <3>5. CallsPlaced'
      BY <2>1, <3>1, <3>2, <3>4 DEF CallsPlaced
    <3>6. FaultsExplained'
      BY <3>4 DEF FaultsExplained, Crashed
    <3> QED BY <3>1, <3>2, <3>3, <3>4, <3>5, <3>6
  <2> QED BY <2>2, <2>3
<1>4. CASE CheckContext(t)
  <2>1. span[t] = "closed" => context = Null
    BY DEF CallsPlaced, StageContext
  <2>2. threadContext[t] # Null /\ span[t] # "none" /\ pc[t] = "check"
        /\ (span[t] \in {"open", "closed"} => stage = span[t])
    BY <1>4 DEF CheckContext, CallsPlaced
  <2>3. PICK l \in {"idle", "stamp", "emit"} : Goto(t, l) /\ (context = Null => l = "idle")
    BY <1>4 DEF CheckContext
  <2>4. /\ pc' \in [Threads -> Calls] /\ pc'[t] = l
        /\ span' \in [Threads -> {"none", "open", "closed", "moving"}]
        /\ span'[t] = IF l = "idle" THEN "none" ELSE span[t]
        /\ \A u \in Threads \ {t} : pc'[u] = pc[u] /\ span'[u] = span[u]
    BY <2>3
  <2>5. UNCHANGED <<context, contexts, sessions, threadContext, stage, ctx>>
    BY <1>4 DEF CheckContext
  <2> QED BY <2>1, <2>2, <2>3, <2>4, <2>5, CallKeeps
<1>5. CASE Stamp(t) \/ Emit(t)
  <2>1. threadContext[t] # Null /\ span[t] \in {"open", "moving"}
    BY <1>5 DEF Stamp, Emit, CallsPlaced
  <2>2. ASSUME span[t] = "open", threadContext[t].session = sessions,
               threadContext[t].index < MaxThreadCount
        PROVE  Sound(t) /\ contexts[context].consumer
    <3>1. stage = "open" /\ Live(context) /\ contexts[context].session = sessions
      BY <2>2 DEF CallsPlaced, StageContext
    <3>2. context \in Addresses
      BY <3>1 DEF Live
    <3>3. threadContext[t].base = context
      BY <2>1, <2>2, <3>1, <3>2 DEF Counted
    <3> QED BY <2>2, <3>1, <3>3 DEF Sound, StageContext
  <2>3. threadContext[t].index \in Nat /\ threadContext[t].session \in Nat
    BY <2>1
  <2>4. PICK l \in {"idle", "emit", "fault"} :
          /\ Goto(t, l)
          /\ l = "fault" => ~ (Sound(t) /\ contexts[context].consumer)
    BY <1>5 DEF Stamp, Emit
  <2>5. /\ pc' \in [Threads -> Calls] /\ pc'[t] = l
        /\ span' \in [Threads -> {"none", "open", "closed", "moving"}]
        /\ span'[t] = IF l = "idle" THEN "none" ELSE span[t]
        /\ \A u \in Threads \ {t} : pc'[u] = pc[u] /\ span'[u] = span[u]
    BY <2>4
  <2>6. UNCHANGED <<context, contexts, sessions, threadContext, stage, ctx>>
    BY <1>5 DEF Stamp, Emit
  <2>7. pc'[t] = "fault" =>
          span[t] = "moving" \/ threadContext[t].session # sessions
          \/ threadContext[t].index >= MaxThreadCount
    BY <2>1, <2>2, <2>3, <2>4, <2>5
  <2>8. span[t] = "open" => stage = "open"
    BY DEF CallsPlaced
  <2> QED BY <2>1, <2>5, <2>6, <2>7, <2>8, CallKeeps
<1>6. CASE CallFrameEnd(t)
  BY <1>0, <1>6, CallKeeps DEF CallFrameEnd, MayCall
<1>7. CASE FrameEnd(t)
  <2>1. span[t] = "open" => ctx[t] = context /\ Live(context)
    BY <1>7 DEF FrameEnd, CallsPlaced, StageContext
  <2> QED BY <1>7, <2>1, CallKeeps DEF FrameEnd, CallsPlaced
<1>8. CASE ExitThread(t)
  <2>1. /\ threadContext' = [threadContext EXCEPT ![t] = Null] /\ pc[t] = "idle"
        /\ UNCHANGED <<context, contexts, sessions, pc, ctx, span, stage>>
    BY <1>8 DEF ExitThread
  <2>2. /\ threadContext'[t] = Null
        /\ \A u \in Threads \ {t} : threadContext'[u] = threadContext[u]
        /\ Typed'
    BY <2>1
  <2>3. SessionsApart' /\ Counted' /\ ContextsOwned'
    BY <2>1, <2>2 DEF SessionsApart, Counted, ContextsOwned
  <2>4. StageContext' /\ CallsPlaced'
    BY <2>1, <2>2 DEF StageContext, Live, CallsPlaced
  <2>5. FaultsExplained'
    BY <2>1 DEF FaultsExplained, Crashed
  <2> QED BY <2>2, <2>3, <2>4, <2>5
<1> QED BY <1>1, <1>2, <1>3, <1>4, <1>5, <1>6, <1>7, <1>8 DEF Thread

\* A step that changes nothing the invariant is about preserves it.
LEMMA ElsewhereStep ==
  ASSUME IInv, UNCHANGED <<context, contexts, sessions, threadContext, pc, ctx, span, stage>>
  PROVE  IInv'
BY DEF IInv, Typed, SessionsApart, Counted, StageContext, Live, CallsPlaced,
       ContextsOwned, FaultsExplained

\* Every step preserves the invariant.
LEMMA Step == IInv /\ [Next]_vars => IInv'
<1> SUFFICES ASSUME IInv, [Next]_vars PROVE IInv'
  OBVIOUS
<1>1. CASE EspInit /\ ~ Crashed
  BY <1>1, InitStep
<1>2. CASE EspShutdown /\ ~ Crashed
  BY <1>2, ShutdownStep
<1>3. ASSUME NEW t \in Threads, Thread(t), ~ Crashed PROVE IInv'
  BY <1>3, ThreadStep
<1>4. CASE Drain
  BY <1>4, ElsewhereStep
     DEF Drain, DrainLoop, DrainQueues, LookAtQueues, DrainStep, memory, calls
<1>5. CASE TimerThread \/ Time
  BY <1>5, ElsewhereStep DEF TimerThread, Time, OutsideTiming, memory, calls
<1>6. CASE UNCHANGED vars
  BY <1>6, ElsewhereStep DEF vars, memory, calls
<1> QED BY <1>1, <1>2, <1>3, <1>4, <1>5, <1>6 DEF Next

\* The invariant holds in every state of every behaviour.
LEMMA Invariance == Spec => []IInv
BY Initially, Step, PTL DEF Spec

------------------------------------------------------------------------------
\* However many threads there are, and whatever memory is used again, two that
\* got their contexts in one session have contexts of their own (Context.cpp:145).
THEOREM ContextsAreOwned == Spec => []ContextsOwned
<1>1. IInv => ContextsOwned
  BY DEF IInv
<1> QED BY <1>1, Invariance, PTL

\* However calls, sessions and threads follow each other, a call faults only for
\* one of the reasons that FaultsExplained lists (profile.cpp:58, Context.cpp:144).
THEOREM FaultsAreExplained == Spec => []FaultsExplained
<1>1. IInv => FaultsExplained
  BY DEF IInv
<1> QED BY <1>1, Invariance, PTL
==============================================================================
