-------------------------- MODULE SessionClockProofs --------------------------
(***************************************************************************)
(* Theorems about the two threads that the library starts in Session, for  *)
(* every number of sessions, threads and addresses and every clock.        *)
(*                                                                         *)
(* The drain thread belongs to the session that is on (DrainPlaced).  A    *)
(* timestamp thread is done before the next begins (OneTimer), and what it *)
(* has read, and what it stored, is never ahead of the clock (Clocked).    *)
(***************************************************************************)
EXTENDS SessionProofs

\* What a timestamp thread has read, in microseconds.
Linear(s) == TimespecToLinearMicroseconds(timers[s].last)

\* Where a timestamp thread knows when it started.
Running == {"loop", "read", "store", "asleep"}

\* The types of the variables that SessionProofs says nothing of.
LibraryTyped ==
  /\ TimingTypeOK /\ callers \subseteq Threads /\ sessions \in Sessions
  /\ runThread \in BOOLEAN /\ queued \in BOOLEAN
  /\ drain \in [at : {"none", "loop", "drain", "look", "done"}, stillBusy : BOOLEAN,
                base : Addresses \cup {Null}, session : Sessions]

DrainPlaced ==
  \/ drain = NoDrain
  \/ /\ stage \in {"open", "jointimer", "stopdrain", "joindrain"}
     /\ drain.base = context /\ drain.session = sessions

OneTimer ==
  /\ \A s \in Timers : timers[s].at \notin {"none", "done"} => timerThread = s
  /\ timerThread # NoThread => stage \in {"drain", "open", "jointimer"}

\* What the thread s knows of the time.
TimerClocked(s) ==
  /\ timers[s].at = "begin" => ~ fresh
  /\ timers[s].at \in Running =>
       /\ started <= timers[s].startTime /\ timers[s].startTime <= Microseconds
       /\ fresh => current_timestamp <= Microseconds - timers[s].startTime
  /\ timers[s].at = "store" =>
       /\ timers[s].startTime <= Linear(s) /\ Linear(s) <= Microseconds
       /\ fresh => current_timestamp <= Linear(s) - timers[s].startTime

Clocked ==
  /\ StampWithinSession /\ started <= Microseconds
  /\ \A s \in Timers : TimerClocked(s)

LibraryInv == LibraryTyped /\ DrainPlaced /\ OneTimer /\ Clocked

------------------------------------------------------------------------------
(* Time in microseconds *)

\* A multiple of n that is no more than n away from 0 is 0, n, or -n.
LEMMA Multiple ==
  ASSUME NEW n \in Nat \ {0}, NEW d \in Int, NEW e \in Int, n * d = e, 0 - n < e, e <= n
  PROVE  (d = 0 /\ e = 0) \/ (d = 1 /\ e = n)
<1>1. \A k \in Nat : n * k \in Nat /\ n * (k + 2) = n * k + 2 * n /\ n * (0 - (k + 1)) = 0 - n * k - n
  OBVIOUS
<1>2. ~ d >= 2
  <2> SUFFICES ASSUME d >= 2 PROVE FALSE
    OBVIOUS
  <2>1. d - 2 \in Nat /\ d - 2 + 2 = d
    OBVIOUS
  <2>2. n * (d - 2) \in Nat /\ n * d = n * (d - 2) + 2 * n
    BY <1>1, <2>1
  <2> DEFINE x == n * (d - 2)
  <2>3. x \in Nat /\ e = x + 2 * n
    BY <2>2
  <2> HIDE DEF x
  <2> QED BY <2>3
<1>3. ~ d <= 0 - 1
  <2> SUFFICES ASSUME d <= 0 - 1 PROVE FALSE
    OBVIOUS
  <2>1. 0 - 1 - d \in Nat /\ 0 - (0 - 1 - d + 1) = d
    OBVIOUS
  <2>2. n * (0 - 1 - d) \in Nat /\ n * d = 0 - n * (0 - 1 - d) - n
    BY <1>1, <2>1
  <2> DEFINE x == n * (0 - 1 - d)
  <2>3. x \in Nat /\ e = 0 - x - n
    BY <2>2
  <2> HIDE DEF x
  <2> QED BY <2>3
<1>4. d = 0 \/ d = 1
  BY <1>2, <1>3
<1>5. d = 0 => e = 0
  OBVIOUS
<1>6. d = 1 => e = n
  OBVIOUS
<1> QED BY <1>4, <1>5, <1>6

\* One more is the next remainder, or the first one and the next quotient.
LEMMA Successor ==
  ASSUME NEW n \in Nat \ {0}, NEW c \in Nat
  PROVE  \/ (c + 1) \div n = c \div n /\ (c + 1) % n = (c % n) + 1
         \/ (c + 1) \div n = c \div n + 1 /\ (c + 1) % n = 0 /\ c % n = n - 1
<1> DEFINE q == c \div n
           r == c % n
           p == (c + 1) \div n
           s == (c + 1) % n
<1>1. q \in Int /\ r \in 0 .. n - 1 /\ c = n * q + r
  BY SMT
<1>2. p \in Int /\ s \in 0 .. n - 1 /\ c + 1 = n * p + s
  BY SMT
<1> HIDE DEF q, r, p, s
<1>3. n * (p - q) = n * p - n * q
  BY <1>1, <1>2
<1>4. n * p \in Int /\ n * q \in Int
  BY <1>1, <1>2
<1> DEFINE x == n * p
           y == n * q
           d == p - q
           e == 1 + r - s
<1>5. x - y = e /\ x \in Int /\ y \in Int
  <2>1. x \in Int /\ y \in Int /\ c = y + r /\ c + 1 = x + s
    BY <1>1, <1>2, <1>4
  <2> HIDE DEF x, y
  <2> QED BY <1>1, <1>2, <2>1
<1>6. n * d = e
  BY <1>3, <1>5
<1>7. d \in Int /\ e \in Int /\ 0 - n < e /\ e <= n
  BY <1>1, <1>2
<1>8. (d = 0 /\ e = 0) \/ (d = 1 /\ e = n)
  <2> HIDE DEF d, e
  <2> QED BY <1>6, <1>7, Multiple
<1>9. (p = q /\ s = r + 1) \/ (p = q + 1 /\ s = 0 /\ r = n - 1)
  BY <1>1, <1>2, <1>8
<1> QED BY <1>9 DEF p, q, r, s

LEMMA Billion == ONE_BILLION \in Nat \ {0}
BY ClockAssumption DEF ONE_BILLION

LEMMA Quotients ==
  ASSUME NEW n \in Nat \ {0}, NEW c \in Nat
  PROVE  c \div n \in Nat /\ c % n \in 0 .. n - 1
<1>1. c % n \in 0 .. n - 1 /\ c = n * (c \div n) + (c % n) /\ c \div n \in Int
  BY SMT
<1>2. c \div n >= 0
  BY SMT
<1> QED BY <1>1, <1>2

\* A time is a struct timespec, and a later one is not less in microseconds
\* (Timing.cpp:23, :44).
LEMMA LinearAscends ==
  ASSUME NEW c \in Nat
  PROVE  /\ Timespec(c) \in [tv_sec : Nat, tv_nsec : 0 .. ONE_BILLION - 1]
         /\ TimespecToLinearMicroseconds(Timespec(c)) \in Nat
         /\ TimespecToLinearMicroseconds(Timespec(c)) <= TimespecToLinearMicroseconds(Timespec(c + 1))
<1> DEFINE B == ONE_BILLION
           q == c \div B
           r == c % B
           p == (c + 1) \div B
           s == (c + 1) % B
           a == r \div Thousand
           b == s \div Thousand
<1>1. B \in Nat \ {0} /\ Thousand \in Nat \ {0} /\ Million \in Nat \ {0} /\ B = Thousand * Million
  BY Billion, ClockAssumption DEF ONE_BILLION
<1>2. /\ TimespecToLinearMicroseconds(Timespec(c)) = q * Million + a
      /\ TimespecToLinearMicroseconds(Timespec(c + 1)) = p * Million + b
      /\ Timespec(c) = [tv_sec |-> q, tv_nsec |-> r]
  BY DEF TimespecToLinearMicroseconds, Timespec
<1> HIDE DEF B
<1>3. q \in Nat /\ r \in 0 .. B - 1 /\ p \in Nat /\ s \in 0 .. B - 1
  <2>1. c + 1 \in Nat
    OBVIOUS
  <2> QED BY <1>1, <2>1, Quotients
<1>4. (p = q /\ s = r + 1) \/ (p = q + 1 /\ s = 0 /\ r = B - 1)
  BY <1>1, Successor
<1> HIDE DEF q, r, p, s
<1>5. r \in Nat /\ s \in Nat
  BY <1>1, <1>3
<1>6. a \in Nat /\ b \in Nat
  BY <1>1, <1>5, Quotients
<1>7. q * Million + a \in Nat
  <2>1. q * Million \in Nat
    BY <1>1, <1>3
  <2> HIDE DEF a
  <2> QED BY <1>6, <2>1
<1>8. q * Million + a <= p * Million + b
  <2>1. CASE p = q /\ s = r + 1
    <3>1. b = a \/ b = a + 1
      BY <1>1, <1>5, <2>1, Successor
    <3>2. q * Million \in Nat
      BY <1>1, <1>3
    <3> DEFINE x == q * Million
    <3>3. x \in Nat /\ p * Million = x
      BY <2>1, <3>2
    <3> HIDE DEF a, b, x
    <3>4. x + a <= x + b
      BY <1>6, <3>1, <3>3
    <3> QED BY <3>3, <3>4 DEF x
  <2>2. CASE p = q + 1 /\ s = 0 /\ r = B - 1
    <3>1. a <= Million
      <4> DEFINE x == r % Thousand
      <4>1. x \in 0 .. Thousand - 1 /\ r = Thousand * a + x
        BY <1>1, <1>5, SMT
      <4> HIDE DEF a, x
      <4>2. Thousand * (Million - a) = Thousand * Million - Thousand * a
        BY <1>1, <1>6
      <4>3. Thousand * a \in Nat
        BY <1>1, <1>6
      <4> DEFINE y == Thousand * a
                 e == x + 1
                 d == Million - a
      <4>4. B - y = e
        <5>1. y \in Nat /\ r = y + x
          BY <4>1, <4>3
        <5> HIDE DEF y
        <5> QED BY <1>1, <2>2, <4>1, <5>1
      <4>5. Thousand * d = e
        BY <1>1, <4>2, <4>4
      <4>6. d \in Int /\ e \in Int /\ 0 - Thousand < e /\ e <= Thousand
        BY <1>1, <1>6, <4>1
      <4>7. d = 0 \/ d = 1
        <5> HIDE DEF d, e
        <5> QED BY <1>1, <4>5, <4>6, Multiple
      <4> QED BY <1>1, <1>6, <4>7
    <3>2. p * Million = q * Million + Million /\ q * Million \in Nat
      BY <1>1, <1>3, <2>2
    <3> DEFINE x == q * Million
    <3>3. x \in Nat /\ p * Million = x + Million
      BY <3>2
    <3> HIDE DEF a, b, x
    <3>4. x + a <= x + Million + b
      BY <1>1, <1>6, <3>1, <3>3
    <3> QED BY <3>3, <3>4 DEF x
  <2> QED BY <1>4, <2>1, <2>2
<1>9. [tv_sec |-> q, tv_nsec |-> r] \in [tv_sec : Nat, tv_nsec : 0 .. ONE_BILLION - 1]
  BY <1>3 DEF B
<1> QED BY <1>2, <1>7, <1>8, <1>9

------------------------------------------------------------------------------
(* The steps *)

LEMMA NowTyped == ASSUME TimingTypeOK PROVE Microseconds \in Nat
BY LinearAscends DEF TimingTypeOK, Microseconds

LEMMA LibraryInit == Init => LibraryInv
<1> SUFFICES ASSUME Init PROVE LibraryInv
  OBVIOUS
<1> USE DEF Init, TimingInit
<1>1. PICK p \in Programs : callers = p.callers /\ horizon = p.horizon
  OBVIOUS
<1>2. callers \subseteq Threads /\ horizon \in Nat
  BY <1>1, ProgramsAssumption
<1>3. Timespec(0) \in [tv_sec : Nat, tv_nsec : 0 .. ONE_BILLION - 1]
  BY LinearAscends
<1>4. timers \in [Timers -> [at : Places, startTime : Nat,
                             last : [tv_sec : Nat, tv_nsec : 0 .. ONE_BILLION - 1]]]
  BY <1>3 DEF NotStarted, Places
<1>5. TimingTypeOK
  BY <1>2, <1>4, ClockAssumption DEF TimingTypeOK, NoThread
<1>6. drain \in [at : {"none", "loop", "drain", "look", "done"}, stillBusy : BOOLEAN,
                 base : Addresses \cup {Null}, session : Sessions]
  BY ClockAssumption DEF NoDrain, Sessions
<1>7. LibraryTyped
  <2>1. sessions \in Sessions
    BY ClockAssumption DEF Sessions
  <2>2. runThread \in BOOLEAN /\ queued \in BOOLEAN
    OBVIOUS
  <2> QED BY <1>2, <1>5, <1>6, <2>1, <2>2 DEF LibraryTyped
<1>8. \A s \in Timers : timers[s].at = "none"
  BY DEF NotStarted
<1>9. OneTimer /\ DrainPlaced
  BY <1>8 DEF OneTimer, DrainPlaced
<1>10. Clocked
  BY <1>5, <1>8, NowTyped DEF Clocked, TimerClocked, StampWithinSession, Running
<1> QED BY <1>7, <1>9, <1>10 DEF LibraryInv

\* A step in which time and the timestamp threads stand still.
LEMMA StandStill ==
  ASSUME LibraryInv, UNCHANGED <<timing, callers>>, sessions' \in Sessions,
         runThread' \in BOOLEAN, queued' \in BOOLEAN,
         drain' \in [at : {"none", "loop", "drain", "look", "done"}, stillBusy : BOOLEAN,
                     base : Addresses \cup {Null}, session : Sessions],
         DrainPlaced',
         timerThread # NoThread => stage' \in {"drain", "open", "jointimer"}
  PROVE  LibraryInv'
<1> USE DEF timing
<1>1. LibraryTyped'
  BY DEF LibraryInv, LibraryTyped, TimingTypeOK, Places
<1>2. OneTimer'
  BY DEF LibraryInv, OneTimer
<1>3. Microseconds' = Microseconds
  BY DEF Microseconds
<1>4. Clocked'
  BY <1>3 DEF LibraryInv, Clocked, TimerClocked, StampWithinSession, Linear
<1> QED BY <1>1, <1>2, <1>4 DEF LibraryInv

\* What esp_init and esp_shutdown do but to the timestamp thread.
LEMMA SessionStep ==
  ASSUME IInv, LibraryInv,
         \/ (\E a \in Addresses : NewContext(a)) \/ InitBoss \/ StartDrain
         \/ StopDrain \/ JoinDrain \/ DeleteContext \/ ClearContext
  PROVE  LibraryInv'
<1> USE DEF LibraryInv, LibraryTyped, BossStep
<1> DEFINE D == [at : {"none", "loop", "drain", "look", "done"}, stillBusy : BOOLEAN,
                 base : Addresses \cup {Null}, session : Sessions]
<1>1. drain \in D /\ NoDrain \in D
  BY ClockAssumption DEF NoDrain, Sessions
<1>2. stage \in {"closed", "initthread", "drain", "delete", "clear"} => drain = NoDrain
  BY DEF DrainPlaced
<1>3. stage \notin {"drain", "open", "jointimer"} => timerThread = NoThread
  BY DEF OneTimer
<1>4. context \in Addresses \cup {Null}
  BY DEF IInv, Typed
<1>5. CASE \E a \in Addresses : NewContext(a)
  <2>1. /\ UNCHANGED <<timing, callers, runThread, drain>> /\ queued' = FALSE
        /\ sessions' = sessions + 1 /\ sessions < MaxSessions /\ stage = "closed"
    BY <1>5 DEF NewContext
  <2>2. sessions' \in Sessions
    BY <2>1, ClockAssumption DEF Sessions
  <2>3. DrainPlaced'
    BY <1>2, <2>1 DEF DrainPlaced
  <2> QED BY <1>1, <1>3, <2>1, <2>2, <2>3, StandStill
<1>6. CASE InitBoss
  <2>1. DrainPlaced'
    BY <1>2, <1>6 DEF InitBoss, DrainPlaced, draining
  <2> QED BY <1>1, <1>3, <1>6, <2>1, StandStill DEF InitBoss, draining
<1>7. CASE StartDrain
  <2> DEFINE d == [at |-> "loop", stillBusy |-> FALSE, base |-> context, session |-> sessions]
  <2>1. /\ UNCHANGED <<timing, callers, context, sessions, queued>> /\ runThread' = TRUE
        /\ drain' = d /\ stage' = "open"
    BY <1>7 DEF StartDrain
  <2>2. d \in D /\ d.base = context /\ d.session = sessions
    BY <1>4
  <2> HIDE DEF d
  <2>3. DrainPlaced'
    BY <2>1, <2>2 DEF DrainPlaced
  <2> QED BY <2>1, <2>2, <2>3, StandStill
<1>8. CASE StopDrain
  <2>1. DrainPlaced'
    BY <1>8 DEF StopDrain, DrainPlaced, memory
  <2> QED BY <1>1, <1>3, <1>8, <2>1, StandStill DEF StopDrain, memory
<1>9. CASE JoinDrain
  <2>1. DrainPlaced'
    BY <1>9 DEF JoinDrain, DrainPlaced
  <2> QED BY <1>1, <1>3, <1>9, <2>1, StandStill DEF JoinDrain, memory
<1>10. CASE DeleteContext
  <2>1. DrainPlaced'
    BY <1>2, <1>10 DEF DeleteContext, DrainPlaced, draining
  <2> QED BY <1>1, <1>3, <1>10, <2>1, StandStill DEF DeleteContext, draining
<1>11. CASE ClearContext
  <2>1. DrainPlaced'
    BY <1>2, <1>11 DEF ClearContext, DrainPlaced, draining
  <2> QED BY <1>1, <1>3, <1>11, <2>1, StandStill DEF ClearContext, draining
<1> QED BY <1>5, <1>6, <1>7, <1>8, <1>9, <1>10, <1>11

LEMMA DrainTurn ==
  ASSUME LibraryInv, Drain
  PROVE  LibraryInv'
<1> USE DEF LibraryInv, LibraryTyped, DrainStep
<1> DEFINE D == [at : {"none", "loop", "drain", "look", "done"}, stillBusy : BOOLEAN,
                 base : Addresses \cup {Null}, session : Sessions]
<1>1. UNCHANGED <<timing, callers, context, sessions, stage, runThread>>
  BY DEF Drain, DrainLoop, DrainQueues, LookAtQueues, memory, calls
<1>2. drain.at # "none"
  BY DEF Drain, DrainLoop, DrainQueues, LookAtQueues
<1>3. drain # NoDrain
  BY <1>2 DEF NoDrain
<1>4. queued' \in BOOLEAN
  BY DEF Drain, DrainLoop, DrainQueues, LookAtQueues
<1>5. drain' \in D /\ drain'.base = drain.base /\ drain'.session = drain.session
  <2>1. CASE DrainLoop
    <3>1. PICK l \in {"drain", "done"} : drain' = [drain EXCEPT !.at = l]
      BY <2>1 DEF DrainLoop
    <3> QED BY <3>1
  <2>2. CASE DrainQueues
    <3>1. drain' = [drain EXCEPT !.at = "look"]
      BY <2>2 DEF DrainQueues
    <3> QED BY <3>1
  <2>3. CASE LookAtQueues
    <3>1. drain' = [drain EXCEPT !.at = "loop", !.stillBusy = queued]
      BY <2>3 DEF LookAtQueues
    <3> QED BY <3>1
  <2> QED BY <2>1, <2>2, <2>3 DEF Drain
<1>6. DrainPlaced'
  BY <1>1, <1>3, <1>5 DEF DrainPlaced
<1> QED BY <1>1, <1>4, <1>5, <1>6, StandStill DEF OneTimer, timing

LEMMA CallTurn ==
  ASSUME LibraryInv, NEW t \in Threads, Thread(t)
  PROVE  LibraryInv'
<1> USE DEF LibraryInv, LibraryTyped
<1>1. UNCHANGED <<timing, callers, context, sessions, stage, runThread, drain>>
  BY DEF Thread, CallEvent, LoadContext, AssignContext, CheckContext, Stamp, Emit,
         CallFrameEnd, FrameEnd, ExitThread, InCall, memory, draining
<1>2. queued' \in BOOLEAN
  BY DEF Thread, CallEvent, LoadContext, AssignContext, CheckContext, Stamp, Emit,
         CallFrameEnd, FrameEnd, ExitThread, draining
<1>3. DrainPlaced'
  BY <1>1 DEF DrainPlaced
<1> QED BY <1>1, <1>2, <1>3, StandStill DEF OneTimer, timing

\* A timestamp thread as it is in memory.
TimerRecords == [at : Places, startTime : Nat,
                 last : [tv_sec : Nat, tv_nsec : 0 .. ONE_BILLION - 1]]

\* A step of a timestamp thread: no other one is running.
LEMMA OneTurn ==
  ASSUME LibraryInv, NEW s \in Timers, NEW from \in Running \cup {"begin"},
         NEW timer \in TimerRecords, TimerStep(s, from, timer), UNCHANGED OutsideTiming,
         current_timestamp' \in Nat, fresh' \in BOOLEAN, StampWithinSession', TimerClocked(s)'
  PROVE  LibraryInv'
<1> USE DEF LibraryInv, LibraryTyped
<1>1. /\ UNCHANGED <<clock, horizon, run_timestamp_thread, timerThread, started>>
      /\ UNCHANGED <<context, sessions, callers, stage, runThread, drain, queued>>
  BY DEF TimerStep, OutsideTiming, memory, calls, draining
<1>2. timers[s].at = from /\ timerThread = s
  BY DEF OneTimer, TimerStep, Running
<1>3. /\ timers' \in [Timers -> TimerRecords] /\ timers'[s] = timer
      /\ \A u \in Timers \ {s} : timers'[u] = timers[u]
  BY DEF TimerStep, TimingTypeOK, TimerRecords
<1>4. \A u \in Timers \ {s} : timers'[u].at \in {"none", "done"}
  BY <1>2, <1>3 DEF OneTimer
<1>5. OneTimer' /\ DrainPlaced'
  BY <1>1, <1>2, <1>4 DEF OneTimer, DrainPlaced
<1>6. LibraryTyped'
  BY <1>1, <1>3 DEF TimingTypeOK, TimerRecords
<1>7. Microseconds' = Microseconds
  BY <1>1 DEF Microseconds
<1>8. Clocked'
  <2>1. \A u \in Timers \ {s} : TimerClocked(u)'
    BY <1>4 DEF TimerClocked, Running
  <2> QED BY <1>1, <1>7, <2>1 DEF Clocked
<1> QED BY <1>5, <1>6, <1>8

LEMMA TimerTurn ==
  ASSUME LibraryInv, NEW s \in Timers, Timer(s), UNCHANGED OutsideTiming
  PROVE  LibraryInv' /\ (fresh => current_timestamp' >= current_timestamp)
<1> DEFINE x == timers[s]
           T == [tv_sec : Nat, tv_nsec : 0 .. ONE_BILLION - 1]
<1>1. /\ x \in TimerRecords /\ TimerClocked(s) /\ StampWithinSession
      /\ started \in Nat /\ started <= Microseconds /\ current_timestamp \in Nat
      /\ fresh \in BOOLEAN /\ clock \in Nat /\ Microseconds \in Nat
  BY NowTyped DEF LibraryInv, LibraryTyped, Clocked, TimingTypeOK, TimerRecords
<1>2. x.at \in Places /\ x.startTime \in Nat /\ x.last \in T
  BY <1>1 DEF TimerRecords
<1>3. Timespec(0) \in T /\ Timespec(clock) \in T
  BY <1>1, LinearAscends
<1>4. ASSUME TakeStartTime(s) PROVE LibraryInv' /\ UNCHANGED current_timestamp
  <2> DEFINE y == [x EXCEPT !.at = "loop", !.startTime = Microseconds]
  <2>1. TimerStep(s, "begin", y) /\ UNCHANGED <<current_timestamp, fresh>>
    BY <1>4 DEF TakeStartTime
  <2>2. y \in TimerRecords /\ y.at = "loop" /\ y.startTime = Microseconds
    BY <1>1, <1>2 DEF TimerRecords, Places
  <2> HIDE DEF y
  <2>3. timers'[s] = y /\ UNCHANGED <<started, clock>> /\ x.at = "begin"
    BY <2>1 DEF TimerStep, LibraryInv, LibraryTyped, TimingTypeOK
  <2>4. Microseconds' = Microseconds
    BY <2>3 DEF Microseconds
  <2>5. ~ fresh /\ ~ fresh'
    BY <1>1, <2>1, <2>3 DEF TimerClocked
  <2>6. TimerClocked(s)' /\ StampWithinSession'
    BY <1>1, <2>2, <2>3, <2>4, <2>5 DEF TimerClocked, StampWithinSession
  <2> QED BY <1>1, <2>1, <2>2, <2>6, OneTurn
<1>5. ASSUME LoopTimer(s) PROVE LibraryInv' /\ UNCHANGED current_timestamp
  <2> DEFINE go   == [x EXCEPT !.at = "read"]
             halt == [NotStarted EXCEPT !.at = "done"]
             y    == IF run_timestamp_thread THEN go ELSE halt
  <2>1. TimerStep(s, "loop", y) /\ UNCHANGED <<current_timestamp, fresh>>
    BY <1>5 DEF LoopTimer
  <2>2. go \in TimerRecords /\ go.at = "read" /\ go.startTime = x.startTime
    BY <1>1, <1>2 DEF TimerRecords, Places
  <2>3. halt \in TimerRecords /\ halt.at = "done"
    BY <1>3 DEF TimerRecords, Places, NotStarted
  <2> HIDE DEF go, halt
  <2>4. /\ y \in TimerRecords /\ y.at \in {"read", "done"}
        /\ y.at = "read" => y.startTime = x.startTime
    BY <2>2, <2>3
  <2> HIDE DEF y
  <2>5. timers'[s] = y /\ UNCHANGED <<started, clock>> /\ x.at = "loop"
    BY <2>1 DEF TimerStep, LibraryInv, LibraryTyped, TimingTypeOK
  <2>6. Microseconds' = Microseconds
    BY <2>5 DEF Microseconds
  <2>7. TimerClocked(s)' /\ StampWithinSession'
    BY <1>1, <2>1, <2>4, <2>5, <2>6 DEF TimerClocked, StampWithinSession, Running
  <2> QED BY <1>1, <2>1, <2>4, <2>7, OneTurn DEF Running
<1>6. ASSUME ReadClock(s) PROVE LibraryInv' /\ UNCHANGED current_timestamp
  <2> DEFINE y == [x EXCEPT !.at = "store", !.last = Timespec(clock)]
  <2>1. TimerStep(s, "read", y) /\ UNCHANGED <<current_timestamp, fresh>>
    BY <1>6 DEF ReadClock
  <2>2. y \in TimerRecords /\ y.at = "store" /\ y.startTime = x.startTime /\ y.last = Timespec(clock)
    BY <1>1, <1>2, <1>3 DEF TimerRecords, Places
  <2> HIDE DEF y
  <2>3. timers'[s] = y /\ UNCHANGED <<started, clock>> /\ x.at = "read"
    BY <2>1 DEF TimerStep, LibraryInv, LibraryTyped, TimingTypeOK
  <2>4. Microseconds' = Microseconds /\ Linear(s)' = Microseconds
    BY <2>2, <2>3 DEF Microseconds, Linear
  <2>5. TimerClocked(s)' /\ StampWithinSession'
    BY <1>1, <1>2, <2>1, <2>2, <2>3, <2>4 DEF TimerClocked, StampWithinSession, Running
  <2> QED BY <1>1, <2>1, <2>2, <2>5, OneTurn DEF Running
<1>7. NextTurn(s) \in TimerRecords /\ NextTurn(s).at = "loop" /\ NextTurn(s).startTime = x.startTime
  BY <1>1, <1>2, <1>3 DEF TimerRecords, Places, NextTurn
<1>8. ASSUME StoreTime(s)
      PROVE  LibraryInv' /\ (fresh => current_timestamp' >= current_timestamp)
  <2> DEFINE z == [x EXCEPT !.at = "asleep"]
             y == IF Target(s).tv_nsec < ONE_BILLION THEN z ELSE NextTurn(s)
  <2>1. /\ TimerStep(s, "store", y)
        /\ current_timestamp' = Linear(s) - x.startTime /\ fresh' = TRUE
    BY <1>8 DEF StoreTime, Sleep, Linear
  <2>2. z \in TimerRecords /\ z.at = "asleep" /\ z.startTime = x.startTime
    BY <1>1, <1>2 DEF TimerRecords, Places
  <2> HIDE DEF z
  <2>3. y \in TimerRecords /\ y.at \in {"asleep", "loop"} /\ y.startTime = x.startTime
    BY <1>7, <2>2
  <2> HIDE DEF y
  <2>4. timers'[s] = y /\ UNCHANGED <<started, clock>> /\ x.at = "store"
    BY <2>1 DEF TimerStep, LibraryInv, LibraryTyped, TimingTypeOK
  <2>5. Microseconds' = Microseconds
    BY <2>4 DEF Microseconds
  <2>6. Linear(s) \in Int
    BY <1>2, ClockAssumption DEF Linear, TimespecToLinearMicroseconds
  <2>7. /\ started <= x.startTime /\ x.startTime <= Linear(s) /\ Linear(s) <= Microseconds
        /\ fresh => current_timestamp <= Linear(s) - x.startTime
    BY <1>1, <2>4 DEF TimerClocked, Running
  <2>8. /\ current_timestamp' \in Nat /\ current_timestamp' <= Microseconds - started
        /\ current_timestamp' <= Microseconds - x.startTime
        /\ fresh => current_timestamp' >= current_timestamp
    BY <1>1, <1>2, <2>1, <2>6, <2>7
  <2>9. TimerClocked(s)' /\ StampWithinSession'
    BY <1>1, <1>2, <2>3, <2>4, <2>5, <2>7, <2>8 DEF TimerClocked, StampWithinSession, Running
  <2> QED BY <1>1, <2>1, <2>3, <2>8, <2>9, OneTurn DEF Running
<1>9. ASSUME Wake(s) PROVE LibraryInv' /\ UNCHANGED current_timestamp
  <2>1. TimerStep(s, "asleep", NextTurn(s)) /\ UNCHANGED <<current_timestamp, fresh>>
    BY <1>9 DEF Wake
  <2>2. timers'[s] = NextTurn(s) /\ UNCHANGED <<started, clock>> /\ x.at = "asleep"
    BY <2>1 DEF TimerStep, LibraryInv, LibraryTyped, TimingTypeOK
  <2>3. Microseconds' = Microseconds
    BY <2>2 DEF Microseconds
  <2>4. TimerClocked(s)' /\ StampWithinSession'
    BY <1>1, <1>7, <2>1, <2>2, <2>3 DEF TimerClocked, StampWithinSession, Running
  <2> QED BY <1>1, <1>7, <2>1, <2>4, OneTurn DEF Running
<1>10. current_timestamp' = current_timestamp => current_timestamp' >= current_timestamp
  BY <1>1
<1> QED BY <1>4, <1>5, <1>6, <1>8, <1>9, <1>10 DEF Timer

\* Time goes on: what was not ahead of the clock is not.
LEMMA TimePasses ==
  ASSUME LibraryInv, Time
  PROVE  LibraryInv' /\ UNCHANGED current_timestamp
<1> USE DEF LibraryInv, LibraryTyped
<1>1. /\ clock' = clock + 1 /\ clock \in Nat
      /\ UNCHANGED <<horizon, current_timestamp, run_timestamp_thread, timerThread, timers,
                     started, fresh>>
      /\ UNCHANGED <<context, sessions, callers, stage, runThread, drain, queued>>
  BY DEF Time, Tick, OutsideTiming, memory, calls, draining, TimingTypeOK
<1>2. LibraryTyped'
  BY <1>1 DEF TimingTypeOK
<1>3. OneTimer' /\ DrainPlaced'
  BY <1>1 DEF OneTimer, DrainPlaced
<1>4. Microseconds' = TimespecToLinearMicroseconds(Timespec(clock + 1))
  BY <1>1 DEF Microseconds
<1>5. Microseconds \in Nat /\ Microseconds' \in Nat /\ Microseconds <= Microseconds'
  BY <1>1, <1>2, <1>4, NowTyped, LinearAscends DEF Microseconds
<1>6. started \in Nat /\ started <= Microseconds' /\ StampWithinSession'
  <2>1. /\ started \in Nat /\ current_timestamp \in Nat /\ started <= Microseconds
        /\ fresh => current_timestamp <= Microseconds - started
    BY DEF Clocked, StampWithinSession, TimingTypeOK
  <2> DEFINE m == Microseconds
             n == TimespecToLinearMicroseconds(Timespec(clock + 1))
  <2>2. m \in Nat /\ n \in Nat /\ m <= n /\ started <= m
    BY <1>4, <1>5, <2>1
  <2> HIDE DEF m, n
  <2>3. started <= n /\ \A x \in Nat : x <= m - started => x <= n - started
    BY <2>1, <2>2
  <2>4. fresh => current_timestamp <= n - started
    BY <2>1, <2>3 DEF m
  <2> QED BY <1>1, <1>4, <2>1, <2>3, <2>4 DEF StampWithinSession, n
<1>7. ASSUME NEW s \in Timers PROVE TimerClocked(s)'
  <2>1. TimerClocked(s) /\ timers[s].startTime \in Nat /\ current_timestamp \in Nat
    BY DEF Clocked, TimingTypeOK
  <2>2. Linear(s)' = Linear(s) /\ Linear(s) \in Int
    BY <1>1, ClockAssumption DEF Linear, TimespecToLinearMicroseconds, TimingTypeOK
  <2> QED BY <1>1, <1>5, <2>1, <2>2 DEF TimerClocked
<1> QED BY <1>1, <1>2, <1>3, <1>6, <1>7 DEF Clocked

\* What esp_init and esp_shutdown do to the timestamp thread.
LEMMA TimerCallStep ==
  ASSUME IInv, LibraryInv, StartTimer \/ StopTimer \/ TimerJoined
  PROVE  LibraryInv' /\ UNCHANGED current_timestamp
<1> USE DEF LibraryInv, LibraryTyped
<1>1. /\ UNCHANGED <<clock, horizon, current_timestamp>>
      /\ UNCHANGED <<context, sessions, callers, runThread, drain, queued>>
  BY DEF StartTimer, StopTimer, TimerJoined, BossStep, StartTimestampUpdate,
         StopTimestampUpdate, JoinTimer, memory, draining
<1>2. Microseconds' = Microseconds /\ Microseconds \in Nat
  BY <1>1, NowTyped DEF Microseconds
<1>3. CASE StartTimer
  <2>1. /\ stage = "timer" /\ stage' = "drain" /\ timerThread' = sessions
        /\ timers' = [timers EXCEPT ![sessions].at = "begin"]
        /\ started' = Microseconds /\ fresh' = FALSE /\ run_timestamp_thread' = TRUE
    BY <1>3 DEF StartTimer, BossStep, StartTimestampUpdate
  <2>2. sessions \in Timers
    <3>1. contexts[context].session = sessions /\ contexts[context].session # 0
      BY <2>1 DEF IInv, StageContext, Live, Freed
    <3> QED BY <3>1, ClockAssumption DEF Sessions, Timers
  <2>3. timerThread = NoThread /\ drain = NoDrain
    BY <2>1 DEF OneTimer, DrainPlaced
  <2>4. /\ timers' \in [Timers -> [at : Places, startTime : Nat,
                                   last : [tv_sec : Nat, tv_nsec : 0 .. ONE_BILLION - 1]]]
        /\ timers'[sessions].at = "begin"
        /\ \A s \in Timers \ {sessions} : timers'[s] = timers[s]
    BY <2>1, <2>2 DEF TimingTypeOK, Places
  <2>5. \A s \in Timers : timers[s].at \in {"none", "done"}
    <3>1. \A s \in Timers : s # NoThread
      BY ClockAssumption DEF Timers, NoThread
    <3> QED BY <2>3, <3>1 DEF OneTimer
  <2>6. TimingTypeOK'
    BY <1>1, <1>2, <2>1, <2>2, <2>4 DEF TimingTypeOK
  <2>7. OneTimer' /\ DrainPlaced'
    BY <1>1, <2>1, <2>3, <2>4, <2>5 DEF OneTimer, DrainPlaced
  <2>8. Clocked'
    <3>1. ASSUME NEW s \in Timers PROVE TimerClocked(s)'
      BY <2>1, <2>4, <2>5 DEF TimerClocked, Running
    <3> QED BY <1>2, <2>1, <3>1 DEF Clocked, StampWithinSession
  <2> QED BY <1>1, <2>6, <2>7, <2>8
<1>4. ASSUME UNCHANGED <<timers, started, fresh>>, run_timestamp_thread' \in BOOLEAN,
             timerThread' \in Timers \cup {NoThread}, DrainPlaced', OneTimer'
      PROVE  LibraryInv'
  <2>1. TimingTypeOK'
    BY <1>1, <1>4 DEF TimingTypeOK, Places
  <2>2. Clocked'
    BY <1>1, <1>2, <1>4 DEF Clocked, TimerClocked, StampWithinSession, Linear
  <2> QED BY <1>1, <1>4, <2>1, <2>2
<1>5. CASE StopTimer
  <2>1. /\ stage = "open" /\ stage' = "jointimer" /\ run_timestamp_thread' = FALSE
        /\ UNCHANGED <<timerThread, timers, started, fresh>>
    BY <1>5 DEF StopTimer, BossStep, StopTimestampUpdate
  <2>2. OneTimer' /\ DrainPlaced'
    BY <1>1, <2>1 DEF OneTimer, DrainPlaced
  <2> QED BY <1>1, <1>4, <2>1, <2>2 DEF TimingTypeOK
<1>6. CASE TimerJoined
  <2>1. /\ stage = "jointimer" /\ stage' = "stopdrain" /\ timerThread' = NoThread
        /\ timerThread # NoThread => timers[timerThread].at = "done"
        /\ UNCHANGED <<run_timestamp_thread, timers, started, fresh>>
    BY <1>6 DEF TimerJoined, BossStep, JoinTimer
  <2>2. OneTimer'
    <3>1. \A s \in Timers : s # NoThread
      BY ClockAssumption DEF Timers, NoThread
    <3> QED BY <2>1, <3>1 DEF OneTimer
  <2>3. DrainPlaced'
    BY <1>1, <2>1 DEF DrainPlaced
  <2> QED BY <1>1, <1>4, <2>1, <2>2, <2>3 DEF TimingTypeOK
<1> QED BY <1>3, <1>5, <1>6

LEMMA LibraryStep ==
  ASSUME IInv, LibraryInv, [Next]_vars
  PROVE  LibraryInv' /\ (fresh => current_timestamp' >= current_timestamp)
<1>1. current_timestamp \in Nat
  BY DEF LibraryInv, LibraryTyped, TimingTypeOK
<1>2. UNCHANGED timing => UNCHANGED current_timestamp
  BY DEF timing
<1>3. CASE EspInit
  <2>1. CASE StartTimer
    BY <1>1, <2>1, TimerCallStep
  <2>2. CASE (\E a \in Addresses : NewContext(a)) \/ InitBoss \/ StartDrain
    <3>1. UNCHANGED timing
      BY <2>2 DEF NewContext, InitBoss, StartDrain
    <3> QED BY <1>1, <1>2, <2>2, <3>1, SessionStep
  <2> QED BY <1>3, <2>1, <2>2 DEF EspInit
<1>4. CASE EspShutdown
  <2>1. CASE StopTimer \/ TimerJoined
    BY <1>1, <2>1, TimerCallStep
  <2>2. CASE StopDrain \/ JoinDrain \/ DeleteContext \/ ClearContext
    <3>1. UNCHANGED timing
      BY <2>2 DEF StopDrain, JoinDrain, DeleteContext, ClearContext
    <3> QED BY <1>1, <1>2, <2>2, <3>1, SessionStep
  <2> QED BY <1>4, <2>1, <2>2 DEF EspShutdown
<1>5. CASE Drain
  <2>1. UNCHANGED timing
    BY <1>5 DEF Drain, DrainLoop, DrainQueues, LookAtQueues, DrainStep
  <2> QED BY <1>1, <1>2, <1>5, <2>1, DrainTurn
<1>6. CASE TimerThread
  BY <1>6, TimerTurn DEF TimerThread
<1>7. CASE Time
  BY <1>1, <1>7, TimePasses
<1>8. ASSUME NEW t \in Threads, Thread(t)
      PROVE  LibraryInv' /\ (fresh => current_timestamp' >= current_timestamp)
  <2>1. UNCHANGED timing
    BY <1>8 DEF Thread, CallEvent, LoadContext, AssignContext, CheckContext, Stamp, Emit,
                CallFrameEnd, FrameEnd, ExitThread, InCall
  <2> QED BY <1>1, <1>2, <1>8, <2>1, CallTurn
<1>9. CASE UNCHANGED vars
  <2>1. /\ UNCHANGED <<timing, callers, context, sessions, stage, runThread, drain, queued>>
    BY <1>9 DEF vars, memory, calls, draining
  <2>2. DrainPlaced'
    BY <2>1 DEF LibraryInv, DrainPlaced
  <2>3. LibraryInv'
    BY <2>1, <2>2, StandStill DEF LibraryInv, LibraryTyped, OneTimer, timing
  <2> QED BY <1>1, <1>2, <2>1, <2>3
<1> QED BY <1>3, <1>4, <1>5, <1>6, <1>7, <1>8, <1>9 DEF Next

LEMMA LibraryInvariance == Spec => []LibraryInv
<1>1. Init => LibraryInv
  BY LibraryInit
<1>2. IInv /\ LibraryInv /\ [Next]_vars => LibraryInv'
  BY LibraryStep
<1> QED BY <1>1, <1>2, Invariance, PTL DEF Spec

------------------------------------------------------------------------------
(* The theorems *)

\* Every variable of a session has its type: no session is more than the last
\* one begun, and a timestamp is never negative (Context.h:97, Timing.cpp:102).
THEOREM TypeCorrect == Spec => []TypeOK
<1>1. ASSUME IInv, LibraryInv PROVE TypeOK
  <2> USE <1>1 DEF IInv, Typed, LibraryInv, LibraryTyped
  <2>1. contexts \in [Addresses -> [session : Sessions, threadCount : Nat, consumer : BOOLEAN]]
    <3>1. \A a \in Addresses : contexts[a].session \in Sessions
      BY ClockAssumption DEF SessionsApart, Sessions
    <3>2. \A a \in Addresses : contexts[a] \in [session : Sessions, threadCount : Nat, consumer : BOOLEAN]
      BY <3>1
    <3> QED BY <3>2
  <2>2. threadContext \in [Threads -> {Null} \cup
          [base : Addresses, index : Nat, session : 1 .. MaxSessions]]
    <3>1. ASSUME NEW t \in Threads, threadContext[t] # Null
          PROVE  threadContext[t] \in [base : Addresses, index : Nat, session : 1 .. MaxSessions]
      <4>1. threadContext[t] \in [base : Addresses, index : Nat, session : Nat \ {0}]
        BY <3>1
      <4>2. threadContext[t].session \in 1 .. MaxSessions
        BY <3>1, <4>1, ClockAssumption DEF SessionsApart, Sessions
      <4> QED BY <4>1, <4>2
    <3> QED BY <3>1
  <2>3. pc \in [Threads -> {"idle", "load", "init", "check", "stamp", "emit",
                            "frame", "fault", "framefault"}]
    BY DEF Calls
  <2> QED BY <2>1, <2>2, <2>3 DEF TypeOK
<1> QED BY <1>1, Invariance, LibraryInvariance, PTL

\* esp_shutdown joins the drain thread before it deletes the context that holds
\* the queue (profile.cpp:54-59, Context.cpp:135): whatever memory is given to
\* the next session, the thread never uses a queue that is not its own.
THEOREM DrainThreadHasItsQueue == Spec => []DrainHasItsQueue
<1>1. ASSUME IInv, LibraryInv PROVE DrainHasItsQueue
  <2> SUFFICES ASSUME drain.at \in {"loop", "drain", "look"}
               PROVE  contexts[drain.base].session = drain.session
    BY DEF DrainHasItsQueue
  <2>1. drain # NoDrain
    BY DEF NoDrain
  <2> QED BY <1>1, <2>1 DEF IInv, LibraryInv, DrainPlaced, StageContext
<1> QED BY <1>1, Invariance, LibraryInvariance, PTL

\* From its session's first one on a timestamp counts from the start of that
\* session, although nothing resets it (Timing.cpp:95-102).
THEOREM StampsAreOfTheSession == Spec => []StampWithinSession
<1>1. LibraryInv => StampWithinSession
  BY DEF LibraryInv, Clocked
<1> QED BY <1>1, LibraryInvariance, PTL

\* The clock that the calls read does not go back within a session: there is
\* one timestamp thread at a time (Timing.cpp:115-126).
THEOREM TheClockAscends == Spec => ClockAscends
<1>1. IInv /\ LibraryInv /\ [Next]_vars => [fresh => current_timestamp' >= current_timestamp]_vars
  BY LibraryStep
<1> QED BY <1>1, Invariance, LibraryInvariance, PTL DEF Spec, ClockAscends
==============================================================================
