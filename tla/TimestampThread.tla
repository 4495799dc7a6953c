--------------------------- MODULE TimestampThread ---------------------------
(***************************************************************************)
(* The timestamp thread (src/src/Timing.cpp, the Linux branch): started by *)
(* esp_init and stopped by esp_shutdown, it stores the microseconds since  *)
(* it started into the atomic that every instrumentation call reads.       *)
(*                                                                         *)
(* The stored time is not reset by anything: a session begins with the     *)
(* time the one before it ended with, until its own thread first stores.   *)
(*                                                                         *)
(* The module has no specification of its own; Session extends it.         *)
(***************************************************************************)
EXTENDS Integers

CONSTANTS MaxSessions,   \* bound: sessions, hence timestamp threads
          Thousand,      \* nanoseconds in a microsecond: 1000 in the code
          Million,       \* microseconds in a second: 1000000 in the code
          Boot           \* CLOCK_MONOTONIC when the program starts

ASSUME ClockAssumption ==
  /\ Thousand \in Nat \ {0} /\ Million \in Nat \ {0}
  /\ MaxSessions \in Nat /\ Boot \in Nat

VARIABLES
  clock,                 \* CLOCK_MONOTONIC, in nanoseconds
  horizon,               \* bound: how far the clock is seen to go
  current_timestamp,     \* _current_timestamp
  run_timestamp_thread,  \* _run_timestamp_thread
  timerThread,           \* _timerThread: the thread it holds, or NoThread
  timers,                \* the timestamp threads: where each is, its locals
  started,               \* history: microsecond the newest was started in
  fresh                  \* history: has the newest one stored a time yet?

timing == <<clock, horizon, current_timestamp, run_timestamp_thread,
            timerThread, timers, started, fresh>>

ONE_BILLION == Thousand * Million
NoThread    == 0
Timers      == 1 .. MaxSessions

\* A struct timespec.
Timespec(ns)      == [tv_sec |-> ns \div ONE_BILLION, tv_nsec |-> ns % ONE_BILLION]
Nanoseconds(spec) == spec.tv_sec * ONE_BILLION + spec.tv_nsec

TimespecToLinearMicroseconds(spec) ==
  spec.tv_sec * Million + spec.tv_nsec \div Thousand

Microseconds == TimespecToLinearMicroseconds(Timespec(clock))

\* While tv_nsec is more than a billion a second is carried: exactly a billion
\* stays where it is.
AddMicrosecondsSlip(spec, n) ==
  LET nsec == spec.tv_nsec + n * Thousand
  IN  IF nsec > ONE_BILLION
      THEN [tv_sec |-> spec.tv_sec + nsec, tv_nsec |-> 0]
      ELSE [spec EXCEPT !.tv_nsec = nsec]

AddMicroseconds(spec, n) ==
  LET nsec  == spec.tv_nsec + n * Thousand
      carry == (nsec - 1) \div ONE_BILLION
  IN  [tv_sec |-> spec.tv_sec + carry, tv_nsec |-> nsec - carry * ONE_BILLION]

NotStarted == [at |-> "none", startTime |-> 0, last |-> Timespec(0)]

TimingInit ==
  /\ clock = Boot /\ current_timestamp = 0 /\ run_timestamp_thread = TRUE
  /\ timerThread = NoThread /\ timers = [s \in Timers |-> NotStarted]
  /\ started = 0 /\ fresh = FALSE

------------------------------------------------------------------------------
(* What esp_init and esp_shutdown do. *)

\* The flag is set before the thread exists, which may see it at any time.
StartTimestampUpdate(s) ==
  /\ run_timestamp_thread' = TRUE
  /\ timers' = [timers EXCEPT ![s].at = "begin"]
  /\ timerThread' = s
  /\ started' = Microseconds /\ fresh' = FALSE
  /\ UNCHANGED <<clock, horizon, current_timestamp>>

StopTimestampUpdate ==
  /\ run_timestamp_thread' = FALSE
  /\ UNCHANGED <<clock, horizon, current_timestamp, timerThread, timers, started, fresh>>

\* _timerThread.join(), if it is joinable.
JoinTimerSlip ==
  /\ timerThread' = NoThread
  /\ UNCHANGED <<clock, horizon, current_timestamp, run_timestamp_thread, timers, started, fresh>>

JoinTimer ==
  /\ timerThread # NoThread => timers[timerThread].at = "done"
  /\ timerThread' = NoThread
  /\ UNCHANGED <<clock, horizon, current_timestamp, run_timestamp_thread, timers, started, fresh>>

------------------------------------------------------------------------------
(* update_timestamp_thread *)

TimerStep(s, from, timer) ==
  /\ timers[s].at = from
  /\ timers' = [timers EXCEPT ![s] = timer]
  /\ UNCHANGED <<clock, horizon, run_timestamp_thread, timerThread, started>>

TakeStartTimeSlip(s) ==
  /\ TimerStep(s, "begin", [timers[s] EXCEPT !.at = "loop"])
  /\ UNCHANGED <<current_timestamp, fresh>>

TakeStartTime(s) ==
  /\ TimerStep(s, "begin", [timers[s] EXCEPT !.at = "loop", !.startTime = Microseconds])
  /\ UNCHANGED <<current_timestamp, fresh>>

\* while (esp::_run_timestamp_thread).  Until the clock is read again
\* lastTimeSpec is of no use: its value is dropped where the turn ends.
LoopTimer(s) ==
  /\ TimerStep(s, "loop", IF run_timestamp_thread
                          THEN [timers[s] EXCEPT !.at = "read"]
                          ELSE [NotStarted EXCEPT !.at = "done"])
  /\ UNCHANGED <<current_timestamp, fresh>>

ReadClock(s) ==
  /\ TimerStep(s, "read", [timers[s] EXCEPT !.at = "store", !.last = Timespec(clock)])
  /\ UNCHANGED <<current_timestamp, fresh>>

NextTurn(s) == [timers[s] EXCEPT !.at = "loop", !.last = Timespec(0)]

Target(s) == AddMicroseconds(timers[s].last, 1)

\* The store, and the call of clock_nanosleep, which fails at once when
\* tv_nsec is not less than a billion.
Sleep(s) ==
  TimerStep(s, "store",
    IF Target(s).tv_nsec < ONE_BILLION THEN [timers[s] EXCEPT !.at = "asleep"]
                                       ELSE NextTurn(s))

StoreTimeSlip(s) ==
  /\ Sleep(s)
  /\ current_timestamp' =
       timers[s].startTime - TimespecToLinearMicroseconds(timers[s].last)
  /\ fresh' = TRUE

StoreTime(s) ==
  /\ Sleep(s)
  /\ current_timestamp' =
       TimespecToLinearMicroseconds(timers[s].last) - timers[s].startTime
  /\ fresh' = TRUE

\* The clock has reached the target; behind the bound it reaches one
\* microsecond more.
Wake(s) ==
  /\ TimerStep(s, "asleep", NextTurn(s))
  /\ \/ clock >= Nanoseconds(Target(s))
     \/ clock = horizon /\ Nanoseconds(Target(s)) <= horizon + Thousand
  /\ UNCHANGED <<current_timestamp, fresh>>

Timer(s) ==
  TakeStartTime(s) \/ LoopTimer(s) \/ ReadClock(s) \/ StoreTime(s) \/ Wake(s)

\* Time goes on.
Tick ==
  /\ clock < horizon
  /\ clock' = clock + 1
  /\ UNCHANGED <<horizon, current_timestamp, run_timestamp_thread, timerThread,
                 timers, started, fresh>>

------------------------------------------------------------------------------
Places == {"none", "begin", "loop", "read", "store", "asleep", "done"}

TimingTypeOK ==
  /\ clock \in Nat /\ horizon \in Nat /\ current_timestamp \in Nat
  /\ run_timestamp_thread \in BOOLEAN
  /\ timerThread \in Timers \cup {NoThread}
  /\ timers \in [Timers -> [at : Places, startTime : Nat,
                            last : [tv_sec : Nat, tv_nsec : 0 .. ONE_BILLION - 1]]]
  /\ started \in Nat /\ fresh \in BOOLEAN
==============================================================================
