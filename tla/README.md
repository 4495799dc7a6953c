# A TLA+ model of libesp

libesp is a small in-process profiler. Instrumented threads call `esp_zone`,
`esp_end` and `esp_sample_*`; each call stamps an event and puts it into a
lock-free ring; one *drain thread* takes events out of the ring and writes them
to a stream file; a separate tool, `esp_uplift`, turns the file into a SQLite
database. This directory holds TLA+ models of it, TLC configurations that check
them on small instances, and theorems checked by TLAPS for all instances.

Source paths below are relative to `src/src/`.

## 1. Inventory

| Component | Source | State | Operations | What is hard |
|---|---|---|---|---|
| Lock-free ring | `queue/lockless_ring.h` | `front`, `readfront`, `back`, `buffer` | `TryEnqueue` (any thread), two `TryDequeue`s, `Empty`, `GetSize` | several enqueuing threads; a stale `back`; everything modulo capacity |
| String table | `map/pointer_hash.h`, `Context.cpp` `MapStringToReference` | slots of pointer and number, `nextIndex` | `Get`, `Put`, announcement to the string ring | a slot is claimed, numbered and announced in separate steps |
| Drain thread and writer | `Comms.cpp`, `EventStreamIO.cpp` | `runThread`, `stillBusy`, `writeBuffer`, the file | `DrainLoop`, `Drain`, `Flush`, `FlushStrings`, `ShutdownAndWait` | shutdown racing the last events; short writes; buffer limits |
| Instrumentation calls | `profile.cpp`, `Context.cpp` `ThreadContext`, `stack/slabstack.h` | per-thread zone stack, event ids, frame number, pause flag | `esp_zone`, `esp_end`, `esp_sample_*`, `esp_set_paused`, `esp_thread_init`, `esp_frame_end` | id, time and frame are read separately; full stack; pause inside a zone |
| Session life cycle | `profile.cpp`, `Context.cpp` | `_context`, `_thread_context`, `threadCount` | `esp_init`, `esp_shutdown` | calls that overlap them; threads that outlive a session; memory used again; more threads than contexts |
| Timestamp thread | `Timing.cpp` | `_current_timestamp`, `_run_timestamp_thread` | start, update, stop | clock restarting with a session; nanosecond arithmetic |
| Uplift | `uplift/` | the SQLite database | read a record, insert a row, begin and commit | torn streams, duplicate keys, statuses that are ignored, a locked database, being killed |

How they interact: an instrumentation call draws an id, reads the clock that the
timestamp thread stores, maps its name to a number through the string table
(which enqueues the name into the *string ring* the first time), and enqueues
the event into the *event ring*. The drain thread dequeues blocks of events and
single strings, and is told to stop through the plain flag `runThread`.
`esp_init` makes the context, the timestamp thread and the drain thread, and
`esp_shutdown` ends them in turn and deletes the context, which the threads still
point to. `esp_uplift` sees nothing of all this but the stream file.

What makes each correct is the list of its properties in section 3; what is hard
to test in each, at its line, is the list of hazards in `PROJECT.json`.

## 2. Modules

| Module | Models | Correspondence |
|---|---|---|
| `RingIndex` | the index arithmetic of the ring | `modcap`, `modcap_eq` and the block size of `TryDequeue(out, maxOut)`, as operators |
| `BoundedFifo` | what a ring promises | abstract: `Enqueue(v)`, `Dequeue(n)` on a sequence of at most `Room` items |
| `LocklessRing` | the ring with any number of enqueuing threads and one dequeuing thread | one action per atomic operation and per slot access: `LoadFront`, `Refuse` or `SeeRoom` (the load of `back` and its comparison), `Claim` or `Retry` (the compare-and-swap), `Write`, `Publish`; `FindEmpty`, `StartOne`, `StartBlock`, `CopySlot`, `Advance` |
| `StringTable` | `MapStringToReference` on `PointerHash` | `Get*` and `Put*` probe one slot per step; `Claim`, `DrawIndex`, `StoreIndex`, `Announce` are the steps of a successful `Put` and the announcement |
| `EventDrain` | the drain side up to and including `esp_shutdown` | `Loop`, `LoadCounters`, `CopyBlock`, `Fwrite(n)`, `WriteString`, `StringsFlushed`, `CheckEvents`, `CheckStrings`; `Shutdown`, `CloseFile`, `CloseFileFails`; the instrumented threads claim and publish events and strings |
| `ZoneStack` | the instrumentation calls within a session | `PausedZone`, `FullZone`, `BeginZone`, `BeginSample`, `StampID`, `StampTime`, `OpenZone`, `EmitSample`, `PausedEnd`, `EmptyEnd`, `End`; `SetPaused`, `FrameEnd`, `Tick` |
| `TimestampThread` | `Timing.cpp`, Linux | `TakeStartTime`, `LoopTimer`, `ReadClock`, `StoreTime` (and the call of `clock_nanosleep`), `Wake`; `StartTimestampUpdate`, `StopTimestampUpdate`, `JoinTimer` |
| `Session` | `esp_init`, `esp_shutdown` and the life of contexts; extends `TimestampThread` | one action per call the two make: `NewContext` to `StartDrain`, `StopTimer` to `ClearContext`; a call of an instrumented thread is `CallEvent`, `LoadContext`, `AssignContext`, `CheckContext`, `Stamp`, `Emit`, or `CallFrameEnd`, `FrameEnd`; the drain thread is `DrainLoop`, `DrainQueues`, `LookAtQueues` |
| `Recording` | a program as the stream file sees it | `OpenStream`, `RecordSample`, `WriteEvent`, `WriteString`, `WriteBlindly`, `CloseStream`, `CutShort`, `Spoil` |
| `Import` | what `esp_uplift` promises of the database | abstract: `Take(S)` merges all rows offered for the tables `S`; `TakeSome` is what is left of that when SQLite refuses a row |
| `Uplift` | `esp_uplift`; extends `Recording` | `Start`, `OpenDatabase`, `OpenDatabaseFails`, `CreateEvents`, `CreateStrings`, `PrepareEvents`, `PrepareStrings`, `StreamMissing`, `BeginBulkInsert`, `ReadRecord`, `ReadNoRecord`, `InsertNothing`, `InsertDuplicate`, `InsertRow`, `InsertFails`, `Finish` (`Commit` or `CommitFails`); `Kill`; `Lock` and `Unlock` of another connection |
| `RingIndexProofs`, `LocklessRingProofs`, `EventDrainProofs`, `StringTableProofs`, `ZoneStackProofs`, `SessionProofs`, `SessionClockProofs`, `UpliftProofs` | theorems | see section 5 |
| `MC...` | the modules above for TLC | symmetry, the hash function of the string table, the programs of `Session` and `Uplift` |

`EventDrain` uses `RingIndex` (twice, once per ring) and has the rings by their
counters: an item is its ticket, as long as no thread publishes before one that
claimed an earlier ticket. `LocklessRing` calls a ring where that has happened
*overtaken*, and shows that until then what is dequeued is, item by item, what
was accepted (`EmptyIsTruthful`, `EventuallyDelivered`), and from then on need
not be (`ring_duplicate`): so `EventDrain` keeps `overtaken` for each of its
rings, and a dequeue of an overtaken ring returns `Anything`. The comparison and
the compare-and-swap of an enqueue are one step there, as `TicketWindow` says
that the comparison still holds when the swap succeeds. `ZoneStack` has the
table and the ring as "a name is a name" and "an event is taken or refused".

`Session` has the inside of a call as "which memory does it touch", the rings as
"is there anything in them", and the drain thread as the loop that looks at
them: a call *faults* where it uses a null pointer, memory that is no live
context, a context beyond the array, or a consumer that is not set yet. What the
process does then is undefined, and nothing more is modelled.

`Recording` has the rings and the drain thread as what `EventDrain` shows of them
for the items of one thread whose writes succeed: two queues in order, a closed
stream that may lack the last events but no string. A program that dies, or whose
`fflush` or `fclose` fails, leaves any beginning of what was written (`CutShort`).
What a short `fwrite` of a string does to the bytes behind it, what an event looks
like of which a part stands in front of it, and what names and items several
threads mix up (`strings_wrong_name`, `strings_two_entries`, `ring_duplicate`), is
not followed byte by byte: all these end in a stream that is right up to some
record and has any records of `Misread` behind it (`Spoil`). The session is then
`spoilt`, which the properties about names except; those about the import hold of
such streams too.

Modelling decisions:

* *Memory.* Atomic operations are interleaved, i.e. sequentially consistent. The
  code mixes orders, but each hand-over of data has an acquire and a release
  side. `LostOnlyWhenLate` needs more than the language promises, namely that
  the store to the plain `runThread` is not seen before the enqueues ahead of
  it, as on x86, where the compare-and-swap is also a full barrier.
  `compare_exchange_weak` fails only when the value differs, which is so on x86,
  the only processor the library is for (`README.md:21` of the repository).
  Elsewhere it may fail for no reason: in the ring that would be one more
  `Retry`, but in `PointerHash::Put` the thread would step past a free slot
  (`map/pointer_hash.h:76`), and a `Get` of its name would later stop there.
  `ProbeChain` and `KnownNamesAreFound` do not hold then. The accesses to
  `buffer[]` are not atomic: a read or write that meets another thread's write
  may yield `Torn`.
* *Time.* A nanosecond is a step of the clock, of which there are four
  (`Thousand = 2`, `Million = 2`, so a "billion" is 4), enough to sleep to the
  end of a second and beyond it; behind the bound the clock is taken to reach one
  microsecond more, so that a sleep of that length ends. `ZoneStack` has a clock
  that only ascends, from 0: that of a first session. A later one begins with the
  time of the session before and jumps back when the timestamp thread first stores
  (`Timing.cpp:102`), which is in `Session`.
* *Short writes.* An `fwrite` of `Flush` takes any number of whole events and may
  stop inside the next, of which the file then has a part, ahead of the whole that
  the next turn writes (`EventStreamIO.cpp:49`); `fragments` has these parts, each
  with the number of events before it. Parts of one event at one place count once,
  and `MaxFragments` bounds them. An `fwrite` of a string that falls short leaves
  no whole string, and nobody notices (`stringCut`). A close that fails leaves any
  beginning of the file (`closeFailed`).
* *Memory of contexts.* An address is free again once its context is deleted and
  may be the next one's: both cases are explored. The constructor does not set
  `eventConsumer`; until `StartDrain` its use is a fault.
* *SQLite* is external: its default rollback journal and no busy handler, as
  `FileStore.cpp` opens it. A writer shuts other writers out from its first
  insert (`reserved`); a reader shuts a commit out. Besides, SQLite may refuse any
  call for a reason of its own, a full or read-only disk or no memory
  (`MaxFailures` times): the open, which `main` does not look at
  (`uplift.cpp:57`), a `CREATE`, a prepare, `BEGIN`, an insert, `COMMIT`. A refused
  insert may roll the transaction back, and the ones after it are then committed
  row by row. After a failed open the statements are uninitialized pointers: they
  are taken for NULL, or the tool ends (`Kill`). Cache spills before the commit
  and hot journals are left out: what SQLite promises of them is that nobody can
  tell.
* *The stream* is torn at the borders of what the reader reads at once (header,
  data, length) and at any character of a string. Names are shorter than the
  4096 bytes of `ReadRecord`'s buffer, and the tool is not run while the stream is
  recorded.
* `runThread` and `_run_timestamp_thread` are plain `bool`s. `DrainLoop` calls a
  virtual function between two reads, and the timestamp thread calls the C
  library, so the reads are not hoisted; they are modelled as a read per turn.
* *Counters* are naturals; the code's are `int` (ring) and 32 bits (ids). The
  models hold up to 2^31 - 1 tickets, 2^32 - 1 ids and 71 minutes per zone.
* `FindEmpty` changes nothing and is there for the control flow alone.
* A definition named `...Slip` is a plausible mistake in the definition after
  it. No specification uses it: with the definition replaced by its slip, TLC
  finds the property that `PROJECT.json` pairs it with violated.

## 3. Runs

| Run | Instance | Shows |
|---|---|---|
| `ring_one_producer` | 1 thread, capacity 3, 8 calls, blocks up to 3 | the ring implements `BoundedFifo` with room for capacity - 1 (`ImplementsFifo`); no slot is written while it is copied (`NoSlotRace`); a refusal means full (`RefusedOnlyWhenFull`) |
| `ring_producers` | 2 threads, capacity 3, 3 calls each | what several threads leave intact: `TicketWindow`; every ticket is dequeued before the ring looks empty (`EmptyIsTruthful`) and in the end (`EventuallyDelivered`), both with the items they were claimed for unless a thread was overtaken |
| `ring_duplicate` | 2 threads, capacity 3, 4 calls each | **violation** of `DeliveredOnce` |
| `drain` | 2 threads, rings of capacity 3, write buffer 3, threshold 2, 4 events, 2 strings, 1 part of an event | what was dequeued is in the file, in order, under all short writes (`WrittenInOrder`), buffer limits (`BatchFits`), what a shutdown saves (`StringsSurviveShutdown`, `LostOnlyWhenLate`), `ShutdownCompletes`, `EventsDrain` |
| `drain_loss` | 1 thread | **violation** of `ShutdownFlushesAll` |
| `strings_threads` | 2 threads, 3 names that collide, table of 3, 2 calls each, room for 2 announcements | `NumbersDistinct`, `ProbeChain`, `AnnouncedOnce`, `KnownNamesAreFound`, `CallsReturn` |
| `strings_wrong_name` | 2 threads, table of 4 | **violation** of `RefNamesString` |
| `strings_two_entries` | 2 threads, table of 4 | **violation** of `OneEntryPerString` |
| `zones` | 2 threads, stacks of 2, nesting up to 3, 3 events, pauses only outside zones | `EndClosesLastZone`, `CleanOutsideZones`, `ParentEncloses`, `NoDanglingParent`, `IdsUnique`, `StampsAscend` |
| `zones_paused` | 1 thread, pauses anywhere | **violation** of `EndClosesLastZone` |
| `session` | 2 threads, 2 addresses, contexts for 2 threads, 2 sessions; either both threads call at any time, or the clock goes on 3 steps | which calls may fault and which may not (`FaultsExplained`), whose context is whose (`ContextsOwned`), `DrainHasItsQueue`, `ClockAscends`, `StampWithinSession`, `ShutdownReturns` |
| `uplift` | 2 names, a table of 1, rings of 1, 2 sessions on one stream, 2 runs of the tool, 1 refusal that is not a lock's, 1 misread record | `ImplementsImport`, `LostOnlyWhenRefused`, `NamesResolve`, `TornNamesAreFew`, `UpliftReturns` |

Why the bounds are enough. Capacity 3 is the smallest at which a full ring (2
items), a block that wraps around the end of the buffer and a partly copied
block all exist; 8 calls go around the buffer more than twice, so every slot is
reused. Two threads are what every race in the code is between; the invariants
are proved for any number (section 5). In `drain` the write buffer is filled to
the threshold and beyond it, `fwrite` may write any part including nothing, both
rings can be full, and either can be overtaken. In `strings_threads` two names
hash to the last slot and one to the first, so probing wraps around; a name
entered twice and another fill the table, after which a call has to give up. In
`zones` a thread opens one zone more than its stack holds. In `session` the
second session meets the boss with the context of the first, at an address that
is new or the old one; the other thread may outlive the first session or be a
new one, and after it ends and comes back often enough there is one thread too
many. The clock and the calls are explored apart (`Programs`), since no step
depends on both: a call only reads the time. In `uplift` the first session has a
name for which the table has no room and more events than their ring holds, the
second numbers that name as the first did another, and the second run of the
tool finds the rows of the first, of the same session or the other one; the
misread record is a second event under a number that the stream already has. A
float and a negative integer are among the samples. An announcement that is
dropped because its ring is full does not occur there: it takes a table of two
names, an instance of two million states, for which liveness takes too long.
`RowsTell` covers it.

Deadlock is checked except in `StringTable`, `ZoneStack` and `Uplift`, which
stop when they have done what the bounds allow, and `Session`, which ends with a
fault. In `LocklessRing` the dequeuing thread polls for ever; `EventDrain` ends
in a closed session (`Done`).

Fairness. The drain thread loops without blocking until it is told to stop
(`Comms.cpp:15`), and a thread inside a call is runnable, hence weak fairness of
the drain thread's step and of each thread's step inside a call, but none of
starting a call. `EventDrain` also assumes that the disk is not full for ever:
`Flush` repeats `fwrite` without end (`EventStreamIO.cpp:48`), and some `fwrite`
has to write all it is asked to; of strings and of the close nothing is assumed.
A program need never call `esp_shutdown`; once it has, and the drain thread is
done, the join returns (`CloseFile` or `CloseFileFails`). `Session` assumes weak
fairness of the library's threads, of time, and of a shutdown that has begun;
`ShutdownReturns` is under the condition that the queues stay empty in the end,
since the drain thread runs on while threads go on calling. `Uplift` assumes
weak fairness of the tool and of the other connection's letting go, and strong
fairness of the insert: tried again and again, it gets the lock in the end
although others take it in between.

## 4. What the violations show

* **`ring_duplicate`** `readfront` counts publications. If thread A claims
  ticket 0 and thread B claims, writes and publishes ticket 1, `readfront` is 1
  and the drain thread reads slot 0, which A has not written: it gets what the
  slot held a turn ago, which is a second copy of an event, and A's event is
  lost (`queue/lockless_ring.h:77`). A string can be lost or repeated in the same
  way, as its ring is of the same kind. `NoSlotRace`, `RefusedOnlyWhenFull` and
  `ImplementsFifo` are lost too when several threads enqueue, which is why their
  run has one.
* **`drain_loss`** When the loop looks at `runThread` and `stillBusy` for the last
  time, `stillBusy` says nothing of the last event: it is what `Drain` computed
  before that event was enqueued or, as in the trace, the constructor's `false`,
  the drain thread not having come to its first `Drain`. The loop ends and the
  event stays in the ring (`Comms.cpp:15`). `LostOnlyWhenLate` shows that this is
  the only window *of the shutdown*: events are lost outside of it too, if the ring
  was overtaken or the file could not be closed. Strings have no such window, since
  the last `Flush` drains their ring, but not that of the events
  (`StringsSurviveShutdown`); they too can be lost in an overtaken ring or by a
  failed close, and by a short `fwrite`, which for them is not repeated.
* **`strings_wrong_name`** A slot's pointer can be seen before its number is
  stored; the reader returns 0 (`map/pointer_hash.h:96`).
* **`strings_two_entries`** The loser of the compare-and-swap goes on to the next
  slot even if the winner stored the same pointer (`map/pointer_hash.h:76`).
* **`zones_paused`** The program opens zone 1, pauses, enters another zone, which is
  not recorded (`profile.cpp:74`), resumes, and leaves it: `esp_end` pops and emits
  zone 1, in which the program still is. The other way round, a zone that is left in
  a pause stays on the stack (`profile.cpp:84`).

What the passing runs delimit. `session`: a call is safe if it lies within one
open session and its thread, one of the first `espMaxThreadCount`, got its
context in that session; or after it, if the thread has a context at all.
Outside of this the code has no protection: a thread that outlives a session,
the main one included, uses freed memory in the next (`Context.cpp:144`), or
another thread's context if the memory is the same; indexes are not bounded
(`Context.cpp:145`); `esp_frame_end` does not look for a null context as the
other calls do (`profile.cpp:69`). A session's clock counts from its start only
once its thread has stored a time; until then events carry the last time of the
session before. At a target of exactly a billion nanoseconds the timestamp
thread does not sleep but turns at once, which is all that `Timing.cpp:81` leads
to. `uplift`: rows are lost for good, with exit status 0, if the database cannot
be opened, if another connection holds a lock when the tables are made, the
statements prepared or the transaction committed, or if SQLite refuses one of
these calls, or an insert, for a reason of its own; `LostOnlyWhenRefused` says
that nothing else loses a row that the stream has: neither `SQLITE_BUSY` in an
insert, nor a duplicate, nor a torn record. An import into a database of another
session keeps the rows that are there, so that it holds a mix of both.
`NamesResolve` is about a database of one session whose stream is whole: closed
by the program, no write or close cut short, and no two threads that raced for a
name or for a slot of a ring. Of other streams the rows may lead to wrong names
or none, which is what `strings_wrong_name`, `ring_duplicate` and the unchecked
`fwrite`s (`EventStreamIO.cpp:31`) come to in the database; how many names a
death or a failed close can cut short, `TornNamesAreFew` says.

## 5. Proofs

`tlapm M.tla` checks a module M; `UpliftProofs` and `ZoneStackProofs` take a few
minutes. Every invariant and every action property of the passing runs and both
refinements are proved; the runs show on small instances what the theorems say
of all.

`RingIndexProofs` is about `RingIndex` for every capacity: division with
remainder and its uniqueness (`DivMod`, `SlotUnique`), the slot of a ticket d
later (`ModAdd`), that `modcap_eq` means equality within a window of capacity
tickets (`ModEqual`), that a ticket fits the window where `TryEnqueue` sees room
(`NextFull`), and that a block dequeue stays inside (`BlockInRing`).

`LocklessRingProofs` proves of `LocklessRing`, for every finite set of enqueuing
threads, every capacity and every bound on calls:

| Theorem | States |
|---|---|
| `TypeCorrect` | `Spec => []TypeOK` |
| `TicketsInWindow` | `Spec => []TicketWindow` |
| `EmptyMeansDelivered` | `Spec => []EmptyIsTruthful` |
| `OneProducerNoSlotRace` | `Spec => []NoSlotRace`, with one enqueuing thread |
| `OneProducerRefusals` | `Spec => RefusedOnlyWhenFull`, with one enqueuing thread |
| `OneProducerFifo` | `Spec => ImplementsFifo`, with one enqueuing thread |

The argument: `TicketWindow` is not inductive. `IInv` adds that `readfront` lags
`front` by exactly the number of threads between their compare-and-swap and
their publication (`TicketsCounted`), so that a publication keeps `readfront`
behind `front`; that a thread which saw room and whose `f` is still `front` may
claim (`LoadedFront`), since `front` only grows and cannot have left and come
back; that a dequeue has copied no more than it set out to (`Copying`); and that
the histories have the counters' lengths (`HistoriesCounted`). `InOrder`
(with `Tickets`, that every ticket is one thread's) carries what `EmptyIsTruthful`
says of items: as long as nobody has been overtaken, the threads publish in the
order of their tickets, so every published slot that is not yet dequeued has the
item its ticket was claimed for. With one thread,
`SoleTicket` puts its ticket at `readfront`, just outside what is being copied,
and `FrontIsFresh` says that its `f` is `front` whenever it compares. For
`OneProducerFifo` the invariant `Sole` adds that the thread's slot has its item
from the write to the publication (`Ready`) and that what a dequeue has copied is
what the slots still hold (`Copied`). Then a publication appends to the waiting
items (`PublishEnqueues`), the store of `back` takes a block off them
(`AdvanceDequeues`), and no other step is visible (`OtherStepsStutter`), the write
of a slot among them because no waiting ticket has it (`SlotsApart`). That there is
one enqueuing thread is needed: `ring_duplicate` shows what two do.

The assumptions are those the modules name: a positive capacity, finitely many
threads, a positive `MaxOut`.

`EventDrainProofs` proves of `EventDrain`, for any finite set of threads, both
capacities, any write buffer and any threshold below its size:

| Theorem | States |
|---|---|
| `TypeCorrect` | `Spec => []TypeOK` |
| `WritesInOrder` | `Spec => []WrittenInOrder` |
| `BatchesFit` | `Spec => []BatchFits` |
| `StringsSurvive` | `Spec => []StringsSurviveShutdown` |
| `EventsSurvive` | `Spec => []LostOnlyWhenLate` |

The argument: `EventWindow` and `StringWindow` are the ring's invariant once
more, for each ring. `EventsFiled` and `StringsFiled` say place by place what
the file and the buffer hold, and that together they end where `back` is; a
partial `fwrite` moves the border between them, and may leave a part of the
event at the border, which is the next whole one. Until a ring is overtaken,
what was dequeued of it are its tickets in order. `Buffering` says how full the
buffer may be at each place of the loop, `ShutdownIsLast` that nobody calls once
`runThread` is cleared, and `Drained` what the drain thread knows then: behind
its last look at a ring, that ring is empty, unless it looked too early.

`StringTableProofs` proves of `StringTable`, for any threads, names, size of the
table and hash function:

| Theorem | States |
|---|---|
| `TypeCorrect` | `Spec => []TypeOK` |
| `SlotsHaveTheirNumbers` | `Spec => []NumbersDistinct` |
| `GetMayStop` | `Spec => []ProbeChain` |
| `StringIDsAreKeys` | `Spec => []AnnouncedOnce` |
| `KnownNamesStay` | `Spec => []KnownNamesAreFound` |

The argument: `Dist` counts the steps of a probe around the table, and `Chain`
says that the slots before an entry are taken. `InCall` says where a call is: a
`Put` has passed taken slots only (`Reach`), so that claiming the next one keeps
the chain, and a `Get` of a known name has its entry still ahead (`Ahead`).
`Owners` keeps the slots and the numbers of two calls apart from the
compare-and-swap to the store, and `Announced` the number of a call that has not
announced it.

`ZoneStackProofs` proves of `ZoneStack`, for any threads and any depth of the stack:

| Theorem | States |
|---|---|
| `TypeCorrect` | `Spec => []TypeOK` |
| `IdsAreUnique` | `Spec => []IdsUnique` |
| `StampsAgree` | `Spec => []StampsAscend` |
| `ParentsExist` | `Spec => []NoDanglingParent` |
| `ParentsEnclose` | `Spec => []ParentEncloses` |
| `CleanAfterZones` | `Spec => []CleanOutsideZones`, if `PauseAnywhere = FALSE` |
| `EndClosesLast` | `Spec => EndClosesLastZone`, if `PauseAnywhere = FALSE` |

The argument: a zone is emitted when it ends, so what holds of the emitted events
has to hold of those on the stacks and of the one each thread is stamping before.
`Ids` says that an id is in one of these places only, `Order` how ids, times and
frames compare between them, `Tree` that a zone's parent is the one below it on the
stack. `Nesting` compares the stack with the zones the program means: they are the
same as long as neither a pause nor an overflow came between, and after an overflow
the stack is the shorter. A pause inside a zone breaks that, as `zones_paused`
shows, hence the condition of the last two; `zones` runs under it.

`SessionProofs` proves of `Session`, for any threads, addresses, limit of contexts
and number of sessions:

| Theorem | States |
|---|---|
| `ContextsAreOwned` | `Spec => []ContextsOwned` |
| `FaultsAreExplained` | `Spec => []FaultsExplained` |

The argument: a thread's index is below the count of the context that is still
there of its session (`Counted`), sessions are at one address each and none is
ahead of the last (`SessionsApart`), so the index that is handed out next is new.
A call that spans no change of the session finds the context that `stage` says is
there (`StageContext`) and has loaded that one (`CallsPlaced`), which is why it can
only fault for what its thread brought along. That `_thread_context` is never the
null pointer once assigned is `NullAssumption`.

`SessionClockProofs` proves of the two threads the library starts, for any clock and
any number of sessions:

| Theorem | States |
|---|---|
| `TypeCorrect` | `Spec => []TypeOK` |
| `DrainThreadHasItsQueue` | `Spec => []DrainHasItsQueue` |
| `StampsAreOfTheSession` | `Spec => []StampWithinSession` |
| `TheClockAscends` | `Spec => ClockAscends` |

The argument: the drain thread's context is the open one from its start to its join
(`DrainPlaced`). A timestamp thread that is neither unborn nor done is the one to be
joined (`OneTimer`), so there is one at a time; and what it last read lies between
what it stored and the clock, and its start time after that of the session
(`Clocked`). `LinearAscends` is the lemma behind it: the conversion to microseconds,
which cuts nanoseconds off, keeps the order.

`UpliftProofs` proves of `Uplift`, for any program that records, any names and
values, any size of the table and the rings, and any number of imports:

| Theorem | States |
|---|---|
| `TypeCorrect` | `Spec => []TypeOK` |
| `ImportRefined` | `Spec => ImplementsImport` |
| `NothingIsLost` | `Spec => []LostOnlyWhenRefused` |
| `TearsNeedCuts` | `Spec => []TornNamesAreFew` |
| `RowsTell` | `Spec => []NamesResolve` |

The argument has two halves. `Streamed` is about the stream: a stream that is not
spoilt has whole records but for the last (`Stored`); while it is written, each record
is in the file or in its queue, the names numbered in the order of the table (`Live`);
once it is closed, every event in it has its value and leads to its name (`Closed`).
`Imported` is about the tool (`ImportInvariant`): what it has read was readable
(`Reading`), and its transaction is the database and rows of what it has read, the
first for each key, and as long as SQLite has refused no row, a row for each
(`Loading`, with `Loaded` for one table), which at the commit are exactly the rows on
offer (`AllRead`, `LoadedAll`). A row that is given up, a transaction that is rolled
back and rows committed one by one leave the weaker half, that all of it is the
database's or the stream's (`Brought`), which is `TakeSome` of `Import`. `Unrefused`
adds that a tool of which nothing was refused has both tables and statements, `Few`
that the torn names, of the file and the database together, are no more than the
streams cut short, and `Sourced` that a table which takes rows of one session only has
them all from it.

What the theorems assume of the constants. Bounds on calls and events are natural
numbers. `EventDrain` has finitely many threads, since it counts them. `Recording`
takes samples of the range of their C type (`ValuesAssumption`), a file that is
missing for no sequence of records (`FileAssumption`), and fewer events in a session
than ids (`IDsAssumption`), a bound: beyond it `Context.cpp:184` wraps. The
runs evaluate all of them.

Only model-checked: liveness (`EventuallyDelivered`, `EventsDrain`,
`ShutdownCompletes`, `CallsReturn`, `ShutdownReturns`, `UpliftReturns`), which under
fairness is out of the prover's reach, and the properties the code violates.

## 6. Not modelled, and the plan

Not modelled: the Windows branch of `Timing.cpp`, the formatting of session names,
`esp_uplift` without an argument, `PointerHash::Lookup` and
`LocklessRingQueue::Full` (not called), `esp_init` or `esp_shutdown` twice in a row
(the first ends in `std::terminate` or a second drain thread, the second in a null
pointer), the build scripts, and the widths of the counters: beyond 2^31 - 1
tickets the arithmetic of the ring is undefined (`queue/lockless_ring.h:23`), and
event ids are cut to 32 bits (`Context.cpp:184`).

`sqlite3/` is vendored: over 156000 of the 158000 lines of source in the
repository are SQLite's, so the share of all lines that this project models is
small by necessity. It models about half of the 1800 that are libesp's own, headers
and comments included; the rest declares, includes and prints.

Next, in this order:

1. Proofs: that `Session` faults for no call of a well-behaved program, as a
   corollary of `FaultsAreExplained`; that the counters of a ring of `EventDrain`
   and those of `LocklessRing` implement one abstract ring; what several enqueuing
   threads leave of `BoundedFifo`.
2. `esp_init` twice in a row, and a stream that is read while it is recorded.
