------------------------------ MODULE Recording ------------------------------
(***************************************************************************)
(* An instrumented program as the stream file sees it: what esp_init and   *)
(* RawEventWriter (src/src/EventStreamIO.cpp) do to the file, and how the  *)
(* samples of one thread, each with the number of its name                 *)
(* (src/src/Context.cpp), get into it or are lost on the way.              *)
(*                                                                         *)
(* The rings and the drain thread are here by what EventDrain shows of one *)
(* thread's items: each ring keeps its order, the two are written in any   *)
(* order, and a closed stream lacks no string that was enqueued but may    *)
(* lack the last events.  A program that dies, or that cannot close its    *)
(* file, leaves any beginning of what was written.                         *)
(*                                                                         *)
(* What an fwrite that falls short, or two threads at once, can do to the  *)
(* records is not followed step by step: EventDrain, StringTable and       *)
(* LocklessRing do.  Here such a stream is spoilt, and what follows a part *)
(* of it may be any records at all, among them several for one row.        *)
(*                                                                         *)
(* Of the samples a zone is one that holds no other.  Threads, parents,    *)
(* frames and times are left out.                                          *)
(*                                                                         *)
(* The file is a sequence of records, a record so many pieces: an event's  *)
(* header and data; a string's header, length and characters.              *)
(*                                                                         *)
(* The module has no specification of its own; Uplift extends it.          *)
(***************************************************************************)
EXTENDS Integers, Sequences, FiniteSets, SequencesExt

CONSTANTS Names,        \* the names of the program's probes
          NameLength,   \* strlen of each
          Sample,       \* each probe's type and value: of a float its bits
          Word,         \* 2^32: the number of values of a uint32_t
          TableSize,    \* espStringTableSize
          StringRoom,   \* strings that fit the StringReferenceQueue
          EventRoom,    \* events that fit the event ring
          Script,       \* bound: the probes each session samples, in order
          Misread,      \* bound: what a reader may make of a spoilt stream
          MaxMisread,   \* bound: and of how many records
          NoFile        \* there is no stream file

Types == {"int", "uint", "float", "zone"}

ASSUME NamesAssumption ==
  /\ NameLength \in [Names -> Nat]
  /\ Sample \in [Names -> [type : Types, value : Int]]
  /\ Script \in Seq(Seq(Names))
ASSUME RoomsAssumption ==
  /\ Word \in Nat \ {0} /\ TableSize \in 0 .. Word - 1
  /\ StringRoom \in Nat /\ EventRoom \in Nat

\* A sample's value is one of its C type, int32_t or uint32_t, or 32 bits.
ASSUME ValuesAssumption ==
  \A n \in Names :
    IF Sample[n].type = "int"
    THEN -Word <= 2 * Sample[n].value /\ 2 * Sample[n].value < Word
    ELSE Sample[n].value \in 0 .. Word - 1

\* Bound: no session has so many events that an id wraps.
ASSUME IDsAssumption == \A s \in DOMAIN Script : Len(Script[s]) < Word

VARIABLES
  program,      \* recording, blind (the file cannot be opened), over
  table,        \* the names in the string table, in the order of their numbers
  stringQueue, eventQueue, \* what is yet to be written
  nextID,       \* nextMessageID
  file,         \* the stream file
  sessions,     \* how many there have been
  wrote,        \* history: whose records the file has, and all it should say
  cuts, spoilt  \* history: how many streams were cut short; the sessions whose
                \* streams were spoilt

queues    == <<table, stringQueue, eventQueue, nextID>>
mishaps   == <<cuts, spoilt>>
recording == <<program, queues, file, sessions, wrote, mishaps>>

NoRef == Word - 1     \* -1, the number of a name for which there is no room

EventSlip(id, ref, n) ==
  [kind |-> "event", id |-> id, ref |-> ref, type |-> Sample[n].type,
   value |-> Sample[n].value, pieces |-> 2]

Event(id, ref, n) ==
  [kind |-> "event", id |-> id, ref |-> ref, type |-> Sample[n].type,
   value |-> Sample[n].value % Word, pieces |-> 2]

String(ref, n) == [kind |-> "string", id |-> ref, name |-> n,
                   pieces |-> 2 + NameLength[n]]

\* Names are numbered from 0.
Number(n) == CHOOSE i \in 0 .. Len(table) - 1 : table[i + 1] = n

RecordingInit ==
  /\ program = "over" /\ file = NoFile
  /\ table = <<>> /\ stringQueue = <<>> /\ eventQueue = <<>> /\ nextID = 1
  /\ sessions = 0 /\ cuts = 0 /\ spoilt = {}
  /\ wrote = [session |-> 0, names |-> <<>>, dropped |-> {}, whole |-> FALSE]

\* With the session goes its ProfileContext.
Discard == table' = <<>> /\ stringQueue' = <<>> /\ eventQueue' = <<>> /\ nextID' = 1

\* esp_init: fopen "wb" empties an existing file; if it fails the session goes
\* on all the same.
OpenStream ==
  /\ program = "over" /\ sessions < Len(Script)
  /\ sessions' = sessions + 1
  /\ UNCHANGED queues
  /\ \/ /\ program' = "recording" /\ file' = <<>>
        /\ wrote' = [session |-> sessions + 1, names |-> <<>>, dropped |-> {},
                     whole |-> FALSE]
     \/ program' = "blind" /\ UNCHANGED <<file, wrote>>
  /\ UNCHANGED mishaps

\* esp_sample_...: a name that is new gets a number and is announced, once,
\* unless the ring of the strings is full.
RecordSample ==
  LET n     == Script[sessions][nextID]
      known == n \in Range(table)
      room  == Len(table) < TableSize
      told  == Len(stringQueue) < StringRoom
      ref   == IF known THEN Number(n) ELSE IF room THEN Len(table) ELSE NoRef
      new   == ~ known /\ room
  IN  /\ program \in {"recording", "blind"} /\ nextID <= Len(Script[sessions])
      /\ table' = IF new THEN Append(table, n) ELSE table
      /\ stringQueue' = IF new /\ told THEN Append(stringQueue, String(ref, n))
                                       ELSE stringQueue
      /\ eventQueue' = IF Len(eventQueue) < EventRoom
                       THEN Append(eventQueue, Event(nextID, ref, n))
                       ELSE eventQueue
      /\ nextID' = nextID + 1
      /\ wrote' = IF program = "blind" THEN wrote ELSE
           [wrote EXCEPT !.names = Append(@, n),
                         !.dropped = IF new /\ ~ told THEN @ \cup {n} ELSE @]
      /\ UNCHANGED <<program, file, sessions, mishaps>>

WriteEvent ==
  /\ program = "recording" /\ eventQueue # <<>>
  /\ file' = Append(file, Head(eventQueue)) /\ eventQueue' = Tail(eventQueue)
  /\ UNCHANGED <<program, table, stringQueue, nextID, sessions, wrote, mishaps>>

WriteString ==
  /\ program = "recording" /\ stringQueue # <<>>
  /\ file' = Append(file, Head(stringQueue)) /\ stringQueue' = Tail(stringQueue)
  /\ UNCHANGED <<program, table, eventQueue, nextID, sessions, wrote, mishaps>>

\* fwrite on a file that is not open ends the program.
WriteBlindly ==
  /\ program = "blind" /\ eventQueue \o stringQueue # <<>>
  /\ program' = "over"
  /\ Discard
  /\ UNCHANGED <<file, sessions, wrote, mishaps>>

\* esp_shutdown: events that the drain thread has not seen are lost.
End ==
  /\ program \in {"recording", "blind"} /\ program' = "over"
  /\ wrote' = IF program = "blind" THEN wrote ELSE [wrote EXCEPT !.whole = TRUE]
  /\ Discard
  /\ UNCHANGED <<file, sessions, mishaps>>

CloseStreamSlip == End
CloseStream     == End /\ stringQueue = <<>>

\* The program dies, or fflush or fclose fails, which nobody looks at: of what
\* was written, k records are on the disk and perhaps a part of the next.
CutShort ==
  /\ program = "recording" /\ program' = "over"
  /\ \E k \in 0 .. Len(file) :
       \/ file' = SubSeq(file, 1, k)
       \/ /\ k < Len(file)
          /\ \E p \in 1 .. file[k + 1].pieces - 1 :
               file' = Append(SubSeq(file, 1, k), [file[k + 1] EXCEPT !.pieces = p])
  /\ cuts' = cuts + 1
  /\ Discard
  /\ UNCHANGED <<sessions, wrote, spoilt>>

\* An fwrite of a string fell short and the program went on as if it had not,
\* one of events stopped inside an event, which then follows once more, or
\* threads have raced for a name or for a slot of a ring: from some record on,
\* the stream that is left has what the reader makes of it.
Spoil ==
  /\ program = "recording" /\ program' = "over"
  /\ \E k \in 0 .. Len(file), n \in 1 .. MaxMisread :
       \E rest \in [1 .. n -> Misread] : file' = SubSeq(file, 1, k) \o rest
  /\ spoilt' = spoilt \cup {wrote.session}
  /\ Discard
  /\ UNCHANGED <<sessions, wrote, cuts>>

RecordingNext ==
  \/ OpenStream \/ RecordSample \/ WriteEvent \/ WriteString \/ WriteBlindly
  \/ CloseStream \/ CutShort \/ Spoil

------------------------------------------------------------------------------
Words == 0 .. Word - 1

Records ==
  [kind : {"event"}, id : Words, ref : Words, type : Types,
   value : Words, pieces : 1 .. 2]
  \cup UNION {[kind : {"string"}, id : Words, name : {n},
               pieces : 1 .. 2 + NameLength[n]] : n \in Names}

\* The reader can read a record that has its header, and its data or length.
Readable(r) == r.pieces >= 2

ASSUME MisreadAssumption ==
  Misread \subseteq Records /\ MaxMisread \in Nat /\ \A r \in Misread : Readable(r)

\* No stream file is not a stream file.
ASSUME FileAssumption == NoFile \notin Seq(Records)

RecordingTypeOK ==
  /\ program \in {"recording", "blind", "over"}
  /\ table \in Seq(Names) /\ Len(table) <= TableSize
  /\ stringQueue \in Seq(Records) /\ Len(stringQueue) <= StringRoom
  /\ eventQueue \in Seq(Records) /\ Len(eventQueue) <= EventRoom
  /\ nextID \in Nat /\ sessions \in Nat /\ cuts \in Nat /\ spoilt \subseteq Nat
  /\ file = NoFile \/ file \in Seq(Records)
  /\ wrote \in [session : Nat, names : Seq(Names), dropped : SUBSET Names,
                whole : BOOLEAN]
==============================================================================
