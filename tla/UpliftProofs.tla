----------------------------- MODULE UpliftProofs -----------------------------
(***************************************************************************)
(* Theorems about Uplift and the Recording it extends, for every program   *)
(* that records, every size of its rings and tables, and any number of     *)
(* imports.                                                                *)
(*                                                                         *)
(* First the stream (Streamed): only the last of its records cannot be     *)
(* read, or, of a stream that is not spoilt, be torn, and the events of    *)
(* one that is being written, or is whole, lead to the names they were     *)
(* recorded with.  Then the tool (Imported): its transaction holds the     *)
(* rows of the database and rows of records it has read, and nothing else, *)
(* the first for each key and all of them if SQLite has refused none.      *)
(***************************************************************************)
EXTENDS Uplift, FiniteSetTheorems, SequenceTheorems, TLAPS

\* All of a record's pieces are there.
Whole(r) == r.pieces = IF r.kind = "string" THEN 2 + NameLength[r.name] ELSE 2

\* The event r is what its probe recorded.
Faithful(r) ==
  /\ r.id \in 1 .. Len(wrote.names)
  /\ r.type = Sample[wrote.names[r.id]].type
  /\ r.value = Sample[wrote.names[r.id]].value % Word

\* r is of the session that is being recorded.
Current(r) ==
  /\ Whole(r)
  /\ r.kind = "event" =>
       /\ Faithful(r) /\ r.id < nextID
       /\ r.ref = NoRef \/ (r.ref < Len(table) /\ table[r.ref + 1] = wrote.names[r.id])
  /\ r.kind = "string" => r.id < Len(table) /\ table[r.id + 1] = r.name

AllCurrent(s) == \A i \in 1 .. Len(s) : Current(s[i])

AllOf(s, kind) == \A i \in 1 .. Len(s) : s[i].kind = kind

\* There is a string numbered k.
Numbered(s, k) == \E i \in 1 .. Len(s) : s[i].kind = "string" /\ s[i].id = k

\* While a stream is written.
Live ==
  program = "recording" =>
    /\ file # NoFile /\ ~ wrote.whole /\ wrote.session \notin spoilt
    /\ Len(wrote.names) + 1 = nextID
    /\ AllCurrent(file) /\ AllCurrent(eventQueue) /\ AllCurrent(stringQueue)
    /\ AllOf(eventQueue, "event")
    /\ \A k \in 1 .. Len(table) :
         table[k] \in wrote.dropped \/ Numbered(file, k - 1) \/ Numbered(stringQueue, k - 1)

\* The stream file at any time.
Stored ==
  file # NoFile =>
    \A i \in 1 .. Len(file) : i < Len(file) =>
      Readable(file[i]) /\ (wrote.session \notin spoilt => Whole(file[i]))

\* The event r leads to its name in a stream that is whole.
Resolved(r) ==
  /\ \A j \in 1 .. Len(file) :
       file[j].kind = "string" /\ file[j].id = r.ref => file[j].name = wrote.names[r.id]
  /\ \/ r.ref = NoRef \/ wrote.names[r.id] \in wrote.dropped
     \/ Numbered(file, r.ref)

Closed ==
  wrote.whole =>
    /\ file # NoFile
    /\ \A i \in 1 .. Len(file) : Whole(file[i])
    /\ \A i \in 1 .. Len(file) : file[i].kind = "event" => Faithful(file[i]) /\ Resolved(file[i])

Counted ==
  /\ nextID # 0 /\ wrote.session <= sessions /\ \A x \in spoilt : x <= sessions
  /\ program \in {"recording", "blind"} => sessions \in 1 .. Len(Script)
  /\ program = "over" =>
       table = <<>> /\ stringQueue = <<>> /\ eventQueue = <<>> /\ nextID = 1

Streamed == RecordingTypeOK /\ Live /\ Stored /\ Closed /\ Counted

------------------------------------------------------------------------------
(* Sequences *)

LEMMA Appended ==
  ASSUME NEW R, NEW s \in Seq(R), NEW e \in R
  PROVE  /\ Append(s, e) \in Seq(R) /\ Len(Append(s, e)) = Len(s) + 1 /\ Len(s) \in Nat
         /\ Append(s, e)[Len(s) + 1] = e
         /\ \A i \in 1 .. Len(s) : Append(s, e)[i] = s[i] /\ i \in 1 .. Len(Append(s, e)) /\ i # Len(s) + 1
         /\ \A i \in 1 .. Len(Append(s, e)) : i \in 1 .. Len(s) \/ i = Len(s) + 1
OBVIOUS

LEMMA Tailed ==
  ASSUME NEW R, NEW s \in Seq(R), s # <<>>
  PROVE  /\ Head(s) \in R /\ Head(s) = s[1] /\ 1 \in 1 .. Len(s)
         /\ Tail(s) \in Seq(R) /\ Len(Tail(s)) = Len(s) - 1 /\ Len(s) \in Nat
         /\ \A i \in 1 .. Len(Tail(s)) :
              Tail(s)[i] = s[i + 1] /\ i + 1 \in 1 .. Len(s) /\ i + 1 # 1 /\ i \in Nat
OBVIOUS

LEMMA Begun ==
  ASSUME NEW R, NEW s \in Seq(R), NEW k \in 0 .. Len(s)
  PROVE  /\ SubSeq(s, 1, k) \in Seq(R) /\ Len(SubSeq(s, 1, k)) = k
         /\ \A i \in 1 .. k : SubSeq(s, 1, k)[i] = s[i] /\ i \in 1 .. Len(s)
OBVIOUS

------------------------------------------------------------------------------
(* Records *)

LEMMA RecordIs ==
  ASSUME NEW r \in Records
  PROVE  /\ r.kind \in {"event", "string"} /\ r.id \in Words /\ r.id \in Nat
         /\ r.pieces \in Nat /\ r.pieces >= 1
         /\ r.kind = "event" => /\ r.ref \in Words /\ r.value \in Words /\ r.type \in Types
                                /\ r.pieces <= 2
         /\ r.kind = "string" => /\ r.name \in Names /\ NameLength[r.name] \in Nat
                                 /\ r.pieces <= 2 + NameLength[r.name]
<1>1. CASE r \in [kind : {"event"}, id : Words, ref : Words, type : Types,
                  value : Words, pieces : 1 .. 2]
  BY <1>1 DEF Words
<1>2. ASSUME NEW n \in Names,
             r \in [kind : {"string"}, id : Words, name : {n}, pieces : 1 .. 2 + NameLength[n]]
      PROVE  /\ r.kind = "string" /\ r.id \in Words /\ r.id \in Nat
             /\ r.pieces \in Nat /\ r.pieces >= 1
             /\ r.name \in Names /\ NameLength[r.name] \in Nat
             /\ r.pieces <= 2 + NameLength[r.name]
  <2>1. NameLength[n] \in Nat
    BY NamesAssumption
  <2> QED BY <1>2, <2>1 DEF Words
<1> QED BY <1>1, <1>2 DEF Records

LEMMA EventIs ==
  ASSUME NEW id \in Words, NEW ref \in Words, NEW n \in Names
  PROVE  LET r == Event(id, ref, n)
         IN  /\ r \in Records /\ r.kind = "event" /\ r.id = id /\ r.ref = ref /\ r.pieces = 2
             /\ r.type = Sample[n].type /\ r.value = Sample[n].value % Word
<1>1. Sample[n].type \in Types /\ Sample[n].value \in Int
  BY NamesAssumption
<1>2. Sample[n].value % Word \in Words
  BY <1>1, RoomsAssumption, SMT DEF Words
<1> DEFINE v == Sample[n].value % Word
           r == [kind |-> "event", id |-> id, ref |-> ref, type |-> Sample[n].type,
                 value |-> v, pieces |-> 2]
<1>3. Event(id, ref, n) = r
  BY DEF Event
<1> HIDE DEF v
<1>4. r \in [kind : {"event"}, id : Words, ref : Words, type : Types,
             value : Words, pieces : 1 .. 2]
  BY <1>1, <1>2 DEF v
<1> QED BY <1>3, <1>4 DEF Records, v

LEMMA StringIs ==
  ASSUME NEW id \in Words, NEW n \in Names
  PROVE  LET r == String(id, n)
         IN  /\ r \in Records /\ r.kind = "string" /\ r.id = id /\ r.name = n
             /\ r.pieces = 2 + NameLength[n]
<1>1. NameLength[n] \in Nat
  BY NamesAssumption
<1>2. String(id, n) \in [kind : {"string"}, id : Words, name : {n}, pieces : 1 .. 2 + NameLength[n]]
  BY <1>1 DEF String
<1> QED BY <1>2 DEF Records, String

\* A record cut short is the beginning of one; a whole one can be read.
LEMMA TornIs ==
  ASSUME NEW r \in Records, NEW p \in 1 .. r.pieces - 1
  PROVE  [r EXCEPT !.pieces = p] \in Records
<1>1. CASE r \in [kind : {"event"}, id : Words, ref : Words, type : Types,
                  value : Words, pieces : 1 .. 2]
  <2>1. p \in 1 .. 2
    BY <1>1
  <2>2. [r EXCEPT !.pieces = p] \in [kind : {"event"}, id : Words, ref : Words,
            type : Types, value : Words, pieces : 1 .. 2]
    BY <1>1, <2>1
  <2> QED BY <2>2 DEF Records
<1>2. ASSUME NEW n \in Names,
             r \in [kind : {"string"}, id : Words, name : {n}, pieces : 1 .. 2 + NameLength[n]]
      PROVE  [r EXCEPT !.pieces = p] \in Records
  <2>1. NameLength[n] \in Nat /\ r.pieces \in 1 .. 2 + NameLength[n]
    BY <1>2, NamesAssumption
  <2>2. p \in 1 .. 2 + NameLength[n]
    BY <2>1
  <2>3. [r EXCEPT !.pieces = p] \in [kind : {"string"}, id : Words, name : {n},
                                     pieces : 1 .. 2 + NameLength[n]]
    BY <1>2, <2>2
  <2> QED BY <2>3 DEF Records
<1> QED BY <1>1, <1>2 DEF Records

LEMMA WholeReadable ==
  ASSUME NEW r \in Records, Whole(r)
  PROVE  Readable(r)
BY RecordIs DEF Whole, Readable

------------------------------------------------------------------------------
(* The stream *)

LEMMA StreamInit == RecordingInit => Streamed
<1> SUFFICES ASSUME RecordingInit PROVE Streamed
  OBVIOUS
<1> USE DEF RecordingInit
<1>1. RecordingTypeOK
  BY RoomsAssumption DEF RecordingTypeOK
<1>2. Live /\ Stored /\ Closed /\ Counted
  BY DEF Live, Stored, Closed, Counted
<1> QED BY <1>1, <1>2 DEF Streamed

\* What the program has recorded stays so while it records more.
LEMMA CurrentStays ==
  ASSUME RecordingTypeOK, NEW r \in Records, Current(r),
         nextID' \in Nat, nextID <= nextID',
         Len(table') \in Nat, Len(table) <= Len(table'),
         \A k \in 1 .. Len(table) : table'[k] = table[k],
         Len(wrote'.names) \in Nat, Len(wrote.names) <= Len(wrote'.names),
         \A k \in 1 .. Len(wrote.names) : wrote'.names[k] = wrote.names[k]
  PROVE  Current(r)'
<1>1. /\ nextID \in Nat /\ Len(table) \in Nat /\ Len(wrote.names) \in Nat
      /\ r.id \in Nat /\ (r.kind = "event" => r.ref \in Nat)
  BY RecordIs DEF RecordingTypeOK, Words
<1>2. Whole(r)'
  BY DEF Current, Whole
<1>3. ASSUME r.kind = "event"
      PROVE  /\ Faithful(r)' /\ r.id < nextID'
             /\ r.ref = NoRef \/ (r.ref < Len(table') /\ table'[r.ref + 1] = wrote'.names[r.id])
  <2>1. /\ Faithful(r) /\ r.id < nextID
        /\ r.ref = NoRef \/ (r.ref < Len(table) /\ table[r.ref + 1] = wrote.names[r.id])
    BY <1>3 DEF Current
  <2>2. wrote'.names[r.id] = wrote.names[r.id] /\ r.id \in 1 .. Len(wrote'.names)
    BY <1>1, <2>1 DEF Faithful
  <2>3. r.ref < Len(table) => table'[r.ref + 1] = table[r.ref + 1] /\ r.ref < Len(table')
    BY <1>1, <1>3
  <2>4. r.id < nextID'
    BY <1>1, <2>1
  <2> QED BY <2>1, <2>2, <2>3, <2>4 DEF Faithful
<1>4. ASSUME r.kind = "string" PROVE r.id < Len(table') /\ table'[r.id + 1] = r.name
  <2>1. r.id < Len(table) /\ table[r.id + 1] = r.name
    BY <1>4 DEF Current
  <2> QED BY <1>1, <2>1
<1> QED BY <1>2, <1>3, <1>4 DEF Current

\* fopen empties the file, or leaves it as it is.
LEMMA OpenKeeps ==
  ASSUME Streamed, OpenStream
  PROVE  Streamed'
<1> USE DEF Streamed, queues
<1>1. /\ UNCHANGED <<table, stringQueue, eventQueue, nextID, cuts, spoilt>>
      /\ sessions' = sessions + 1 /\ sessions \in Nat /\ sessions < Len(Script)
      /\ program = "over"
  BY DEF OpenStream, RecordingTypeOK, mishaps
<1>2. sessions' \in Nat /\ sessions' \in 1 .. Len(Script)
  BY <1>1, NamesAssumption
<1>c. \A x \in spoilt' : x <= sessions' /\ x # sessions'
  <2>1. \A x \in spoilt : x \in Nat /\ x <= sessions
    BY DEF Counted, RecordingTypeOK
  <2> QED BY <1>1, <2>1
<1>3. CASE program' = "blind" /\ UNCHANGED <<file, wrote>>
  <2>1. RecordingTypeOK'
    BY <1>1, <1>2, <1>3 DEF RecordingTypeOK
  <2>2. Live' /\ Stored' /\ Closed'
    BY <1>1, <1>3 DEF Live, Stored, Closed, Resolved, Faithful, Numbered, Whole
  <2>3. Counted'
    BY <1>1, <1>2, <1>3, <1>c DEF Counted, RecordingTypeOK
  <2> QED BY <2>1, <2>2, <2>3
<1>4. CASE /\ program' = "recording" /\ file' = <<>>
           /\ wrote' = [session |-> sessions + 1, names |-> <<>>, dropped |-> {}, whole |-> FALSE]
  <2>1. RecordingTypeOK'
    BY <1>1, <1>2, <1>4 DEF RecordingTypeOK
  <2>a. <<>> \in Seq(Records)
    OBVIOUS
  <2>b. file' # NoFile
    BY <1>4, <2>a, FileAssumption
  <2>c. table = <<>> /\ stringQueue = <<>> /\ eventQueue = <<>> /\ nextID = 1
    BY <1>1 DEF Counted
  <2>2. /\ table' = <<>> /\ stringQueue' = <<>> /\ eventQueue' = <<>> /\ nextID' = 1
        /\ file' # NoFile
    BY <1>1, <2>b, <2>c
  <2>3. Live'
    BY <1>1, <1>4, <1>c, <2>2 DEF Live, AllCurrent, AllOf
  <2>4. Stored' /\ Closed'
    BY <1>4 DEF Stored, Closed
  <2>5. Counted'
    BY <1>1, <1>2, <1>4, <1>c, <2>2 DEF Counted
  <2> QED BY <2>1, <2>3, <2>4, <2>5
<1> QED BY <1>3, <1>4 DEF OpenStream

\* A name's number, and the number that is no name's.
LEMMA NumberIs ==
  ASSUME table \in Seq(Names), NEW n \in Range(table)
  PROVE  Number(n) \in 0 .. Len(table) - 1 /\ table[Number(n) + 1] = n
<1>1. PICK k \in 1 .. Len(table) : table[k] = n
  BY DEF Range
<1>2. k - 1 \in 0 .. Len(table) - 1 /\ table[k - 1 + 1] = n
  BY <1>1
<1> QED BY <1>2 DEF Number

LEMMA NoRefIs == NoRef \in Words /\ \A k \in 0 .. TableSize - 1 : k \in Words /\ k # NoRef /\ k < NoRef
BY RoomsAssumption DEF NoRef, Words

\* A sample is an event of its own, and its name is numbered and announced, or
\* one for which there was no room (Context.cpp:158).
LEMMA SampleKeeps ==
  ASSUME Streamed, RecordSample
  PROVE  Streamed'
<1>n. PICK n : n = Script[sessions][nextID]
  OBVIOUS
<1> DEFINE known == n \in Range(table)
           room  == Len(table) < TableSize
           told  == Len(stringQueue) < StringRoom
           new   == ~ known /\ room
<1>r. PICK ref : ref = IF known THEN Number(n) ELSE IF room THEN Len(table) ELSE NoRef
  OBVIOUS
<1>e. PICK e : e = Event(nextID, ref, n)
  OBVIOUS
<1>q. PICK q : q = String(ref, n)
  OBVIOUS
<1> USE DEF Streamed
<1>1. /\ program \in {"recording", "blind"} /\ nextID <= Len(Script[sessions])
      /\ table' = IF new THEN Append(table, n) ELSE table
      /\ stringQueue' = IF new /\ told THEN Append(stringQueue, q) ELSE stringQueue
      /\ eventQueue' = IF Len(eventQueue) < EventRoom THEN Append(eventQueue, e) ELSE eventQueue
      /\ nextID' = nextID + 1
      /\ wrote' = IF program = "blind" THEN wrote ELSE
           [wrote EXCEPT !.names = Append(@, n),
                         !.dropped = IF new /\ ~ told THEN @ \cup {n} ELSE @]
      /\ UNCHANGED <<program, file, sessions, cuts, spoilt>>
  BY <1>n, <1>r, <1>e, <1>q DEF RecordSample, mishaps
<1>2. /\ table \in Seq(Names) /\ stringQueue \in Seq(Records) /\ eventQueue \in Seq(Records)
      /\ nextID \in Nat \ {0} /\ Len(table) <= TableSize /\ sessions \in 1 .. Len(Script)
      /\ Len(table) \in Nat
      /\ wrote \in [session : Nat, names : Seq(Names), dropped : SUBSET Names, whole : BOOLEAN]
      /\ wrote.names \in Seq(Names) /\ wrote.dropped \subseteq Names
  <2>1. RecordingTypeOK /\ nextID # 0 /\ sessions \in 1 .. Len(Script)
    BY <1>1 DEF Counted
  <2>2. wrote \in [session : Nat, names : Seq(Names), dropped : SUBSET Names, whole : BOOLEAN]
    BY <2>1 DEF RecordingTypeOK
  <2> QED BY <2>1, <2>2 DEF RecordingTypeOK
<1>3. n \in Names /\ nextID \in Words
  <2>1. Script[sessions] \in Seq(Names) /\ sessions \in DOMAIN Script
    BY <1>2, NamesAssumption
  <2>2. Len(Script[sessions]) < Word /\ Len(Script[sessions]) \in Nat
    BY <2>1, IDsAssumption
  <2>3. nextID \in 1 .. Len(Script[sessions])
    BY <1>1, <1>2, <2>2
  <2>4. Script[sessions][nextID] \in Names
    BY <2>1, <2>3
  <2> QED BY <1>n, <2>2, <2>3, <2>4, RoomsAssumption DEF Words
<1>4. /\ ref \in Words
      /\ new => ref = Len(table) /\ Len(table) < TableSize
      /\ known => ref < Len(table) /\ table[ref + 1] = n
      /\ ~ new /\ ~ known => ref = NoRef
  <2>1. known => Number(n) \in 0 .. Len(table) - 1 /\ table[Number(n) + 1] = n
    BY <1>2, NumberIs
  <2>2. \A k \in 0 .. Len(table) - 1 : k < Len(table) /\ k \in 0 .. TableSize - 1
    BY <1>2, RoomsAssumption
  <2>3. room => Len(table) \in 0 .. TableSize - 1
    BY <1>2, RoomsAssumption
  <2> QED BY <1>r, <2>1, <2>2, <2>3, NoRefIs
<1>5. /\ e \in Records /\ e.kind = "event" /\ e.id = nextID /\ e.ref = ref /\ e.pieces = 2
      /\ e.type = Sample[n].type /\ e.value = Sample[n].value % Word
  BY <1>e, <1>3, <1>4, EventIs
<1>6. q \in Records /\ q.kind = "string" /\ q.id = ref /\ q.name = n /\ q.pieces = 2 + NameLength[n]
  BY <1>q, <1>3, <1>4, StringIs
<1> HIDE DEF known, room, told, new
<1>7. /\ table' \in Seq(Names) /\ Len(table') \in Nat /\ Len(table') <= TableSize
      /\ Len(table) <= Len(table') /\ \A k \in 1 .. Len(table) : table'[k] = table[k]
      /\ new => Len(table') = Len(table) + 1 /\ table'[Len(table) + 1] = n
      /\ \A k \in 1 .. Len(table') : k \in 1 .. Len(table) \/ (new /\ k = Len(table) + 1)
  <2>1. CASE new
    <3>1. table' = Append(table, n) /\ Len(table) < TableSize
      BY <1>1, <1>4, <2>1
    <3>2. Len(table') = Len(table) + 1
      BY <1>2, <1>3, <3>1, Appended
    <3> QED BY <1>2, <1>3, <2>1, <3>1, <3>2, Appended, RoomsAssumption
  <2>2. CASE ~ new
    BY <1>1, <1>2, <2>2
  <2> QED BY <2>1, <2>2
<1>8. /\ stringQueue' \in Seq(Records) /\ eventQueue' \in Seq(Records)
      /\ Len(stringQueue') <= StringRoom /\ Len(eventQueue') <= EventRoom
  <2>1. Len(stringQueue) <= StringRoom /\ Len(eventQueue) <= EventRoom
    BY DEF RecordingTypeOK
  <2>2. \/ stringQueue' = stringQueue
        \/ stringQueue' = Append(stringQueue, q) /\ Len(stringQueue) < StringRoom
    BY <1>1 DEF told
  <2>3. \/ eventQueue' = eventQueue
        \/ eventQueue' = Append(eventQueue, e) /\ Len(eventQueue) < EventRoom
    BY <1>1
  <2>4. Len(Append(stringQueue, q)) = Len(stringQueue) + 1 /\ Append(stringQueue, q) \in Seq(Records)
    BY <1>2, <1>6, Appended
  <2>5. Len(Append(eventQueue, e)) = Len(eventQueue) + 1 /\ Append(eventQueue, e) \in Seq(Records)
    BY <1>2, <1>5, Appended
  <2>6. Len(stringQueue) \in Nat /\ Len(eventQueue) \in Nat
    BY <1>2
  <2>r. StringRoom \in Nat /\ EventRoom \in Nat
    BY RoomsAssumption
  <2>s. Len(stringQueue) < StringRoom => Len(stringQueue) + 1 <= StringRoom
    BY <2>r, <2>6
  <2>t. Len(eventQueue) < EventRoom => Len(eventQueue) + 1 <= EventRoom
    BY <2>r, <2>6
  <2>7. stringQueue' \in Seq(Records) /\ Len(stringQueue') <= StringRoom
    BY <1>2, <2>1, <2>2, <2>4, <2>s, Zenon
  <2>8. eventQueue' \in Seq(Records) /\ Len(eventQueue') <= EventRoom
    BY <1>2, <2>1, <2>3, <2>5, <2>t, Zenon
  <2> QED BY <2>7, <2>8
<1>9. /\ wrote' \in [session : Nat, names : Seq(Names), dropped : SUBSET Names, whole : BOOLEAN]
      /\ wrote'.session = wrote.session /\ wrote'.whole = wrote.whole
      /\ wrote'.names = IF program = "blind" THEN wrote.names ELSE Append(wrote.names, n)
      /\ wrote.dropped \subseteq wrote'.dropped
      /\ program = "recording" /\ new /\ ~ told => n \in wrote'.dropped
  <2> DEFINE names   == Append(wrote.names, n)
             dropped == IF new /\ ~ told THEN wrote.dropped \cup {n} ELSE wrote.dropped
  <2>1. names \in Seq(Names)
    BY <1>2, <1>3, Appended
  <2>2. dropped \in SUBSET Names /\ wrote.dropped \subseteq dropped /\ (new /\ ~ told => n \in dropped)
    BY <1>2, <1>3
  <2>3. program # "blind" => wrote' = [wrote EXCEPT !.names = names, !.dropped = dropped]
    BY <1>1
  <2>4. program = "blind" => wrote' = wrote
    BY <1>1
  <2> HIDE DEF names, dropped
  <2>5. CASE program # "blind"
    <3>1. wrote' = [wrote EXCEPT !.names = names, !.dropped = dropped]
      BY <2>3, <2>5
    <3>2. /\ wrote' \in [session : Nat, names : Seq(Names), dropped : SUBSET Names, whole : BOOLEAN]
          /\ wrote'.session = wrote.session /\ wrote'.whole = wrote.whole
          /\ wrote'.names = names /\ wrote'.dropped = dropped
      BY <1>2, <2>1, <2>2, <3>1
    <3> QED BY <2>2, <2>5, <3>2 DEF names
  <2>6. CASE program = "blind"
    BY <1>2, <2>4, <2>6
  <2> QED BY <2>5, <2>6
<1>10. RecordingTypeOK'
  BY <1>1, <1>2, <1>7, <1>8, <1>9 DEF RecordingTypeOK
<1>11. Counted'
  BY <1>1, <1>2, <1>9 DEF Counted
<1>12. Stored'
  BY <1>1, <1>9 DEF Stored, Whole
<1>13. CASE program = "blind"
  <2>1. wrote' = wrote /\ file' = file /\ program' = "blind"
    BY <1>1, <1>13
  <2>2. Live' /\ Closed'
    BY <2>1 DEF Live, Closed, Resolved, Faithful, Numbered, Whole
  <2> QED BY <1>10, <1>11, <1>12, <2>2
<1>14. CASE program = "recording"
  <2> USE <1>14 DEF Live
  <2>1. file \in Seq(Records) /\ file' = file
    BY <1>1 DEF RecordingTypeOK
  <2>2. /\ wrote'.names = Append(wrote.names, n) /\ Len(wrote.names) + 1 = nextID
        /\ Len(wrote'.names) = nextID /\ Len(wrote.names) \in Nat
        /\ wrote'.names[nextID] = n
        /\ \A k \in 1 .. Len(wrote.names) : wrote'.names[k] = wrote.names[k]
    BY <1>2, <1>3, <1>9, Appended
  <2>3. \A r \in Records : Current(r) => Current(r)'
    <3> SUFFICES ASSUME NEW r \in Records, Current(r) PROVE Current(r)'
      OBVIOUS
    <3>1. /\ nextID' \in Nat /\ nextID <= nextID'
          /\ Len(wrote'.names) \in Nat /\ Len(wrote.names) <= Len(wrote'.names)
      BY <1>1, <1>2, <2>2
    <3> QED BY <1>2, <1>7, <2>2, <3>1, CurrentStays
  <2>4. AllCurrent(file)' /\ \A i \in 1 .. Len(file) : file[i] \in Records
    BY <2>1, <2>3 DEF AllCurrent
  <2>5. Current(e)'
    <3>1. Whole(e)'
      BY <1>5 DEF Whole
    <3>2. nextID \in 1 .. Len(wrote'.names) /\ nextID < nextID'
      BY <1>1, <1>2, <2>2
    <3>3. Faithful(e)'
      BY <1>5, <2>2, <3>2 DEF Faithful
    <3>4. ref = NoRef \/ (ref < Len(table') /\ table'[ref + 1] = n)
      <4>1. CASE known
        <5>1. ref < Len(table) /\ table[ref + 1] = n /\ ref \in Nat
          BY <1>4, <4>1 DEF Words
        <5>2. ref + 1 \in 1 .. Len(table)
          BY <1>2, <5>1
        <5> QED BY <1>2, <1>7, <5>1, <5>2
      <4>2. CASE new
        BY <1>2, <1>4, <1>7, <4>2
      <4> QED BY <1>4, <4>1, <4>2
    <3> QED BY <1>5, <2>2, <3>1, <3>2, <3>3, <3>4 DEF Current
  <2>6. new => Current(q)'
    BY <1>2, <1>4, <1>6, <1>7 DEF Current, Whole
  <2>11. AllCurrent(eventQueue)' /\ AllOf(eventQueue', "event")
    <3>1. CASE eventQueue' = eventQueue
      <4>1. AllCurrent(eventQueue)'
        BY <1>2, <2>3, <3>1 DEF AllCurrent
      <4> QED BY <3>1, <4>1
    <3>2. CASE eventQueue' = Append(eventQueue, e)
      <4>1. \A i \in 1 .. Len(eventQueue') :
               \/ i \in 1 .. Len(eventQueue) /\ eventQueue'[i] = eventQueue[i]
               \/ eventQueue'[i] = e
        BY <1>2, <1>5, <3>2, Appended
      <4>2. \A i \in 1 .. Len(eventQueue) : eventQueue[i] \in Records
        BY <1>2
      <4>3. AllCurrent(eventQueue)'
        BY <2>3, <2>5, <4>1, <4>2 DEF AllCurrent
      <4>4. AllOf(eventQueue', "event")
        BY <1>5, <4>1 DEF AllOf
      <4> QED BY <4>3, <4>4
    <3> QED BY <1>1, <3>1, <3>2
  <2>12. AllCurrent(stringQueue)'
    <3>1. CASE stringQueue' = stringQueue
      BY <1>2, <2>3, <3>1 DEF AllCurrent
    <3>2. CASE new /\ told
      <4>1. stringQueue' = Append(stringQueue, q)
        BY <1>1, <3>2
      <4>2. \A i \in 1 .. Len(stringQueue') :
               \/ i \in 1 .. Len(stringQueue) /\ stringQueue'[i] = stringQueue[i]
               \/ stringQueue'[i] = q
        BY <1>2, <1>6, <4>1, Appended
      <4>3. \A i \in 1 .. Len(stringQueue) : stringQueue[i] \in Records
        BY <1>2
      <4> QED BY <2>3, <2>6, <3>2, <4>2, <4>3 DEF AllCurrent
    <3> QED BY <1>1, <3>1, <3>2
  <2>13. \A k \in Nat : Numbered(stringQueue, k) => Numbered(stringQueue', k)
    <3>1. CASE stringQueue' = stringQueue
      BY <3>1
    <3>2. CASE stringQueue' = Append(stringQueue, q)
      <4>1. \A i \in 1 .. Len(stringQueue) :
               i \in 1 .. Len(stringQueue') /\ stringQueue'[i] = stringQueue[i]
        BY <1>2, <1>6, <3>2, Appended
      <4> QED BY <4>1 DEF Numbered
    <3> QED BY <1>1, <3>1, <3>2
  <2>14. ASSUME NEW k \in 1 .. Len(table')
         PROVE  table'[k] \in wrote'.dropped \/ Numbered(file, k - 1) \/ Numbered(stringQueue', k - 1)
    <3>1. CASE k \in 1 .. Len(table)
      <4>1. k - 1 \in Nat
        OBVIOUS
      <4>2. table[k] \in wrote.dropped \/ Numbered(file, k - 1) \/ Numbered(stringQueue, k - 1)
        BY <3>1
      <4> QED BY <1>7, <1>9, <2>13, <3>1, <4>1, <4>2
    <3>2. CASE new /\ k = Len(table) + 1
      <4>1. table'[k] = n /\ k - 1 = ref
        BY <1>2, <1>4, <1>7, <3>2
      <4>2. CASE ~ told
        BY <1>9, <3>2, <4>1, <4>2
      <4>3. CASE told
        <5>1. stringQueue' = Append(stringQueue, q)
          BY <1>1, <3>2, <4>3
        <5>2. Len(stringQueue) + 1 \in 1 .. Len(stringQueue') /\ stringQueue'[Len(stringQueue) + 1] = q
          BY <1>2, <1>6, <5>1, Appended
        <5>3. Numbered(stringQueue', ref)
          BY <1>6, <5>2 DEF Numbered
        <5> QED BY <4>1, <5>3
      <4> QED BY <4>2, <4>3
    <3> QED BY <1>7, <3>1, <3>2
  <2>15. ~ wrote'.whole
    BY <1>9
  <2>16. Len(wrote'.names) + 1 = nextID'
    BY <1>1, <2>2
  <2>17. wrote'.session \notin spoilt'
    BY <1>1, <1>9
  <2>18. Live'
    BY <1>1, <2>1, <2>4, <2>11, <2>12, <2>14, <2>15, <2>16, <2>17 DEF Numbered
  <2>19. Closed'
    BY <2>15 DEF Closed
  <2> QED BY <1>10, <1>11, <1>12, <2>18, <2>19
<1> QED BY <1>1, <1>13, <1>14

\* The first record of a queue s moves to the end of the file f.
LEMMA Moved ==
  ASSUME NEW f \in Seq(Records), NEW s \in Seq(Records), s # <<>>
  PROVE  /\ Append(f, Head(s)) \in Seq(Records) /\ Tail(s) \in Seq(Records)
         /\ Len(Tail(s)) <= Len(s)
         /\ \A one : AllOf(s, one) => AllOf(Tail(s), one)
         /\ \A k \in Nat : Numbered(f, k) \/ Numbered(s, k) =>
              Numbered(Append(f, Head(s)), k) \/ Numbered(Tail(s), k)
<1> DEFINE h == Head(s)
           g == Append(f, h)
           t == Tail(s)
<1>1. /\ h \in Records /\ h = s[1] /\ 1 \in 1 .. Len(s) /\ t \in Seq(Records)
      /\ \A i \in 1 .. Len(t) : t[i] = s[i + 1] /\ i + 1 \in 1 .. Len(s) /\ i + 1 # 1 /\ i \in Nat
  BY Tailed
<1>2. Len(t) = Len(s) - 1 /\ Len(s) \in Nat
  BY Tailed
<1> HIDE DEF h, t
<1>6. /\ g \in Seq(Records) /\ Len(f) + 1 \in 1 .. Len(g) /\ g[Len(f) + 1] = h
      /\ \A i \in 1 .. Len(f) : g[i] = f[i] /\ i \in 1 .. Len(g)
  <2>1. Len(g) = Len(f) + 1 /\ Len(f) \in Nat
    BY <1>1, Appended
  <2>2. Len(f) + 1 \in 1 .. Len(g)
    BY <2>1
  <2> QED BY <1>1, <2>2, Appended
<1> HIDE DEF g
<1>7. ASSUME NEW one, AllOf(s, one) PROVE AllOf(t, one)
  BY <1>1, <1>7 DEF AllOf
<1>10. ASSUME NEW k \in Nat, Numbered(f, k) \/ Numbered(s, k)
       PROVE  Numbered(g, k) \/ Numbered(t, k)
  <2>1. CASE Numbered(f, k)
    BY <1>6, <2>1 DEF Numbered
  <2>2. CASE Numbered(s, k)
    <3>1. PICK i \in 1 .. Len(s) : s[i].kind = "string" /\ s[i].id = k
      BY <2>2 DEF Numbered
    <3>2. CASE i = 1
      <4>1. h.kind = "string" /\ h.id = k
        BY <1>1, <3>1, <3>2
      <4> QED BY <1>6, <4>1 DEF Numbered
    <3>3. CASE i # 1
      <4>1. i - 1 \in 1 .. Len(t) /\ i - 1 + 1 = i
        BY <1>2, <3>3
      <4>2. t[i - 1] = s[i]
        BY <1>1, <4>1
      <4> QED BY <3>1, <4>1, <4>2 DEF Numbered
    <3> QED BY <3>2, <3>3
  <2> QED BY <1>10, <2>1, <2>2
<1>11. Len(t) <= Len(s)
  BY <1>2
<1> QED BY <1>1, <1>6, <1>7, <1>10, <1>11 DEF g, h, t

LEMMA CurrentRests ==
  ASSUME NEW r, UNCHANGED <<table, nextID, wrote>>
  PROVE  Current(r)' <=> Current(r)
BY DEF Current, Whole, Faithful

\* The drain thread writes an event.
LEMMA WriteEventKeeps ==
  ASSUME Streamed, WriteEvent
  PROVE  Streamed'
<1> USE DEF Streamed
<1>1. /\ program = "recording" /\ eventQueue # <<>>
      /\ file' = Append(file, Head(eventQueue)) /\ eventQueue' = Tail(eventQueue)
      /\ UNCHANGED <<program, table, stringQueue, nextID, sessions, cuts, spoilt, wrote>>
  BY DEF WriteEvent, mishaps
<1>2. /\ file \in Seq(Records) /\ eventQueue \in Seq(Records) /\ stringQueue \in Seq(Records)
      /\ Len(eventQueue) <= EventRoom /\ EventRoom \in Nat
  BY <1>1, RoomsAssumption DEF RecordingTypeOK, Live
<1>3. /\ file' \in Seq(Records) /\ eventQueue' \in Seq(Records) /\ Len(eventQueue') <= Len(eventQueue)
      /\ AllOf(eventQueue', "event")
      /\ \A k \in Nat : Numbered(file, k) \/ Numbered(eventQueue, k) =>
           Numbered(file', k) \/ Numbered(eventQueue', k)
  BY <1>1, <1>2, Moved DEF Live
<1>4. AllCurrent(file)' /\ AllCurrent(eventQueue)' /\ AllCurrent(stringQueue)'
  <2>1. \A r : Current(r)' <=> Current(r)
    BY <1>1, CurrentRests
  <2>2. AllCurrent(file) /\ AllCurrent(eventQueue) /\ AllCurrent(stringQueue)
    BY <1>1 DEF Live
  <2>3. \A i \in 1 .. Len(file') :
           \/ i \in 1 .. Len(file) /\ file'[i] = file[i]
           \/ file'[i] = eventQueue[1] /\ 1 \in 1 .. Len(eventQueue)
    BY <1>1, <1>2, Tailed, Appended
  <2>4. \A i \in 1 .. Len(eventQueue') : eventQueue'[i] = eventQueue[i + 1] /\ i + 1 \in 1 .. Len(eventQueue)
    BY <1>1, <1>2, Tailed
  <2> QED BY <1>1, <2>1, <2>2, <2>3, <2>4 DEF AllCurrent
<1>5. RecordingTypeOK'
  <2>1. Len(eventQueue') <= EventRoom
    BY <1>2, <1>3
  <2> QED BY <1>1, <1>3, <2>1 DEF RecordingTypeOK
<1>6. file' # NoFile
  BY <1>3, FileAssumption
<1>7. ASSUME NEW k \in 1 .. Len(table)
      PROVE  table[k] \in wrote.dropped \/ Numbered(file', k - 1) \/ Numbered(stringQueue, k - 1)
  <2>1. k - 1 \in Nat
    OBVIOUS
  <2>2. ~ Numbered(eventQueue', k - 1)
    BY <1>3 DEF AllOf, Numbered
  <2> QED BY <1>1, <1>3, <2>1, <2>2 DEF Live
<1>8. Live'
  BY <1>1, <1>3, <1>4, <1>6, <1>7 DEF Live
<1>9. Stored'
  <2>1. \A i \in 1 .. Len(file') : file'[i] \in Records /\ Whole(file[i])'
    BY <1>3, <1>4 DEF AllCurrent, Current
  <2>2. \A i \in 1 .. Len(file') : Readable(file[i])'
    BY <2>1, RecordIs DEF Whole, Readable
  <2> QED BY <2>1, <2>2 DEF Stored
<1>10. Closed' /\ Counted'
  BY <1>1 DEF Live, Closed, Counted
<1> QED BY <1>5, <1>8, <1>9, <1>10

\* The drain thread writes a string.
LEMMA WriteStringKeeps ==
  ASSUME Streamed, WriteString
  PROVE  Streamed'
<1> USE DEF Streamed
<1>1. /\ program = "recording" /\ stringQueue # <<>>
      /\ file' = Append(file, Head(stringQueue)) /\ stringQueue' = Tail(stringQueue)
      /\ UNCHANGED <<program, table, eventQueue, nextID, sessions, cuts, spoilt, wrote>>
  BY DEF WriteString, mishaps
<1>2. /\ file \in Seq(Records) /\ eventQueue \in Seq(Records) /\ stringQueue \in Seq(Records)
      /\ Len(stringQueue) <= StringRoom /\ StringRoom \in Nat
  BY <1>1, RoomsAssumption DEF RecordingTypeOK, Live
<1>3. /\ file' \in Seq(Records) /\ stringQueue' \in Seq(Records) /\ Len(stringQueue') <= Len(stringQueue)
      /\ \A k \in Nat : Numbered(file, k) \/ Numbered(stringQueue, k) =>
           Numbered(file', k) \/ Numbered(stringQueue', k)
  BY <1>1, <1>2, Moved DEF Live
<1>4. AllCurrent(file)' /\ AllCurrent(eventQueue)' /\ AllCurrent(stringQueue)'
  <2>1. \A r : Current(r)' <=> Current(r)
    BY <1>1, CurrentRests
  <2>2. AllCurrent(file) /\ AllCurrent(eventQueue) /\ AllCurrent(stringQueue)
    BY <1>1 DEF Live
  <2>3. \A i \in 1 .. Len(file') :
           \/ i \in 1 .. Len(file) /\ file'[i] = file[i]
           \/ file'[i] = stringQueue[1] /\ 1 \in 1 .. Len(stringQueue)
    BY <1>1, <1>2, Tailed, Appended
  <2>4. \A i \in 1 .. Len(stringQueue') : stringQueue'[i] = stringQueue[i + 1] /\ i + 1 \in 1 .. Len(stringQueue)
    BY <1>1, <1>2, Tailed
  <2> QED BY <1>1, <2>1, <2>2, <2>3, <2>4 DEF AllCurrent
<1>5. RecordingTypeOK'
  <2>1. Len(stringQueue') <= StringRoom
    BY <1>2, <1>3
  <2> QED BY <1>1, <1>3, <2>1 DEF RecordingTypeOK
<1>6. file' # NoFile
  BY <1>3, FileAssumption
<1>7. ASSUME NEW k \in 1 .. Len(table)
      PROVE  table[k] \in wrote.dropped \/ Numbered(file', k - 1) \/ Numbered(stringQueue', k - 1)
  <2>1. k - 1 \in Nat
    OBVIOUS
  <2> QED BY <1>1, <1>3, <2>1 DEF Live
<1>8. Live'
  BY <1>1, <1>3, <1>4, <1>6, <1>7 DEF Live
<1>9. Stored'
  <2>1. \A i \in 1 .. Len(file') : file'[i] \in Records /\ Whole(file[i])'
    BY <1>3, <1>4 DEF AllCurrent, Current
  <2>2. \A i \in 1 .. Len(file') : Readable(file[i])'
    BY <2>1, RecordIs DEF Whole, Readable
  <2> QED BY <2>1, <2>2 DEF Stored
<1>10. Closed' /\ Counted'
  BY <1>1 DEF Live, Closed, Counted
<1> QED BY <1>5, <1>8, <1>9, <1>10

\* fopen failed, and the first write ends the program.
LEMMA WriteBlindlyKeeps ==
  ASSUME Streamed, WriteBlindly
  PROVE  Streamed'
<1> USE DEF Streamed
<1>1. /\ program' = "over" /\ UNCHANGED <<cuts, spoilt>>
      /\ table' = <<>> /\ stringQueue' = <<>> /\ eventQueue' = <<>> /\ nextID' = 1
      /\ UNCHANGED <<file, sessions, wrote>>
  BY DEF WriteBlindly, Discard, mishaps
<1>2. RecordingTypeOK'
  BY <1>1, RoomsAssumption DEF RecordingTypeOK
<1>3. Live' /\ Stored' /\ Closed' /\ Counted'
  BY <1>1 DEF Live, Stored, Closed, Resolved, Faithful, Numbered, Counted, Whole
<1> QED BY <1>2, <1>3

\* A record of a stream that is written leads to its name, once the ring of the
\* strings is empty.
LEMMA CurrentResolves ==
  ASSUME Streamed, program = "recording", stringQueue = <<>>,
         NEW i \in 1 .. Len(file), file[i].kind = "event"
  PROVE  Faithful(file[i]) /\ Resolved(file[i])
<1> USE DEF Streamed
<1>1. PICK r : r = file[i]
  OBVIOUS
<1>2. /\ file \in Seq(Records) /\ r \in Records /\ table \in Seq(Names) /\ Len(table) <= TableSize
  BY <1>1 DEF Live, RecordingTypeOK
<1>3. /\ Faithful(r)
      /\ r.ref = NoRef \/ (r.ref < Len(table) /\ table[r.ref + 1] = wrote.names[r.id])
  BY <1>1 DEF Live, AllCurrent, Current
<1>4. r.ref \in Nat /\ TableSize \in Nat /\ Len(table) \in Nat
  BY <1>1, <1>2, RecordIs, RoomsAssumption DEF Words
<1>5. ASSUME NEW j \in 1 .. Len(file), file[j].kind = "string", file[j].id = r.ref
      PROVE  file[j].name = wrote.names[r.id]
  <2>1. r.ref < Len(table) /\ table[r.ref + 1] = file[j].name
    BY <1>5 DEF Live, AllCurrent, Current
  <2>2. r.ref \in 0 .. TableSize - 1
    BY <1>2, <1>4, <2>1
  <2> QED BY <1>3, <2>1, <2>2, NoRefIs
<1>6. r.ref = NoRef \/ wrote.names[r.id] \in wrote.dropped \/ Numbered(file, r.ref)
  <2>1. CASE r.ref < Len(table) /\ table[r.ref + 1] = wrote.names[r.id]
    <3>1. PICK k : k = r.ref + 1
      OBVIOUS
    <3>2. k \in 1 .. Len(table) /\ k - 1 = r.ref /\ table[k] = wrote.names[r.id]
      BY <1>4, <2>1, <3>1
    <3>3. ~ Numbered(stringQueue, k - 1)
      BY DEF Numbered
    <3>4. table[k] \in wrote.dropped \/ Numbered(file, k - 1) \/ Numbered(stringQueue, k - 1)
      BY <3>2 DEF Live
    <3> QED BY <3>2, <3>3, <3>4
  <2> QED BY <1>3, <2>1
<1> QED BY <1>1, <1>3, <1>5, <1>6 DEF Resolved

\* esp_shutdown leaves a closed stream.
LEMMA CloseKeeps ==
  ASSUME Streamed, CloseStream
  PROVE  Streamed'
<1> USE DEF Streamed
<1>1. /\ program \in {"recording", "blind"} /\ program' = "over" /\ stringQueue = <<>>
      /\ wrote' = IF program = "blind" THEN wrote ELSE [wrote EXCEPT !.whole = TRUE]
      /\ table' = <<>> /\ stringQueue' = <<>> /\ eventQueue' = <<>> /\ nextID' = 1
      /\ UNCHANGED <<file, sessions, cuts, spoilt>>
  BY DEF CloseStream, End, Discard, mishaps
<1>2. /\ wrote' \in [session : Nat, names : Seq(Names), dropped : SUBSET Names, whole : BOOLEAN]
      /\ wrote'.names = wrote.names /\ wrote'.dropped = wrote.dropped /\ wrote'.session = wrote.session
      /\ program = "blind" => wrote'.whole = wrote.whole
  BY <1>1 DEF RecordingTypeOK
<1>3. RecordingTypeOK'
  <2>1. /\ program' = "over" /\ UNCHANGED <<file, sessions, cuts, spoilt>>
        /\ table' = <<>> /\ stringQueue' = <<>> /\ eventQueue' = <<>> /\ nextID' = 1
    BY <1>1
  <2>2. wrote' \in [session : Nat, names : Seq(Names), dropped : SUBSET Names, whole : BOOLEAN]
    BY <1>2
  <2>3. RecordingTypeOK
    OBVIOUS
  <2> HIDE DEF Streamed
  <2> QED BY <2>1, <2>2, <2>3, RoomsAssumption DEF RecordingTypeOK
<1>4. Live' /\ Stored' /\ Counted'
  BY <1>1, <1>2 DEF Live, Stored, Counted, Whole
<1>5. ASSUME NEW i \in 1 .. Len(file), file[i].kind = "event", Faithful(file[i]), Resolved(file[i])
      PROVE  (Faithful(file[i]) /\ Resolved(file[i]))'
  BY <1>1, <1>2, <1>5 DEF Faithful, Resolved, Numbered
<1>6. CASE program = "blind"
  BY <1>1, <1>2, <1>3, <1>4, <1>5, <1>6 DEF Closed, Whole
<1>7. CASE program = "recording"
  <2>1. file # NoFile /\ \A i \in 1 .. Len(file) : Whole(file[i])
    BY <1>7 DEF Live, AllCurrent, Current
  <2>2. \A i \in 1 .. Len(file) : file[i].kind = "event" => Faithful(file[i]) /\ Resolved(file[i])
    BY <1>1, <1>7, CurrentResolves
  <2>3. Closed'
    BY <1>1, <1>5, <2>1, <2>2 DEF Closed, Whole
  <2> QED BY <1>3, <1>4, <2>3
<1> QED BY <1>1, <1>6, <1>7

\* Of a stream that is cut short its beginning is left, whose last record may
\* be torn.
LEMMA CutShortKeeps ==
  ASSUME Streamed, CutShort
  PROVE  Streamed'
<1> USE DEF Streamed
<1>1. /\ program = "recording" /\ program' = "over" /\ cuts' = cuts + 1
      /\ table' = <<>> /\ stringQueue' = <<>> /\ eventQueue' = <<>> /\ nextID' = 1
      /\ UNCHANGED <<sessions, wrote, spoilt>>
  BY DEF CutShort, Discard
<1>2. PICK k \in 0 .. Len(file) :
        \/ file' = SubSeq(file, 1, k)
        \/ /\ k < Len(file)
           /\ \E p \in 1 .. file[k + 1].pieces - 1 :
                file' = Append(SubSeq(file, 1, k), [file[k + 1] EXCEPT !.pieces = p])
  BY DEF CutShort
<1>3. /\ file \in Seq(Records)
      /\ \A i \in 1 .. Len(file) : Whole(file[i]) /\ Readable(file[i])
  <2>1. file \in Seq(Records) /\ \A i \in 1 .. Len(file) : Whole(file[i])
    BY <1>1 DEF RecordingTypeOK, Live, AllCurrent, Current
  <2>2. \A i \in 1 .. Len(file) : file[i] \in Records
    BY <2>1
  <2> QED BY <2>1, <2>2, WholeReadable
<1> DEFINE s == SubSeq(file, 1, k)
<1>4. s \in Seq(Records) /\ Len(s) = k /\ \A i \in 1 .. k : s[i] = file[i] /\ i \in 1 .. Len(file)
  BY <1>3, Begun
<1> HIDE DEF s
<1>5. \A i \in 1 .. Len(s) : Whole(s[i]) /\ Readable(s[i])
  BY <1>3, <1>4
<1>6. /\ file' \in Seq(Records)
      /\ \A i \in 1 .. Len(file') : i < Len(file') => Whole(file'[i]) /\ Readable(file'[i])
  <2>1. CASE file' = s
    BY <1>4, <1>5, <2>1
  <2>2. ASSUME k < Len(file), NEW p \in 1 .. file[k + 1].pieces - 1,
               file' = Append(s, [file[k + 1] EXCEPT !.pieces = p])
        PROVE  /\ file' \in Seq(Records)
               /\ \A i \in 1 .. Len(file') : i < Len(file') => Whole(file'[i]) /\ Readable(file'[i])
    <3>1. k + 1 \in 1 .. Len(file) /\ k \in Nat
      BY <1>3, <2>2
    <3>2. PICK q : q = [file[k + 1] EXCEPT !.pieces = p]
      OBVIOUS
    <3>3. q \in Records
      BY <1>3, <3>1, <3>2, TornIs
    <3>4. file' = Append(s, q)
      BY <2>2, <3>2
    <3>5. file' \in Seq(Records)
      BY <1>4, <3>3, <3>4, Appended
    <3>6. ASSUME NEW i \in 1 .. Len(file'), i < Len(file') PROVE Whole(file'[i]) /\ Readable(file'[i])
      <4>1. Len(file') = Len(s) + 1
        BY <1>4, <3>3, <3>4, Appended
      <4>2. i \in 1 .. Len(s)
        BY <1>4, <3>1, <3>6, <4>1
      <4> QED BY <1>4, <1>5, <3>3, <3>4, <4>2, Appended
    <3> QED BY <3>5, <3>6
  <2> QED BY <1>2, <2>1, <2>2 DEF s
<1>7. RecordingTypeOK'
  BY <1>1, <1>6, RoomsAssumption DEF RecordingTypeOK
<1>8. Live' /\ Counted'
  BY <1>1 DEF Live, Counted
<1>9. Stored'
  BY <1>6 DEF Stored, Whole
<1>10. Closed'
  BY <1>1 DEF Live, Closed
<1> QED BY <1>7, <1>8, <1>9, <1>10

\* In what follows s another sequence is at its place.
LEMMA Followed ==
  ASSUME NEW R, NEW s \in Seq(R), NEW rest \in Seq(R)
  PROVE  /\ s \o rest \in Seq(R)
         /\ \A i \in 1 .. Len(s \o rest) :
              \/ i \in 1 .. Len(s) /\ (s \o rest)[i] = s[i]
              \/ i - Len(s) \in 1 .. Len(rest) /\ (s \o rest)[i] = rest[i - Len(s)]
BY LenProperties, ConcatProperties

\* A stream that is spoilt can be read all the same.
LEMMA SpoilKeeps ==
  ASSUME Streamed, Spoil
  PROVE  Streamed'
<1> USE DEF Streamed
<1>1. /\ program = "recording" /\ program' = "over" /\ spoilt' = spoilt \cup {wrote.session}
      /\ table' = <<>> /\ stringQueue' = <<>> /\ eventQueue' = <<>> /\ nextID' = 1
      /\ UNCHANGED <<sessions, wrote, cuts>>
  BY DEF Spoil, Discard
<1>2. PICK k \in 0 .. Len(file), n \in 1 .. MaxMisread :
        \E rest \in [1 .. n -> Misread] : file' = SubSeq(file, 1, k) \o rest
  BY DEF Spoil
<1>3. PICK rest \in [1 .. n -> Misread] : file' = SubSeq(file, 1, k) \o rest
  BY <1>2
<1>4. file \in Seq(Records) /\ \A i \in 1 .. Len(file) : file[i] \in Records /\ Readable(file[i])
  <2>1. file \in Seq(Records) /\ \A i \in 1 .. Len(file) : Whole(file[i])
    BY <1>1 DEF RecordingTypeOK, Live, AllCurrent, Current
  <2>2. \A i \in 1 .. Len(file) : file[i] \in Records
    BY <2>1
  <2> QED BY <2>1, <2>2, WholeReadable
<1>5. rest \in Seq(Records) /\ \A i \in 1 .. Len(rest) : Readable(rest[i])
  <2>1. n \in Nat /\ Misread \subseteq Records /\ \A r \in Misread : Readable(r)
    BY MisreadAssumption
  <2>2. rest \in [1 .. n -> Records]
    BY <2>1
  <2>3. rest \in Seq(Records) /\ Len(rest) = n
    BY <2>1, <2>2
  <2> QED BY <2>1, <2>3
<1>6. PICK s : s = SubSeq(file, 1, k)
  OBVIOUS
<1>7. s \in Seq(Records) /\ Len(s) = k /\ \A i \in 1 .. k : s[i] = file[i] /\ i \in 1 .. Len(file)
  BY <1>4, <1>6, Begun
<1>8. \A i \in 1 .. Len(s) : Readable(s[i])
  BY <1>4, <1>7
<1>9. file' \in Seq(Records) /\ \A i \in 1 .. Len(file') : Readable(file'[i])
  <2>1. PICK f : f = s \o rest
    OBVIOUS
  <2>2. /\ f \in Seq(Records)
        /\ \A i \in 1 .. Len(f) :
             \/ i \in 1 .. Len(s) /\ f[i] = s[i]
             \/ i - Len(s) \in 1 .. Len(rest) /\ f[i] = rest[i - Len(s)]
    BY <1>5, <1>7, <2>1, Followed
  <2>3. file' = f
    BY <1>3, <1>6, <2>1
  <2> QED BY <1>5, <1>8, <2>2, <2>3
<1>10. RecordingTypeOK'
  <2>1. wrote.session \in Nat /\ spoilt \subseteq Nat
    BY DEF RecordingTypeOK
  <2>2. spoilt' \subseteq Nat
    BY <1>1, <2>1
  <2>3. RecordingTypeOK
    OBVIOUS
  <2> HIDE DEF Streamed
  <2> QED BY <1>1, <1>9, <2>2, <2>3, RoomsAssumption DEF RecordingTypeOK
<1>11. Live' /\ Counted'
  BY <1>1 DEF Live, Counted
<1>12. Stored'
  BY <1>1, <1>9 DEF Stored
<1>13. Closed'
  BY <1>1 DEF Live, Closed
<1> QED BY <1>10, <1>11, <1>12, <1>13

LEMMA StreamKeeps == Streamed /\ [RecordingNext]_recording => Streamed'
<1> SUFFICES ASSUME Streamed, [RecordingNext]_recording PROVE Streamed'
  OBVIOUS
<1>1. CASE RecordingNext
  BY <1>1, OpenKeeps, SampleKeeps, WriteEventKeeps, WriteStringKeeps, WriteBlindlyKeeps,
     CloseKeeps, CutShortKeeps, SpoilKeeps DEF RecordingNext
<1>2. CASE UNCHANGED recording
  <2>1. UNCHANGED <<program, table, stringQueue, eventQueue, nextID, file, sessions, cuts, spoilt, wrote>>
    BY <1>2 DEF recording, queues, mishaps
  <2>2. \A r : Current(r)' <=> Current(r)
    BY <2>1, CurrentRests
  <2>3. RecordingTypeOK' /\ Counted' /\ Stored'
    BY <2>1 DEF Streamed, RecordingTypeOK, Counted, Stored, Whole
  <2>4. Live'
    BY <2>1, <2>2 DEF Streamed, Live, AllCurrent
  <2>5. Closed'
    BY <2>1 DEF Streamed, Closed, Resolved, Faithful, Whole
  <2> QED BY <2>3, <2>4, <2>5 DEF Streamed
<1> QED BY <1>1, <1>2

------------------------------------------------------------------------------
(* The tool *)

\* A function from keys to rows for each table.
AreTables(t) == t = [T \in Tables |-> [k \in DOMAIN t[T] |-> t[T][k]]]

\* r is a record for the table T.
For(T, r) == RowOf(r).table = T

\* The i-th record of the stream has the rest of the row k of T, and if SQLite
\* has refused no row it is the first that has.
Gives(i, T, k, rest) ==
  /\ For(T, file[i]) /\ file[i].id = k /\ rest = RowOf(file[i]).rest
  /\ "row" \notin refused => \A j \in 1 .. i - 1 : For(T, file[j]) => file[j].id # k

\* The rows of t are those of the table T of the database, as they are, and
\* some of the first n records of the stream.
Adds(t, T, n) ==
  /\ \A k \in DOMAIN db[T] : k \in DOMAIN t /\ t[k] = db[T][k]
  /\ \A k \in DOMAIN t : k \in DOMAIN db[T] \/ \E i \in 1 .. n : Gives(i, T, k, t[k])

\* What the transaction has of the table T after the first n records: all that
\* the tool could insert and SQLite has not refused.
Loaded(T, n) ==
  /\ T \notin stmts => txn[T] = db[T]
  /\ Adds(txn[T], T, n)
  /\ T \in stmts /\ "row" \notin refused =>
       \A i \in 1 .. n : For(T, file[i]) => file[i].id \in DOMAIN txn[T]

Importing == {"read", "insert", "commit"}

Reading ==
  /\ pc \notin Importing => pos = 0
  /\ pc \in Importing =>
       file # NoFile /\ pos <= Len(file) /\ \A i \in 1 .. pos : Readable(file[i])
  /\ pc = "insert" => pos > 0 /\ row = RowOf(file[pos])
  /\ pc = "commit" => pos = Len(file) \/ ~ Readable(file[pos + 1])

Loading ==
  /\ pc \in {"read", "commit"} => \A T \in Tables : Loaded(T, pos)
  /\ pc = "insert" => \A T \in Tables : Loaded(T, pos - 1)
  /\ pc \in Importing /\ ~ bulk => txn = db /\ "row" \in refused

ToolTypeOK ==
  /\ tables \subseteq Tables /\ stmts \subseteq tables
  /\ RowsOK(db) /\ RowsOK(txn) /\ reserved \in BOOLEAN /\ bulk \in BOOLEAN
  /\ \A T \in Tables \ tables : db[T] = Empty
  /\ other \in {"none", "reading", "writing"}
  /\ pc \in Places /\ pos \in Nat
  /\ row = NoRow \/ (row.table \in Tables /\ row.rest \in Rests[row.table])
  /\ runs \in 0 .. MaxRuns /\ finished \in BOOLEAN
  /\ refused \subseteq {"table", "row"} /\ failures \in 0 .. MaxFailures
  /\ sources \subseteq Tables \X Nat \X BOOLEAN

Imported ==
  /\ Streamed /\ ToolTypeOK /\ AreTables(db) /\ AreTables(txn)
  /\ Reading /\ Loading
  /\ pc # "off" => finished = FALSE /\ program = "over"

LEMMA StreamSteps == Streamed /\ [Next]_vars => Streamed'
<1> SUFFICES ASSUME Streamed, [Next]_vars PROVE Streamed'
  OBVIOUS
<1>1. [RecordingNext]_recording
  BY DEF Next, Record, Tool, Start, At, CreateEvents, CreateStrings, PrepareEvents,
     PrepareStrings, StreamMissing, Leave, BeginBulkInsert, ReadRecord, ReadNoRecord, Insert,
     InsertNothing, InsertDuplicate, InsertRow, InsertFails, OpenDatabase, OpenDatabaseFails,
     Finish, Kill, Lock, Unlock, vars
<1> QED BY <1>1, StreamKeeps

\* The row of a record.
LEMMA RowIs ==
  ASSUME NEW r \in Records
  PROVE  /\ RowOf(r).table \in Tables /\ RowOf(r).key = r.id /\ r.id \in Words
         /\ RowOf(r).table = "strings" <=> r.kind = "string"
         /\ r.kind = "string" => RowOf(r).rest = [name |-> r.name, chars |-> r.pieces - 2]
         /\ r.kind = "event" => RowOf(r).rest = [type |-> r.type, ref |-> r.ref, value |-> r.value]
         /\ Readable(r) => RowOf(r).rest \in Rests[RowOf(r).table]
<1>1. r.kind \in {"event", "string"} /\ r.id \in Words
  BY RecordIs
<1>2. CASE r.kind = "event"
  <2>1. RowOf(r) = [table |-> "events", key |-> r.id,
                    rest |-> [type |-> r.type, ref |-> r.ref, value |-> r.value]]
    BY <1>2 DEF RowOf
  <2>2. r.ref \in Words /\ r.value \in Words /\ r.type \in Types
    BY <1>2, RecordIs
  <2> DEFINE data == [type |-> r.type, ref |-> r.ref, value |-> r.value]
  <2>3. /\ RowOf(r).table = "events" /\ RowOf(r).key = r.id /\ RowOf(r).rest = data
        /\ RowOf(r).rest = [type |-> r.type, ref |-> r.ref, value |-> r.value]
    BY <2>1
  <2>4. Rests["events"] = [type : Types, ref : Words, value : Words]
    BY DEF Rests
  <2>5. data \in Rests["events"]
    BY <2>2, <2>4
  <2> HIDE DEF data
  <2> QED BY <1>1, <1>2, <2>3, <2>5 DEF Tables
<1>3. CASE r.kind = "string"
  <2>1. RowOf(r) = [table |-> "strings", key |-> r.id,
                    rest |-> [name |-> r.name, chars |-> r.pieces - 2]]
    BY <1>3 DEF RowOf, Text
  <2>2. /\ r.name \in Names /\ NameLength[r.name] \in Nat /\ r.pieces \in Nat
        /\ r.pieces <= 2 + NameLength[r.name]
    BY <1>3, RecordIs
  <2>3. Readable(r) => r.pieces - 2 \in 0 .. NameLength[r.name]
    BY <2>2 DEF Readable
  <2>4. Readable(r) => [name |-> r.name, chars |-> r.pieces - 2]
                         \in UNION {[name : {n}, chars : 0 .. NameLength[n]] : n \in Names}
    BY <2>2, <2>3
  <2> DEFINE text == [name |-> r.name, chars |-> r.pieces - 2]
  <2>5. RowOf(r).table = "strings" /\ RowOf(r).key = r.id /\ RowOf(r).rest = text
    BY <2>1
  <2>6. Rests["strings"] = UNION {[name : {n}, chars : 0 .. NameLength[n]] : n \in Names}
    BY DEF Rests
  <2>7. Readable(r) => text \in Rests["strings"]
    BY <2>4, <2>6
  <2>8. RowOf(r).rest = [name |-> r.name, chars |-> r.pieces - 2]
    BY <2>5
  <2> HIDE DEF text
  <2> QED BY <1>1, <1>3, <2>5, <2>7, <2>8 DEF Tables
<1> QED BY <1>1, <1>2, <1>3

LEMMA EmptyTables ==
  LET t == [T \in Tables |-> Empty]
  IN  AreTables(t) /\ RowsOK(t)
BY DEF AreTables, RowsOK, Empty, Tables

\* Put adds one row.
LEMMA PutIs ==
  ASSUME AreTables(txn), NEW T \in Tables, NEW key, NEW rest, key \notin DOMAIN txn[T]
  PROVE  /\ AreTables(Put(T, key, rest))
         /\ \A U \in Tables : U # T => Put(T, key, rest)[U] = txn[U]
         /\ DOMAIN Put(T, key, rest)[T] = DOMAIN txn[T] \cup {key}
         /\ Put(T, key, rest)[T][key] = rest
         /\ \A k \in DOMAIN txn[T] : Put(T, key, rest)[T][k] = txn[T][k]
<1> DEFINE new == [k \in DOMAIN txn[T] \cup {key} |-> IF k = key THEN rest ELSE txn[T][k]]
<1>1. Put(T, key, rest) = [txn EXCEPT ![T] = new]
  BY DEF Put
<1>2. /\ DOMAIN new = DOMAIN txn[T] \cup {key} /\ new[key] = rest
      /\ \A k \in DOMAIN txn[T] : new[k] = txn[T][k]
      /\ new = [k \in DOMAIN new |-> new[k]]
  OBVIOUS
<1> HIDE DEF new
<1>3. DOMAIN txn = Tables /\ \A U \in Tables : txn[U] = [k \in DOMAIN txn[U] |-> txn[U][k]]
  BY DEF AreTables
<1>4. PICK t : t = [txn EXCEPT ![T] = new]
  OBVIOUS
<1>5. /\ DOMAIN t = Tables /\ t[T] = new /\ t = [U \in Tables |-> t[U]]
      /\ \A U \in Tables : U # T => t[U] = txn[U]
  BY <1>3, <1>4
<1>6. \A U \in Tables : t[U] = [k \in DOMAIN t[U] |-> t[U][k]]
  BY <1>2, <1>3, <1>5
<1>7. AreTables(t)
  BY <1>5, <1>6 DEF AreTables
<1> QED BY <1>1, <1>2, <1>4, <1>5, <1>7

LEMMA LoadedStays ==
  ASSUME UNCHANGED <<file, db, txn, stmts, refused>>, NEW T, NEW n
  PROVE  Loaded(T, n)' <=> Loaded(T, n)
BY DEF Loaded, Adds, Gives, For

LEMMA RefusedIs ==
  ASSUME Imported, NEW what \in {"table", "row"}, NEW reason \in BOOLEAN, Refuse(what, reason)
  PROVE  /\ refused' = refused \cup {what} /\ refused' \subseteq {"table", "row"}
         /\ failures' \in 0 .. MaxFailures
<1>1. failures \in Nat /\ refused \subseteq {"table", "row"} /\ MaxFailures \in Nat
  BY RunsAssumption DEF Imported, ToolTypeOK
<1> QED BY <1>1 DEF Refuse

LEMMA ImportInit == Init => Imported
<1> SUFFICES ASSUME Init PROVE Imported
  OBVIOUS
<1> USE DEF Init, Idle
<1>1. Streamed
  BY StreamInit
<1>2. AreTables(db) /\ AreTables(txn) /\ RowsOK(db) /\ RowsOK(txn)
  BY EmptyTables
<1>3. ToolTypeOK
  <2>1. /\ tables = {} /\ stmts = {} /\ sources = {} /\ pc \in Places /\ pos = 0 /\ row = NoRow
        /\ other = "none" /\ finished = FALSE /\ reserved = FALSE /\ bulk = FALSE
        /\ refused = {} /\ failures = 0
        /\ \A T \in Tables : db[T] = Empty
    BY DEF Places
  <2>2. runs \in 0 .. MaxRuns /\ 0 \in 0 .. MaxFailures
    BY RunsAssumption
  <2> HIDE DEF Init, Idle
  <2> QED BY <1>2, <2>1, <2>2 DEF ToolTypeOK
<1>4. Reading /\ Loading
  BY DEF Reading, Loading, Importing
<1> QED BY <1>1, <1>2, <1>3, <1>4 DEF Imported

\* While the tool rests, or the rest of the world moves.
LEMMA OthersKeep ==
  ASSUME Imported, Record \/ Lock \/ Unlock \/ UNCHANGED vars, Streamed'
  PROVE  Imported'
<1>1. /\ UNCHANGED <<tables, db, pc, pos, row, stmts, bulk, txn, reserved, runs, failures, sources>>
      /\ other' \in {"none", "reading", "writing"} \/ other' = other
      /\ \/ finished' = FALSE /\ refused' = {}
         \/ UNCHANGED <<finished, refused>>
      /\ pc # "off" => UNCHANGED <<file, program, finished, refused>>
  BY DEF Record, Lock, Unlock, vars, database, tool, ledger, recording, queues
<1>2. ToolTypeOK'
  BY <1>1 DEF Imported, ToolTypeOK, RowsOK
<1>3. AreTables(db)' /\ AreTables(txn)'
  BY <1>1 DEF Imported, AreTables
<1>4. CASE pc = "off"
  BY <1>1, <1>2, <1>3, <1>4 DEF Imported, Reading, Loading, Importing
<1>5. CASE pc # "off"
  <2>1. \A T, n : Loaded(T, n)' <=> Loaded(T, n)
    BY <1>1, <1>5, LoadedStays
  <2>2. Loading'
    BY <1>1, <1>5, <2>1 DEF Imported, Loading
  <2>3. Reading'
    BY <1>1, <1>5 DEF Imported, Reading
  <2> QED BY <1>1, <1>2, <1>3, <1>5, <2>2, <2>3 DEF Imported
<1> QED BY <1>4, <1>5

\* main up to the opening of the stream.
Early == {"off", "initialize", "create events", "create strings",
          "prepare events", "prepare strings"}

\* What has been refused grows while the tool runs.
LEMMA PreparingRefuses ==
  ASSUME Imported,
         \/ OpenDatabase \/ OpenDatabaseFails \/ CreateEvents \/ CreateStrings
         \/ PrepareEvents \/ PrepareStrings
  PROVE  /\ refused' \subseteq {"table", "row"} /\ failures' \in 0 .. MaxFailures
         /\ runs' = runs /\ finished' = finished
         /\ UNCHANGED <<refused, failures>> \/ "table" \in refused'
<1>1. refused \subseteq {"table", "row"} /\ failures \in 0 .. MaxFailures
  BY DEF Imported, ToolTypeOK
<1>2. /\ runs' = runs /\ finished' = finished
      /\ \/ UNCHANGED <<refused, failures>>
         \/ \E reason \in BOOLEAN : Refuse("table", reason)
  BY DEF OpenDatabase, OpenDatabaseFails, CreateEvents, CreateStrings, PrepareEvents,
         PrepareStrings, CreateTable, PrepareInsert, ledger
<1>3. CASE UNCHANGED <<refused, failures>>
  BY <1>1, <1>2, <1>3
<1>4. ASSUME NEW reason \in BOOLEAN, Refuse("table", reason)
      PROVE  /\ refused' \subseteq {"table", "row"} /\ failures' \in 0 .. MaxFailures
             /\ "table" \in refused'
  BY <1>4, RefusedIs
<1> QED BY <1>2, <1>3, <1>4

LEMMA PreparingKeeps ==
  ASSUME Imported, Streamed',
         \/ Start \/ OpenDatabase \/ OpenDatabaseFails \/ CreateEvents \/ CreateStrings
         \/ PrepareEvents \/ PrepareStrings
  PROVE  Imported'
<1>1. /\ pc \in Early /\ pc' \in Early \cup {"open"} /\ pc' \in Places
      /\ UNCHANGED <<program, db, pos, row, bulk, txn, reserved, other, sources>>
      /\ program = "over" /\ finished' = FALSE
  BY DEF Start, OpenDatabase, OpenDatabaseFails, CreateEvents, CreateStrings, PrepareEvents,
         PrepareStrings, CreateTable, PrepareInsert, At, Early, Places, database, tool, ledger,
         recording, Imported
<1>2. tables \subseteq tables' /\ tables' \subseteq Tables /\ stmts' \subseteq tables'
  BY DEF Start, OpenDatabase, OpenDatabaseFails, CreateEvents, CreateStrings, PrepareEvents,
         PrepareStrings, CreateTable, PrepareInsert, database, tool, Imported, ToolTypeOK, Tables
<1>3. /\ runs' \in 0 .. MaxRuns
      /\ refused' \subseteq {"table", "row"} /\ failures' \in 0 .. MaxFailures
  <2>1. runs \in 0 .. MaxRuns /\ failures \in 0 .. MaxFailures
    BY DEF Imported, ToolTypeOK
  <2>2. CASE Start
    <3>1. runs < MaxRuns /\ runs' = runs + 1 /\ refused' = {} /\ failures' = failures
      BY <2>2 DEF Start
    <3> QED BY <2>1, <3>1, RunsAssumption
  <2>3. CASE ~ Start
    BY <2>1, <2>3, PreparingRefuses
  <2> QED BY <2>2, <2>3
<1>4. RowsOK(db)' /\ RowsOK(txn)' /\ AreTables(db)' /\ AreTables(txn)'
  BY <1>1 DEF Imported, ToolTypeOK, RowsOK, AreTables
<1>5. ToolTypeOK'
  BY <1>1, <1>2, <1>3, <1>4 DEF Imported, ToolTypeOK
<1>6. Reading' /\ Loading'
  BY <1>1 DEF Imported, Reading, Loading, Importing, Early
<1> QED BY <1>1, <1>4, <1>5, <1>6 DEF Imported

\* However the tool leaves, its transaction is gone.
LEMMA LeavingKeeps ==
  ASSUME Imported, Streamed', NEW ended \in BOOLEAN, Leave(ended),
         db' = db \/ db' = txn, pc = "commit" \/ db' = db,
         refused' \subseteq {"table", "row"}, failures' \in 0 .. MaxFailures,
         sources' \subseteq Tables \X Nat \X BOOLEAN
  PROVE  Imported'
<1>1. /\ pc' = "off" /\ finished' = ended /\ pos' = 0 /\ row' = NoRow /\ stmts' = {}
      /\ bulk' = FALSE /\ reserved' = FALSE /\ txn' = [T \in Tables |-> Empty]
      /\ UNCHANGED <<other, tables, runs>>
  BY DEF Leave
<1>2. AreTables(txn)' /\ RowsOK(txn)'
  BY <1>1, EmptyTables DEF AreTables, RowsOK
<1>3. AreTables(db)' /\ RowsOK(db)'
  BY DEF Imported, ToolTypeOK, AreTables, RowsOK
<1>4. \A T \in Tables \ tables : db'[T] = Empty
  <2>1. CASE db' = db
    BY <2>1 DEF Imported, ToolTypeOK
  <2>2. CASE db' = txn /\ pc = "commit"
    BY <2>2 DEF Imported, ToolTypeOK, Loading, Loaded
  <2> QED BY <2>1, <2>2
<1>5. ToolTypeOK'
  BY <1>1, <1>2, <1>3, <1>4 DEF Imported, ToolTypeOK, Places
<1>6. Reading' /\ Loading'
  BY <1>1 DEF Reading, Loading, Importing
<1> QED BY <1>1, <1>2, <1>3, <1>5, <1>6 DEF Imported

LEMMA EndingKeeps ==
  ASSUME Imported, Streamed', StreamMissing \/ Finish \/ Kill
  PROVE  Imported'
<1>1. CASE StreamMissing \/ Kill
  <2>1. /\ db' = db /\ refused' \subseteq {"table", "row"} /\ failures' \in 0 .. MaxFailures
        /\ sources' \subseteq Tables \X Nat \X BOOLEAN
    BY <1>1 DEF StreamMissing, Kill, Imported, ToolTypeOK
  <2>2. Leave(FALSE)
    BY <1>1 DEF StreamMissing, Kill
  <2> QED BY <2>1, <2>2, LeavingKeeps
<1>2. CASE Finish
  <2>1. pc = "commit" /\ Leave(TRUE) /\ (Commit \/ CommitFails)
    BY <1>2 DEF Finish
  <2>2. wrote.session \in Nat /\ stmts \subseteq Tables /\ ("row" \notin refused) \in BOOLEAN
    BY DEF Imported, Streamed, RecordingTypeOK, ToolTypeOK
  <2>3. /\ refused \subseteq {"table", "row"} /\ failures \in 0 .. MaxFailures
        /\ sources \subseteq Tables \X Nat \X BOOLEAN
    BY DEF Imported, ToolTypeOK
  <2>4. CASE Commit
    <3>1. db' = txn /\ UNCHANGED <<refused, failures>>
      BY <2>4 DEF Commit
    <3>2. sources' \subseteq Tables \X Nat \X BOOLEAN
      BY <2>2, <2>3, <2>4 DEF Commit
    <3> QED BY <2>1, <2>3, <3>1, <3>2, LeavingKeeps
  <2>5. CASE CommitFails
    <3>1. db' = db /\ sources' = sources
      BY <2>5 DEF CommitFails
    <3>2. refused' \subseteq {"table", "row"} /\ failures' \in 0 .. MaxFailures
      BY <2>5, RefusedIs DEF CommitFails
    <3> QED BY <2>1, <2>3, <3>1, <3>2, LeavingKeeps
  <2> QED BY <2>1, <2>4, <2>5
<1> QED BY <1>1, <1>2

LEMMA BeginKeeps ==
  ASSUME Imported, Streamed', BeginBulkInsert
  PROVE  Imported'
<1>1. /\ pc = "open" /\ pc' = "read" /\ file # NoFile /\ txn' = db
      /\ UNCHANGED <<recording, other, tables, db, pos, row, stmts, reserved, runs, finished,
                     sources>>
      /\ UNCHANGED <<file, program>>
  BY DEF BeginBulkInsert, At, database, recording
<1>2. pos = 0 /\ file \in Seq(Records)
  BY <1>1 DEF Imported, Reading, Importing, Streamed, RecordingTypeOK
<1>3. AreTables(txn)' /\ RowsOK(txn)' /\ AreTables(db)' /\ RowsOK(db)'
  BY <1>1 DEF Imported, ToolTypeOK, AreTables, RowsOK
<1>4. /\ bulk' \in BOOLEAN /\ refused' \subseteq {"table", "row"} /\ failures' \in 0 .. MaxFailures
      /\ bulk' \/ "row" \in refused'
  <2>1. CASE bulk' = TRUE /\ UNCHANGED <<refused, failures>>
    BY <2>1 DEF Imported, ToolTypeOK
  <2>2. CASE bulk' = FALSE /\ Refuse("row", FALSE)
    BY <2>2, RefusedIs
  <2> QED BY <2>1, <2>2 DEF BeginBulkInsert
<1>5. ToolTypeOK'
  BY <1>1, <1>3, <1>4 DEF Imported, ToolTypeOK, Places
<1>6. Reading'
  BY <1>1, <1>2 DEF Reading, Importing
<1>7. \A T \in Tables : Loaded(T, 0)'
  BY <1>1 DEF Loaded, Adds
<1>8. Loading'
  BY <1>1, <1>2, <1>4, <1>7 DEF Loading
<1> QED BY <1>1, <1>3, <1>5, <1>6, <1>8 DEF Imported

LEMMA ReadingKeeps ==
  ASSUME Imported, Streamed', ReadRecord \/ ReadNoRecord
  PROVE  Imported'
<1>1. /\ pc = "read"
      /\ UNCHANGED <<other, tables, db, stmts, bulk, txn, reserved, runs, finished, refused,
                     failures, sources>>
      /\ UNCHANGED <<file, program>>
  BY DEF ReadRecord, ReadNoRecord, At, database, tool, ledger, recording
<1>2. /\ file \in Seq(Records) /\ file # NoFile /\ pos \in Nat /\ pos <= Len(file)
      /\ \A i \in 1 .. pos : Readable(file[i])
  BY <1>1 DEF Imported, ToolTypeOK, Reading, Importing, Streamed, RecordingTypeOK
<1>3. AreTables(txn)' /\ RowsOK(txn)' /\ AreTables(db)' /\ RowsOK(db)'
  BY <1>1 DEF Imported, ToolTypeOK, AreTables, RowsOK
<1>4. \A T, n : Loaded(T, n)' <=> Loaded(T, n)
  BY <1>1, LoadedStays
<1>5. (\A T \in Tables : Loaded(T, pos)) /\ (bulk' \/ (txn' = db' /\ "row" \in refused'))
  BY <1>1 DEF Imported, Loading, Importing
<1>6. CASE ReadRecord
  <2>1. /\ pc' = "insert" /\ pos < Len(file) /\ Readable(file[pos + 1])
        /\ row' = RowOf(file[pos + 1]) /\ pos' = pos + 1
    BY <1>6 DEF ReadRecord, At
  <2>2. pos + 1 \in 1 .. Len(file) /\ file[pos + 1] \in Records /\ pos + 1 - 1 = pos
    BY <1>2, <2>1
  <2>3. row'.table \in Tables /\ row'.rest \in Rests[row'.table]
    BY <2>1, <2>2, RowIs
  <2>4. ToolTypeOK'
    BY <1>1, <1>2, <1>3, <2>1, <2>2, <2>3 DEF Imported, ToolTypeOK, Places
  <2>5. \A i \in 1 .. pos + 1 : i \in 1 .. pos \/ i = pos + 1
    BY <1>2
  <2>6. Reading'
    BY <1>1, <1>2, <2>1, <2>2, <2>5 DEF Reading, Importing
  <2>7. Loading'
    <3>1. PICK n : n = pos
      OBVIOUS
    <3>2. \A T \in Tables : Loaded(T, n)'
      BY <1>4, <1>5, <3>1
    <3>3. pos' - 1 = n
      BY <1>2, <2>1, <3>1
    <3> QED BY <1>5, <2>1, <3>2, <3>3 DEF Loading
  <2> QED BY <1>1, <1>3, <2>1, <2>4, <2>6, <2>7 DEF Imported
<1>7. CASE ReadNoRecord
  <2>1. /\ pc' = "commit" /\ (pos < Len(file) => ~ Readable(file[pos + 1]))
        /\ UNCHANGED <<pos, row>>
    BY <1>7 DEF ReadNoRecord, At, tool
  <2>2. ToolTypeOK'
    BY <1>1, <1>3, <2>1 DEF Imported, ToolTypeOK, Places
  <2>3. pos = Len(file) \/ pos < Len(file)
    BY <1>2
  <2>4. Reading'
    BY <1>1, <1>2, <2>1, <2>3 DEF Reading, Importing
  <2>5. Loading'
    <3>1. PICK n : n = pos
      OBVIOUS
    <3>2. \A T \in Tables : Loaded(T, n)'
      BY <1>4, <1>5, <3>1
    <3>3. pos' = n
      BY <2>1, <3>1
    <3> QED BY <1>5, <2>1, <3>2, <3>3 DEF Loading
  <2> QED BY <1>1, <1>3, <2>1, <2>2, <2>4, <2>5 DEF Imported
<1> QED BY <1>6, <1>7

\* The row that comes next is in the transaction, or its table has no statement.
LEMMA InsertLoads ==
  ASSUME Imported, Insert, NEW T \in Tables, NEW t, t = txn'[T]
  PROVE  /\ T \notin stmts => t = db[T]
         /\ Adds(t, T, pos)
         /\ T \in stmts /\ "row" \notin refused =>
              \A i \in 1 .. pos : For(T, file[i]) => file[i].id \in DOMAIN t
         /\ T # row.table => t = txn[T]
         /\ (AreTables(txn) /\ RowsOK(txn))'
<1>1. pc = "insert" /\ pos \in Nat /\ pos > 0 /\ row = RowOf(file[pos])
  BY DEF Insert, InsertNothing, InsertDuplicate, InsertRow, At, Imported, Reading, ToolTypeOK
<1>2. /\ file \in Seq(Records) /\ file # NoFile /\ pos \in 1 .. Len(file)
      /\ Readable(file[pos])
  <2>1. pos <= Len(file) /\ file # NoFile /\ \A i \in 1 .. pos : Readable(file[i])
    BY <1>1 DEF Imported, Reading, Importing
  <2>2. file \in Seq(Records)
    BY <2>1 DEF Imported, Streamed, RecordingTypeOK
  <2> QED BY <1>1, <2>1, <2>2
<1>3. PICK r \in Records : r = file[pos]
  BY <1>2
<1>4. /\ row.table \in Tables /\ row.key = r.id /\ row.rest \in Rests[row.table] /\ r.id \in Words
      /\ row = RowOf(r) /\ (For(T, r) <=> row.table = T)
  BY <1>1, <1>2, <1>3, RowIs DEF For
<1>5. /\ Loaded(T, pos - 1)
      /\ \A i \in 1 .. pos : i = pos \/ i \in 1 .. pos - 1
      /\ pos \in 1 .. pos /\ \A i \in 1 .. pos - 1 : i \in 1 .. pos
  <2>1. Loaded(T, pos - 1)
    BY <1>1 DEF Imported, Loading
  <2> QED BY <1>1, <2>1
<1>7. \/ txn' = txn /\ (row.table \in stmts => r.id \in DOMAIN txn[row.table])
      \/ /\ row.table \in stmts /\ r.id \notin DOMAIN txn[row.table]
         /\ txn' = Put(row.table, r.id, row.rest)
  BY <1>4 DEF Insert, InsertNothing, InsertDuplicate, InsertRow, tool, MayWrite, Present
<1>8. ASSUME r.id \notin DOMAIN txn[row.table], txn' = Put(row.table, r.id, row.rest)
      PROVE  /\ AreTables(txn')
             /\ \A U \in Tables : U # row.table => txn'[U] = txn[U]
             /\ DOMAIN txn'[row.table] = DOMAIN txn[row.table] \cup {r.id}
             /\ txn'[row.table][r.id] = row.rest
             /\ \A k \in DOMAIN txn[row.table] : txn'[row.table][k] = txn[row.table][k]
  <2>1. AreTables(txn)
    BY DEF Imported
  <2> QED BY <1>4, <1>8, <2>1, PutIs
<1>9. RowsOK(txn) /\ AreTables(txn)
  BY DEF Imported, ToolTypeOK
<1>10. RowsOK(txn') /\ AreTables(txn')
  <2>1. CASE txn' = txn
    BY <1>9, <2>1
  <2>2. CASE r.id \notin DOMAIN txn[row.table] /\ txn' = Put(row.table, r.id, row.rest)
    <3>1. DOMAIN txn' = Tables
      BY <1>8, <2>2 DEF AreTables
    <3>2. ASSUME NEW U \in Tables, NEW k \in DOMAIN txn'[U]
          PROVE  k \in Words /\ txn'[U][k] \in Rests[U]
      <4>1. CASE U # row.table
        BY <1>8, <1>9, <2>2, <3>2, <4>1 DEF RowsOK
      <4>2. CASE U = row.table /\ k = r.id
        BY <1>4, <1>8, <2>2, <4>2
      <4>3. CASE U = row.table /\ k # r.id
        <5>1. k \in DOMAIN txn[U] /\ txn'[U][k] = txn[U][k]
          BY <1>8, <2>2, <3>2, <4>3
        <5> QED BY <1>9, <5>1 DEF RowsOK
      <4> QED BY <4>1, <4>2, <4>3
    <3> QED BY <1>8, <2>2, <3>1, <3>2 DEF RowsOK
  <2> QED BY <1>7, <2>1, <2>2
<1>11. (T \notin stmts => t = db[T]) /\ (T # row.table => t = txn[T])
  BY <1>5, <1>7, <1>8 DEF Loaded
<1>12. PICK u : u = txn[T]
  OBVIOUS
<1>13. /\ \A k \in DOMAIN db[T] : k \in DOMAIN u /\ u[k] = db[T][k]
       /\ \A k \in DOMAIN u : k \in DOMAIN db[T] \/ \E i \in 1 .. pos : Gives(i, T, k, u[k])
       /\ T \in stmts /\ "row" \notin refused =>
            \A i \in 1 .. pos - 1 : For(T, file[i]) => file[i].id \in DOMAIN u
  BY <1>5, <1>12 DEF Loaded, Adds
<1>14. CASE t = u /\ (T \in stmts => ~ For(T, r) \/ r.id \in DOMAIN u)
  <2>1. Adds(t, T, pos)
    BY <1>13, <1>14 DEF Adds
  <2>2. ASSUME T \in stmts, "row" \notin refused, NEW i \in 1 .. pos, For(T, file[i])
        PROVE  file[i].id \in DOMAIN t
    BY <1>3, <1>5, <1>13, <1>14, <2>2
  <2> QED BY <1>10, <1>11, <2>1, <2>2
<1>15. CASE /\ For(T, r) /\ T \in stmts /\ r.id \notin DOMAIN u
            /\ DOMAIN t = DOMAIN u \cup {r.id} /\ t[r.id] = row.rest
            /\ \A k \in DOMAIN u : t[k] = u[k]
  <2>1. Gives(pos, T, r.id, t[r.id])
    BY <1>3, <1>4, <1>13, <1>15 DEF Gives
  <2>2. Adds(t, T, pos)
    BY <1>5, <1>13, <1>15, <2>1 DEF Adds
  <2>3. ASSUME "row" \notin refused, NEW i \in 1 .. pos, For(T, file[i])
        PROVE  file[i].id \in DOMAIN t
    BY <1>3, <1>5, <1>13, <1>15, <2>3
  <2> QED BY <1>10, <1>11, <2>2, <2>3
<1> QED BY <1>4, <1>7, <1>8, <1>12, <1>14, <1>15

\* What the tool has read is in the transaction, and in the database too if the
\* transaction is not open.
LEMMA InsertKeeps ==
  ASSUME Imported, Streamed', Insert
  PROVE  Imported'
<1>1. /\ pc = "insert" /\ pc' = "read"
      /\ UNCHANGED <<other, tables, pos, row, stmts, bulk, runs, finished, refused, failures>>
      /\ UNCHANGED <<file, program>>
      /\ reserved' \in BOOLEAN
      /\ \/ db' = db /\ sources' = sources /\ (~ bulk => InsertRow \/ txn' = txn)
         \/ ~ bulk /\ db' = txn' /\ sources' = sources \cup {<<row.table, wrote.session, FALSE>>}
      /\ InsertRow /\ ~ bulk => db' = txn'
  BY DEF Insert, InsertNothing, InsertDuplicate, InsertRow, At, database, tool, ledger, recording,
         Imported, ToolTypeOK
<1>2. row.table \in Tables /\ wrote.session \in Nat /\ stmts \subseteq tables /\ tables \subseteq Tables
  <2>1. stmts \subseteq tables /\ tables \subseteq Tables /\ row.table \in Tables
    BY DEF Imported, ToolTypeOK, NoRow, Tables
  <2> QED BY <2>1 DEF Imported, Streamed, RecordingTypeOK
<1>3. ASSUME NEW T \in Tables
      PROVE  /\ T \notin stmts => txn'[T] = db[T]
             /\ Adds(txn'[T], T, pos)
             /\ T \in stmts /\ "row" \notin refused =>
                  \A i \in 1 .. pos : For(T, file[i]) => file[i].id \in DOMAIN txn'[T]
             /\ (AreTables(txn) /\ RowsOK(txn))'
  BY InsertLoads
<1>4. AreTables(txn)' /\ RowsOK(txn)'
  BY <1>3 DEF Tables
<1>5. AreTables(db)' /\ RowsOK(db)'
  <2>1. CASE db' = db
    BY <2>1 DEF Imported, ToolTypeOK, AreTables, RowsOK
  <2>2. CASE db' = txn'
    BY <1>4, <2>2 DEF AreTables, RowsOK
  <2> QED BY <1>1, <2>1, <2>2
<1>6. \A T \in Tables \ tables : db'[T] = Empty
  <2>1. \A T \in Tables \ tables : db[T] = Empty
    BY DEF Imported, ToolTypeOK
  <2> QED BY <1>1, <1>2, <1>3, <2>1
<1>7. sources' \subseteq Tables \X Nat \X BOOLEAN
  <2>1. sources \subseteq Tables \X Nat \X BOOLEAN
    BY DEF Imported, ToolTypeOK
  <2>2. <<row.table, wrote.session, FALSE>> \in Tables \X Nat \X BOOLEAN
    BY <1>2
  <2> QED BY <1>1, <2>1, <2>2
<1>8. ToolTypeOK'
  BY <1>1, <1>4, <1>5, <1>6, <1>7 DEF Imported, ToolTypeOK, Places
<1>9. Reading'
  BY <1>1 DEF Imported, Reading, Importing
<1>10. bulk \/ (txn = db /\ "row" \in refused)
  BY <1>1 DEF Imported, Loading, Importing
<1>11. ASSUME NEW T \in Tables PROVE Loaded(T, pos)'
  <2>1. CASE db' = db
    BY <1>1, <1>3, <2>1 DEF Loaded, Adds, Gives, For
  <2>2. CASE ~ bulk /\ db' = txn'
    BY <1>1, <1>10, <2>2 DEF Loaded, Adds
  <2> QED BY <1>1, <2>1, <2>2
<1>12. bulk \/ (txn' = db' /\ "row" \in refused)
  BY <1>1, <1>10
<1>13. Loading'
  BY <1>1, <1>11, <1>12 DEF Loading
<1> QED BY <1>1, <1>4, <1>5, <1>8, <1>9, <1>13 DEF Imported

\* A row that SQLite refuses is missing, and with it perhaps all the others.
LEMMA FailingKeeps ==
  ASSUME Imported, Streamed', InsertFails
  PROVE  Imported'
<1>1. /\ pc = "insert" /\ pc' = "read"
      /\ UNCHANGED <<other, tables, db, pos, row, stmts, runs, finished, sources>>
      /\ UNCHANGED <<file, program>>
      /\ Refuse("row", FALSE)
      /\ \/ reserved' \in {reserved, reserved \/ (bulk /\ MayWrite)} /\ UNCHANGED <<bulk, txn>>
         \/ reserved' = FALSE /\ bulk' = FALSE /\ txn' = db
  BY DEF InsertFails, At, database, recording
<1>2. /\ refused' \subseteq {"table", "row"} /\ failures' \in 0 .. MaxFailures
      /\ "row" \in refused'
  BY <1>1, RefusedIs
<1>3. reserved' \in BOOLEAN /\ bulk' \in BOOLEAN
  <2>1. reserved \in BOOLEAN /\ bulk \in BOOLEAN
    BY DEF Imported, ToolTypeOK
  <2> QED BY <1>1, <2>1
<1>4. AreTables(txn)' /\ RowsOK(txn)' /\ AreTables(db)' /\ RowsOK(db)'
  BY <1>1 DEF Imported, ToolTypeOK, AreTables, RowsOK
<1>5. ToolTypeOK'
  BY <1>1, <1>2, <1>3, <1>4 DEF Imported, ToolTypeOK, Places
<1>6. Reading'
  BY <1>1 DEF Imported, Reading, Importing
<1>7. ASSUME NEW T \in Tables PROVE Loaded(T, pos)'
  <2>1. CASE UNCHANGED txn
    <3>1. PICK t : t = txn[T]
      OBVIOUS
    <3>2. /\ T \notin stmts => t = db[T]
          /\ \A k \in DOMAIN db[T] : k \in DOMAIN t /\ t[k] = db[T][k]
          /\ \A k \in DOMAIN t : k \in DOMAIN db[T] \/ \E i \in 1 .. pos - 1 : Gives(i, T, k, t[k])
      BY <1>1, <3>1 DEF Imported, Loading, Loaded, Adds
    <3>3. \A i \in 1 .. pos - 1 : i \in 1 .. pos
      BY DEF Imported, ToolTypeOK
    <3>4. \A i, k : Gives(i, T, k, t[k]) => Gives(i, T, k, t[k])'
      BY <1>1, <1>2 DEF Gives, For
    <3>5. Adds(t, T, pos)'
      BY <1>1, <3>2, <3>3, <3>4 DEF Adds
    <3> QED BY <1>1, <1>2, <2>1, <3>1, <3>2, <3>5 DEF Loaded, Adds
  <2>2. CASE txn' = db
    BY <1>1, <1>2, <2>2 DEF Loaded, Adds
  <2> QED BY <1>1, <2>1, <2>2
<1>8. bulk' \/ txn' = db'
  BY <1>1 DEF Imported, Loading, Importing
<1>9. Loading'
  BY <1>1, <1>2, <1>7, <1>8 DEF Loading
<1> QED BY <1>1, <1>4, <1>5, <1>6, <1>9 DEF Imported

LEMMA ImportSteps == Imported /\ [Next]_vars => Imported'
<1> SUFFICES ASSUME Imported, [Next]_vars PROVE Imported'
  OBVIOUS
<1>1. Streamed'
  BY StreamSteps DEF Imported
<1> QED BY <1>1, OthersKeep, PreparingKeeps, EndingKeeps, BeginKeeps, ReadingKeeps, InsertKeeps,
        FailingKeeps DEF Next, Tool

\* The tool is never in a transaction that holds anything but what the database
\* had and what it has read, complete up to there (uplift.cpp:56, FileStore.cpp:100).
THEOREM ImportInvariant == Spec => []Imported
<1>1. Init => Imported
  BY ImportInit
<1>2. Imported /\ [Next]_vars => Imported'
  BY ImportSteps
<1> QED BY <1>1, <1>2, PTL DEF Spec

\* The types of the variables (Event.h:73, uplift.cpp:9, FileStore.h:20).
THEOREM TypeCorrect == Spec => []TypeOK
<1>1. Imported => TypeOK
  BY DEF Imported, Streamed, ToolTypeOK, TypeOK
<1> QED BY <1>1, ImportInvariant, PTL

------------------------------------------------------------------------------
(* The import *)

LEMMA MineIs ==
  ASSUME Streamed, file # NoFile, NEW T
  PROVE  \A i : i \in Mine(T) <=>
                i \in 1 .. Len(file) /\ Readable(file[i]) /\ For(T, file[i])
<1>1. file \in Seq(Records) /\ DOMAIN file = 1 .. Len(file)
  BY DEF Streamed, RecordingTypeOK
<1> QED BY <1>1 DEF Mine, For

\* What the stream offers a table is the first row for each key.
LEMMA OfferedIs ==
  ASSUME Streamed, file # NoFile, NEW T \in Tables
  PROVE  /\ Offered[T] = [k \in DOMAIN Offered[T] |-> Offered[T][k]]
         /\ \A k : k \in DOMAIN Offered[T] <=> \E i \in Mine(T) : file[i].id = k
         /\ \A i \in Mine(T) :
              (\A j \in 1 .. i - 1 : For(T, file[j]) => file[j].id # file[i].id) =>
                Offered[T][file[i].id] = RowOf(file[i]).rest
<1>1. file \in Seq(Records)
  BY DEF Streamed, RecordingTypeOK
<1>2. \A i \in Mine(T) : i \in 1 .. Len(file) /\ For(T, file[i])
  BY MineIs
<1>3. \A i \in Mine(T) : RowOf(file[i]).key = file[i].id
  <2>1. \A i \in Mine(T) : file[i] \in Records
    BY <1>1, <1>2
  <2> QED BY <2>1, RowIs
<1>4. PICK M : M = Mine(T)
  OBVIOUS
<1>5. Offered[T] = [k \in {RowOf(file[i]).key : i \in M} |-> RowOf(file[FirstOf(T, k)]).rest]
  BY <1>4 DEF Offered
<1>6. ASSUME NEW i \in M, \A j \in 1 .. i - 1 : For(T, file[j]) => file[j].id # file[i].id
      PROVE  FirstOf(T, file[i].id) = i
  <2> DEFINE k == file[i].id
             P(m) == RowOf(file[m]).key = k /\ \A j \in M : RowOf(file[j]).key = k => m <= j
  <2>1. \A j \in M : file[j].id = k => i <= j
    <3> SUFFICES ASSUME NEW j \in M, file[j].id = k PROVE i <= j
      OBVIOUS
    <3>1. i \in Nat /\ j \in Nat /\ j >= 1 /\ For(T, file[j])
      BY <1>1, <1>2, <1>4
    <3> QED BY <1>6, <3>1
  <2>2. P(i)
    BY <1>3, <1>4, <2>1
  <2>3. \A m \in M : P(m) => m = i
    <3> SUFFICES ASSUME NEW m \in M, P(m) PROVE m = i
      OBVIOUS
    <3>1. m <= i /\ i <= m
      BY <1>3, <1>4, <2>1
    <3>2. m \in Nat /\ i \in Nat
      BY <1>1, <1>2, <1>4
    <3> QED BY <3>1, <3>2
  <2>4. FirstOf(T, k) = CHOOSE m \in M : P(m)
    BY <1>4 DEF FirstOf
  <2> HIDE DEF P
  <2> QED BY <2>2, <2>3, <2>4
<1> QED BY <1>3, <1>4, <1>5, <1>6

\* A record that can be read is one the tool has read, at the end.
LEMMA AllRead ==
  ASSUME Imported, pc = "commit", NEW T
  PROVE  \A i : i \in Mine(T) <=> i \in 1 .. pos /\ For(T, file[i])
<1>1. /\ file # NoFile /\ pos \in Nat /\ pos <= Len(file) /\ \A j \in 1 .. pos : Readable(file[j])
      /\ pos = Len(file) \/ ~ Readable(file[pos + 1])
  BY DEF Imported, ToolTypeOK, Reading, Importing
<1>2. /\ Streamed /\ file \in Seq(Records) /\ Len(file) \in Nat
      /\ \A j \in 1 .. Len(file) : j < Len(file) => Readable(file[j])
  <2>1. Streamed /\ file \in Seq(Records)
    BY <1>1 DEF Imported, Streamed, RecordingTypeOK
  <2> QED BY <1>1, <2>1 DEF Streamed, Stored
<1>3. ASSUME NEW i \in 1 .. Len(file), Readable(file[i]) PROVE i \in 1 .. pos
  <2> SUFFICES ASSUME i \notin 1 .. pos PROVE FALSE
    OBVIOUS
  <2>1. pos + 1 \in 1 .. Len(file) /\ pos # Len(file) /\ (i = pos + 1 \/ pos + 1 < Len(file))
    BY <1>1, <1>2, <1>3
  <2> QED BY <1>1, <1>2, <1>3, <2>1
<1>4. \A i \in 1 .. pos : i \in 1 .. Len(file)
  BY <1>1, <1>2
<1> QED BY <1>1, <1>2, <1>3, <1>4, MineIs

\* At the end the transaction is the import of the tables that have a statement,
\* unless SQLite has refused one of its rows.
LEMMA LoadedAll ==
  ASSUME Imported, pc = "commit", "row" \notin refused
  PROVE  txn = [T \in Tables |-> IF T \in stmts THEN Abstract!Merge(db[T], Offered[T]) ELSE db[T]]
<1>1. /\ Streamed /\ AreTables(txn) /\ file # NoFile /\ pos \in Nat
  BY DEF Imported, Reading, Importing, ToolTypeOK
<1>2. ASSUME NEW T \in Tables, T \in stmts
      PROVE  txn[T] = Abstract!Merge(db[T], Offered[T])
  <2>1. PICK t, d, o : t = txn[T] /\ d = db[T] /\ o = Offered[T]
    OBVIOUS
  <2>2. /\ \A k \in DOMAIN d : k \in DOMAIN t /\ t[k] = d[k]
        /\ \A k \in DOMAIN t : k \in DOMAIN d \/ \E i \in 1 .. pos : Gives(i, T, k, t[k])
        /\ \A i \in 1 .. pos : For(T, file[i]) => file[i].id \in DOMAIN t
    BY <1>2, <2>1 DEF Imported, Loading, Loaded, Adds
  <2>3. \A k : k \in DOMAIN o <=> \E i \in Mine(T) : file[i].id = k
    BY <1>1, <2>1, OfferedIs
  <2>4. \A i : i \in Mine(T) <=> i \in 1 .. pos /\ For(T, file[i])
    BY AllRead
  <2>5. DOMAIN t = DOMAIN d \cup DOMAIN o
    <3>1. \A k \in DOMAIN t : k \in DOMAIN d \cup DOMAIN o
      BY <2>2, <2>3, <2>4 DEF Gives
    <3>2. \A k \in DOMAIN d \cup DOMAIN o : k \in DOMAIN t
      BY <2>2, <2>3, <2>4
    <3> QED BY <3>1, <3>2
  <2>6. ASSUME NEW k \in DOMAIN t, k \notin DOMAIN d PROVE t[k] = o[k]
    <3>1. PICK i \in 1 .. pos : Gives(i, T, k, t[k])
      BY <2>2, <2>6
    <3>2. /\ i \in Mine(T) /\ file[i].id = k /\ t[k] = RowOf(file[i]).rest
          /\ \A j \in 1 .. i - 1 : For(T, file[j]) => file[j].id # file[i].id
      BY <2>4, <3>1 DEF Gives
    <3> QED BY <1>1, <2>1, <3>2, OfferedIs
  <2>7. t = [k \in DOMAIN t |-> t[k]]
    BY <1>1, <2>1 DEF AreTables
  <2>8. t = [k \in DOMAIN d \cup DOMAIN o |-> IF k \in DOMAIN d THEN d[k] ELSE o[k]]
    BY <2>2, <2>5, <2>6, <2>7
  <2> QED BY <2>1, <2>8 DEF Abstract!Merge
<1>3. ASSUME NEW T \in Tables, T \notin stmts PROVE txn[T] = db[T]
  BY <1>3 DEF Imported, Loading, Loaded
<1>4. txn = [T \in Tables |-> txn[T]]
  BY <1>1 DEF AreTables
<1> QED BY <1>2, <1>3, <1>4

\* Where the database changes: at the end of main, or at once if the tool is in
\* no transaction.
Writing == (Finish /\ Commit) \/ (InsertRow /\ ~ bulk)

LEMMA WritesOnly ==
  ASSUME [Next]_vars, ~ Writing
  PROVE  UNCHANGED <<db, sources>>
<1>1. CASE Finish \/ InsertRow
  BY <1>1 DEF Writing, Finish, CommitFails, InsertRow
<1>2. CASE ~ Finish /\ ~ InsertRow
  BY <1>2 DEF Next, Record, Tool, Start, At, OpenDatabase, OpenDatabaseFails, CreateEvents,
     CreateStrings, PrepareEvents, PrepareStrings, CreateTable, PrepareInsert, StreamMissing,
     BeginBulkInsert, ReadRecord, ReadNoRecord, Insert, InsertNothing, InsertDuplicate,
     InsertFails, Kill, Lock, Unlock, vars, database, ledger
<1> QED BY <1>1, <1>2

\* What it writes: rows of the stream, and none is lost.
LEMMA Brought ==
  ASSUME Imported, Writing
  PROVE  /\ UNCHANGED <<program, file, sessions, wrote, cuts, spoilt>>
         /\ program = "over" /\ pc # "off" /\ file # NoFile
         /\ \A T \in Tables :
              /\ \A k \in DOMAIN db[T] : k \in DOMAIN db'[T] /\ db'[T][k] = db[T][k]
              /\ \A k \in DOMAIN db'[T] : k \in DOMAIN db[T]
                   \/ \E i \in Mine(T) : file[i].id = k /\ db'[T][k] = RowOf(file[i]).rest
              /\ db'[T] = db[T] \/ \E b : <<T, wrote.session, b>> \in sources'
         /\ \A x \in sources : x \in sources'
         /\ \A x \in sources' : x \in sources \/ x[2] = wrote.session
         /\ \A T \in Tables : <<T, wrote.session, TRUE>> \in sources' =>
              \/ <<T, wrote.session, TRUE>> \in sources
              \/ pc = "commit" /\ db' = txn /\ T \in stmts /\ "row" \notin refused
<1>1. pc \in Importing /\ UNCHANGED <<program, file, sessions, wrote, cuts, spoilt>>
  BY DEF Writing, Finish, Leave, InsertRow, At, recording, mishaps, Importing
<1>2. /\ Streamed /\ program = "over" /\ pc # "off" /\ file # NoFile
      /\ pos \in Nat /\ pos <= Len(file) /\ file \in Seq(Records)
      /\ \A i \in 1 .. pos : Readable(file[i])
  BY <1>1 DEF Imported, ToolTypeOK, Reading, Importing, Streamed, RecordingTypeOK
<1>3. ASSUME NEW T, NEW i \in 1 .. pos, For(T, file[i]) PROVE i \in Mine(T)
  <2>1. i \in 1 .. Len(file) /\ Readable(file[i])
    BY <1>2
  <2> QED BY <1>2, <1>3, <2>1, MineIs
<1>4. ASSUME NEW T \in Tables, NEW t, Adds(t, T, pos)
      PROVE  /\ \A k \in DOMAIN db[T] : k \in DOMAIN t /\ t[k] = db[T][k]
             /\ \A k \in DOMAIN t : k \in DOMAIN db[T]
                  \/ \E i \in Mine(T) : file[i].id = k /\ t[k] = RowOf(file[i]).rest
  <2>1. \A k \in DOMAIN t : k \in DOMAIN db[T] \/ \E i \in 1 .. pos : Gives(i, T, k, t[k])
    BY <1>4 DEF Adds
  <2>2. \A i \in 1 .. pos, k \in DOMAIN t : Gives(i, T, k, t[k]) =>
          i \in Mine(T) /\ file[i].id = k /\ t[k] = RowOf(file[i]).rest
    BY <1>3 DEF Gives
  <2>3. \A k \in DOMAIN db[T] : k \in DOMAIN t /\ t[k] = db[T][k]
    BY <1>4 DEF Adds
  <2> QED BY <2>1, <2>2, <2>3
<1>5. CASE Finish /\ Commit
  <2>1. /\ pc = "commit" /\ db' = txn
        /\ sources' = sources \cup (stmts \X {wrote.session} \X {"row" \notin refused})
    BY <1>5 DEF Finish, Commit
  <2>2. PICK some : some = ("row" \notin refused)
    OBVIOUS
  <2>3. /\ \A x \in sources' : x \in sources \/ x[2] = wrote.session
        /\ \A x \in sources : x \in sources'
        /\ \A T \in stmts : <<T, wrote.session, some>> \in sources'
        /\ \A T : <<T, wrote.session, TRUE>> \in sources' =>
             \/ <<T, wrote.session, TRUE>> \in sources
             \/ T \in stmts /\ some = TRUE
    BY <2>1, <2>2
  <2>4. \A T \in Tables : Adds(db'[T], T, pos) /\ (T \notin stmts => db'[T] = db[T])
    BY <2>1 DEF Imported, Loading, Loaded
  <2>5. ASSUME NEW T \in Tables
        PROVE  /\ \A k \in DOMAIN db[T] : k \in DOMAIN db'[T] /\ db'[T][k] = db[T][k]
               /\ \A k \in DOMAIN db'[T] : k \in DOMAIN db[T]
                    \/ \E i \in Mine(T) : file[i].id = k /\ db'[T][k] = RowOf(file[i]).rest
               /\ db'[T] = db[T] \/ \E b : <<T, wrote.session, b>> \in sources'
               /\ <<T, wrote.session, TRUE>> \in sources' =>
                    \/ <<T, wrote.session, TRUE>> \in sources
                    \/ pc = "commit" /\ db' = txn /\ T \in stmts /\ "row" \notin refused
    <3>1. db'[T] = db[T] \/ \E b : <<T, wrote.session, b>> \in sources'
      BY <2>3, <2>4
    <3>2. <<T, wrote.session, TRUE>> \in sources' =>
            \/ <<T, wrote.session, TRUE>> \in sources
            \/ pc = "commit" /\ db' = txn /\ T \in stmts /\ "row" \notin refused
      BY <2>1, <2>2, <2>3
    <3>3. PICK t : t = db'[T]
      OBVIOUS
    <3>4. Adds(t, T, pos)
      BY <2>4, <3>3
    <3>5. /\ \A k \in DOMAIN db[T] : k \in DOMAIN t /\ t[k] = db[T][k]
          /\ \A k \in DOMAIN t : k \in DOMAIN db[T]
               \/ \E i \in Mine(T) : file[i].id = k /\ t[k] = RowOf(file[i]).rest
      BY <1>4, <3>4
    <3> QED BY <3>1, <3>2, <3>3, <3>5
  <2> QED BY <1>1, <1>2, <2>3, <2>5
<1>6. CASE InsertRow /\ ~ bulk
  <2>1. /\ Insert /\ db' = txn' /\ pc = "insert"
        /\ sources' = sources \cup {<<row.table, wrote.session, FALSE>>}
    BY <1>6 DEF Insert, InsertRow, At
  <2>2. txn = db
    BY <1>6, <2>1 DEF Imported, Loading, Importing
  <2>3. \A T \in Tables : Adds(db'[T], T, pos) /\ (T # row.table => db'[T] = db[T])
    BY <2>1, <2>2, InsertLoads
  <2>4. /\ \A x \in sources' : x \in sources \/ x[2] = wrote.session
        /\ \A x \in sources : x \in sources'
        /\ <<row.table, wrote.session, FALSE>> \in sources'
        /\ \A T : <<T, wrote.session, TRUE>> \in sources' => <<T, wrote.session, TRUE>> \in sources
    <3>1. PICK y : y = <<row.table, wrote.session, FALSE>>
      OBVIOUS
    <3>2. y[2] = wrote.session /\ y[3] = FALSE
      BY <3>1
    <3>3. \A T : <<T, wrote.session, TRUE>>[3] = TRUE
      OBVIOUS
    <3>4. \A T : <<T, wrote.session, TRUE>> # y
      BY <3>2, <3>3
    <3> QED BY <2>1, <3>1, <3>2, <3>4
  <2>5. ASSUME NEW T \in Tables
        PROVE  /\ \A k \in DOMAIN db[T] : k \in DOMAIN db'[T] /\ db'[T][k] = db[T][k]
               /\ \A k \in DOMAIN db'[T] : k \in DOMAIN db[T]
                    \/ \E i \in Mine(T) : file[i].id = k /\ db'[T][k] = RowOf(file[i]).rest
               /\ db'[T] = db[T] \/ \E b : <<T, wrote.session, b>> \in sources'
    <3>1. PICK t : t = db'[T]
      OBVIOUS
    <3>2. Adds(t, T, pos)
      BY <2>3, <3>1
    <3>3. db'[T] = db[T] \/ \E b : <<T, wrote.session, b>> \in sources'
      BY <2>3, <2>4
    <3>4. /\ \A k \in DOMAIN db[T] : k \in DOMAIN t /\ t[k] = db[T][k]
          /\ \A k \in DOMAIN t : k \in DOMAIN db[T]
               \/ \E i \in Mine(T) : file[i].id = k /\ t[k] = RowOf(file[i]).rest
      BY <1>4, <3>2
    <3> QED BY <3>1, <3>3, <3>4
  <2> QED BY <1>1, <1>2, <2>4, <2>5
<1> QED BY <1>5, <1>6 DEF Writing

\* Only Writing changes the database, and it takes all or nothing, or some rows
\* of an import of which SQLite has refused some.
LEMMA ImportsOnly ==
  ASSUME Imported, [Next]_vars
  PROVE  db' = db \/ Abstract!Take(stmts) \/ Abstract!TakeSome
<1>1. CASE ~ Writing
  BY <1>1, WritesOnly
<1>2. CASE Writing
  <2>1. /\ Offered' = Offered /\ [T \in Tables |-> Had(T)]' = [T \in Tables |-> Had(T)]
        /\ refused' = refused
    <3>1. file' = file /\ refused' = refused
      BY <1>2, Brought DEF Writing, Finish, Commit, InsertRow
    <3> QED BY <3>1 DEF Offered, Had, Mine, FirstOf
  <2>2. CASE "row" \in refused
    <3>1. ASSUME NEW T \in Tables, NEW k \in DOMAIN db'[T], k \notin DOMAIN db[T]
          PROVE  <<k, db'[T][k]>> \in Had(T)
      <4>1. PICK i \in Mine(T) : file[i].id = k /\ db'[T][k] = RowOf(file[i]).rest
        BY <1>2, <3>1, Brought
      <4>2. i \in 1 .. Len(file) /\ file \in Seq(Records)
        <5>1. Streamed /\ file # NoFile
          BY <1>2, Brought DEF Imported
        <5> QED BY <5>1, MineIs DEF Streamed, RecordingTypeOK
      <4>3. RowOf(file[i]).key = k
        <5>1. file[i] \in Records
          BY <4>2
        <5> QED BY <4>1, <5>1, RowIs
      <4> QED BY <4>1, <4>3 DEF Had
    <3>2. \A T \in Tables : \A k \in DOMAIN db[T] : k \in DOMAIN db'[T] /\ db'[T][k] = db[T][k]
      BY <1>2, Brought
    <3> QED BY <2>1, <2>2, <3>1, <3>2 DEF Abstract!TakeSome
  <2>3. CASE "row" \notin refused
    <3>1. pc = "commit" /\ db' = txn
      BY <1>2, <2>3 DEF Writing, Finish, Commit, InsertRow, At, Imported, Loading, Importing
    <3>2. db' = [T \in Tables |-> IF T \in stmts THEN Abstract!Merge(db[T], Offered[T]) ELSE db[T]]
      BY <2>3, <3>1, LoadedAll
    <3> QED BY <2>1, <3>2 DEF Abstract!Take
  <2> QED BY <2>2, <2>3
<1> QED BY <1>1, <1>2

\* However the tool is locked out or killed, and whatever the stream and the
\* database hold, the database changes as Import says: all the rows of a table
\* at once, none changed (uplift.cpp:66, FileStore.cpp:138), unless SQLite
\* refuses a row or the transaction (FileStore.cpp:92, :100, :135).
THEOREM ImportRefined == Spec => ImplementsImport
<1>1. Init => Abstract!Init
  BY DEF Init, Abstract!Init, Empty, Abstract!Empty
<1>2. Imported /\ [Next]_vars
        => [Abstract!Next]_<<Offered, [T \in Tables |-> Had(T)], "row" \in refused, db>>
  <2> SUFFICES ASSUME Imported, [Next]_vars PROVE Abstract!Next
    OBVIOUS
  <2>1. db' = db \/ Abstract!Take(stmts) \/ Abstract!TakeSome
    BY ImportsOnly
  <2>2. stmts \in SUBSET Tables
    BY DEF Imported, ToolTypeOK
  <2> QED BY <2>1, <2>2 DEF Abstract!Next, Abstract!Restream
<1>3. Spec => []Imported
  BY ImportInvariant
<1>4. Spec => Abstract!Spec
  BY <1>1, <1>2, <1>3, PTL DEF Spec, Abstract!Spec
<1> QED BY <1>4 DEF ImplementsImport

------------------------------------------------------------------------------
(* Nothing is lost but what was refused *)

\* As long as nothing is refused the tool has both tables and both statements
\* when it needs them.
Unrefused ==
  pc # "off" /\ "table" \notin refused =>
    /\ pc \notin {"initialize", "create events"} => "events" \in tables
    /\ pc \notin {"initialize", "create events", "create strings"} => "strings" \in tables
    /\ pc \notin {"initialize", "create events", "create strings", "prepare events"} =>
         "events" \in stmts
    /\ pc \in Importing \cup {"open"} => "strings" \in stmts

LEMMA UnrefusedSteps == Imported /\ Unrefused /\ [Next]_vars => Unrefused'
<1> SUFFICES ASSUME Imported, Unrefused, [Next]_vars PROVE Unrefused'
  OBVIOUS
<1>1. pc \in Places
  BY DEF Imported, ToolTypeOK
<1>2. CASE Start
  BY <1>2 DEF Start, At, Unrefused, Importing
<1>3. CASE OpenDatabase \/ OpenDatabaseFails
  BY <1>1, <1>3 DEF OpenDatabase, OpenDatabaseFails, Refuse, At, database, tool, ledger,
     Unrefused, Importing, Places
<1>4. CASE CreateEvents \/ CreateStrings
  BY <1>1, <1>4 DEF CreateEvents, CreateStrings, CreateTable, Refuse, At, tool, Unrefused,
     Importing, Places
<1>5. CASE PrepareEvents
  BY <1>1, <1>5 DEF PrepareEvents, PrepareInsert, Refuse, At, database, Unrefused, Importing, Places
<1>6. CASE PrepareStrings
  BY <1>1, <1>6 DEF PrepareStrings, PrepareInsert, Refuse, At, database, Unrefused, Importing,
     Places
<1>7. CASE BeginBulkInsert \/ ReadRecord \/ ReadNoRecord \/ Insert \/ InsertFails
  BY <1>7 DEF BeginBulkInsert, ReadRecord, ReadNoRecord, Insert, InsertNothing, InsertDuplicate,
     InsertRow, InsertFails, Refuse, At, database, tool, ledger, Unrefused, Importing
<1>8. CASE StreamMissing \/ Finish \/ Kill
  BY <1>8 DEF StreamMissing, Finish, Kill, Leave, Unrefused
<1>9. CASE Record
  BY <1>9 DEF Record, Unrefused
<1>10. CASE Lock \/ Unlock \/ UNCHANGED vars
  BY <1>10 DEF Lock, Unlock, vars, database, tool, ledger, Unrefused, Importing
<1> QED BY <1>2, <1>3, <1>4, <1>5, <1>6, <1>7, <1>8, <1>9, <1>10 DEF Next, Tool

LEMMA LostSteps ==
  Imported /\ Unrefused /\ LostOnlyWhenRefused /\ [Next]_vars => LostOnlyWhenRefused'
<1> SUFFICES ASSUME Imported, Unrefused, LostOnlyWhenRefused, [Next]_vars,
                    finished', refused' = {}, NEW T \in Tables
             PROVE  DOMAIN Offered'[T] \subseteq DOMAIN db'[T]
  BY DEF LostOnlyWhenRefused
<1>1. CASE Finish
  <2>1. pc = "commit" /\ db' = txn /\ refused = {} /\ file' = file
    BY <1>1 DEF Finish, Commit, CommitFails, Refuse, Leave, recording
  <2>2. Offered' = Offered
    BY <2>1 DEF Offered, Mine, FirstOf
  <2>3. T \in stmts
    BY <2>1 DEF Unrefused, Importing, Tables
  <2>4. txn[T] = Abstract!Merge(db[T], Offered[T])
    BY <2>1, <2>3, LoadedAll
  <2>5. DOMAIN txn[T] = DOMAIN db[T] \cup DOMAIN Offered[T]
    BY <2>4 DEF Abstract!Merge
  <2> QED BY <2>1, <2>2, <2>5
<1>2. CASE ~ Finish
  <2>1. finished /\ pc = "off"
    <3>1. finished
      BY <1>2 DEF Next, Record, Tool, Start, At, OpenDatabase, OpenDatabaseFails, CreateEvents,
         CreateStrings, PrepareEvents, PrepareStrings, CreateTable, PrepareInsert, StreamMissing,
         Leave, BeginBulkInsert, ReadRecord, ReadNoRecord, Insert, InsertNothing, InsertDuplicate,
         InsertRow, InsertFails, Kill, Lock, Unlock, vars, ledger
    <3> QED BY <3>1 DEF Imported
  <2>2. Unlock \/ UNCHANGED vars
    BY <1>2, <2>1 DEF Next, Record, Tool, Start, At, OpenDatabase, OpenDatabaseFails, CreateEvents,
       CreateStrings, PrepareEvents, PrepareStrings, StreamMissing, BeginBulkInsert, ReadRecord,
       ReadNoRecord, Insert, InsertNothing, InsertDuplicate, InsertRow, InsertFails, Kill, Lock
  <2>3. file' = file /\ db' = db /\ refused = {}
    BY <2>2 DEF Unlock, vars, ledger, database, recording
  <2>4. Offered' = Offered
    BY <2>3 DEF Offered, Mine, FirstOf
  <2> QED BY <2>1, <2>3, <2>4 DEF LostOnlyWhenRefused
<1> QED BY <1>1, <1>2

\* An import that ends normally lacks a row that the stream offers only if
\* SQLite refused a call whose status is ignored (uplift.cpp:57, FileStore.cpp:58,
\* :68, :92, :100, :140).
THEOREM NothingIsLost == Spec => []LostOnlyWhenRefused
<1>1. Init => Imported /\ Unrefused /\ LostOnlyWhenRefused
  BY ImportInit DEF Init, Unrefused, LostOnlyWhenRefused
<1>2. Imported /\ Unrefused /\ LostOnlyWhenRefused /\ [Next]_vars
        => Imported' /\ Unrefused' /\ LostOnlyWhenRefused'
  BY ImportSteps, UnrefusedSteps, LostSteps
<1> QED BY <1>1, <1>2, PTL DEF Spec

------------------------------------------------------------------------------
(* Torn names *)

\* A string that lacks some of its characters, and is read all the same.
Cut(r) == r.kind = "string" /\ Readable(r) /\ ~ Whole(r)

TornHere == {k \in DOMAIN db.strings : db.strings[k].chars < NameLength[db.strings[k].name]}

\* The names that the stream would tear, unless it is spoilt.
TornThere ==
  {k \in Words :
     /\ file # NoFile /\ wrote.session \notin spoilt
     /\ \E i \in 1 .. Len(file) : Cut(file[i]) /\ file[i].id = k}

Torn == TornHere \cup TornThere

Unspoilt == \A x \in sources : x[2] \notin spoilt

Few == Unspoilt => Cardinality(Torn) <= cuts

LEMMA TornIsFinite == Imported => IsFiniteSet(Torn) /\ Cardinality(Torn) \in Nat
<1> SUFFICES ASSUME Imported PROVE IsFiniteSet(Torn) /\ Cardinality(Torn) \in Nat
  OBVIOUS
<1>1. 0 \in Int /\ Word - 1 \in Int
  BY RoomsAssumption
<1>2. IsFiniteSet(Words)
  BY <1>1, FS_Interval DEF Words
<1>3. RowsOK(db) /\ "strings" \in Tables
  BY DEF Imported, ToolTypeOK, Tables
<1>4. DOMAIN db.strings \subseteq Words
  BY <1>3 DEF RowsOK
<1>5. Torn \in SUBSET Words
  BY <1>4 DEF Torn, TornHere, TornThere
<1> HIDE DEF Torn
<1> QED BY <1>2, <1>5, FS_Subset, FS_CardinalityType

\* A stream that is cut short tears one name at most.
LEMMA CutTears ==
  ASSUME Imported, Imported', Record, CutShort
  PROVE  \E x : Torn' \subseteq Torn \cup {x}
<1>1. db' = db /\ wrote' = wrote /\ spoilt' = spoilt
  BY DEF Record, database, CutShort
<1>2. PICK last : last = Len(file')
  OBVIOUS
<1>3. PICK x : x = file'[last].id
  OBVIOUS
<1>4. TornHere' = TornHere
  BY <1>1 DEF TornHere
<1>5. ASSUME NEW i \in 1 .. Len(file'), file' # NoFile, wrote.session \notin spoilt, Cut(file'[i])
      PROVE  i = last
  <2>1. Streamed'
    BY DEF Imported
  <2>2. i < Len(file') => Whole(file'[i])
    BY <1>1, <1>5, <2>1 DEF Streamed, Stored
  <2>3. file' \in Seq(Records)
    BY <1>5, <2>1 DEF Streamed, RecordingTypeOK
  <2> QED BY <1>2, <1>5, <2>2, <2>3 DEF Cut
<1>6. ASSUME NEW k \in Torn', k # x PROVE k \in Torn
  <2>1. CASE k \in TornHere'
    BY <1>4, <2>1 DEF Torn
  <2>2. CASE k \notin TornHere'
    <3>1. wrote.session \notin spoilt
      BY <1>1, <1>6, <2>2 DEF Torn, TornThere
    <3>2. PICK i \in 1 .. Len(file') : file' # NoFile /\ Cut(file'[i]) /\ file'[i].id = k
      BY <1>6, <2>2 DEF Torn, TornThere
    <3> QED BY <1>3, <1>5, <1>6, <3>1, <3>2
  <2> QED BY <2>1, <2>2
<1>7. Torn' \subseteq Torn \cup {x}
  BY <1>6
<1> QED BY <1>7

\* Only rows that were torn in the stream are torn in the database.
LEMMA WritingTears ==
  ASSUME Imported, Writing, Unspoilt'
  PROVE  Unspoilt /\ Torn' \subseteq Torn
<1>1. /\ UNCHANGED <<file, wrote, spoilt>> /\ file # NoFile
      /\ \A x \in sources : x \in sources'
      /\ "strings" \in Tables
  BY Brought DEF Tables
<1>2. Unspoilt
  BY <1>1 DEF Unspoilt
<1>3. PICK d, e : d = db.strings /\ e = db'.strings
  OBVIOUS
<1>4. /\ \A k \in DOMAIN d : k \in DOMAIN e /\ e[k] = d[k]
      /\ \A k \in DOMAIN e : k \in DOMAIN d
           \/ \E i \in Mine("strings") : file[i].id = k /\ e[k] = RowOf(file[i]).rest
      /\ e = d \/ \E b : <<"strings", wrote.session, b>> \in sources'
  <2>1. d = db["strings"] /\ e = db'["strings"]
    BY <1>3
  <2>2. \A k \in DOMAIN d : k \in DOMAIN e /\ e[k] = d[k]
    BY <1>1, <2>1, Brought
  <2>3. \A k \in DOMAIN e : k \in DOMAIN d
          \/ \E i \in Mine("strings") : file[i].id = k /\ e[k] = RowOf(file[i]).rest
    BY <1>1, <2>1, Brought
  <2>4. e = d \/ \E b : <<"strings", wrote.session, b>> \in sources'
    BY <1>1, <2>1, Brought
  <2> QED BY <2>2, <2>3, <2>4
<1>5. Streamed /\ file \in Seq(Records)
  BY <1>1 DEF Imported, Streamed, RecordingTypeOK
<1>6. ASSUME NEW k \in DOMAIN e, e[k].chars < NameLength[e[k].name], k \notin DOMAIN d
      PROVE  k \in TornThere
  <2>1. PICK i \in Mine("strings") : file[i].id = k /\ e[k] = RowOf(file[i]).rest
    BY <1>4, <1>6
  <2>2. i \in 1 .. Len(file) /\ Readable(file[i]) /\ For("strings", file[i])
    BY <1>1, <1>5, MineIs
  <2>3. PICK r \in Records : r = file[i]
    BY <1>5, <2>2
  <2>4. r.kind = "string" /\ e[k] = [name |-> r.name, chars |-> r.pieces - 2] /\ k \in Words
    BY <2>1, <2>2, <2>3, RowIs DEF For
  <2>5. r.pieces \in Nat /\ NameLength[r.name] \in Nat /\ r.pieces - 2 < NameLength[r.name]
    BY <1>6, <2>4, RecordIs
  <2>6. Cut(r)
    BY <2>2, <2>3, <2>4, <2>5 DEF Cut, Whole
  <2>7. wrote.session \notin spoilt
    <3>1. PICK b : <<"strings", wrote.session, b>> \in sources'
      BY <1>4, <1>6
    <3> QED BY <1>1, <3>1 DEF Unspoilt
  <2> QED BY <1>1, <2>1, <2>2, <2>3, <2>4, <2>6, <2>7 DEF TornThere
<1>7. TornHere' \subseteq TornHere \cup TornThere
  BY <1>3, <1>4, <1>6 DEF TornHere
<1>8. TornThere' = TornThere
  BY <1>1 DEF TornThere
<1> QED BY <1>2, <1>7, <1>8 DEF Torn

LEMMA TornSteps == Imported /\ Imported' /\ Few /\ [Next]_vars => Few'
<1> SUFFICES ASSUME Imported, Imported', Few, [Next]_vars PROVE Few'
  OBVIOUS
<1>1. /\ IsFiniteSet(Torn) /\ Cardinality(Torn) \in Nat /\ cuts \in Nat
      /\ IsFiniteSet(Torn') /\ Cardinality(Torn') \in Nat /\ cuts' \in Nat
  <2>1. cuts \in Nat /\ cuts' \in Nat
    BY DEF Imported, Streamed, RecordingTypeOK
  <2>2. (Imported => IsFiniteSet(Torn) /\ Cardinality(Torn) \in Nat)'
    BY TornIsFinite, PTL
  <2> QED BY <2>1, <2>2, TornIsFinite
<1>2. ASSUME Unspoilt' => Unspoilt /\ Torn' \subseteq Torn, cuts <= cuts' PROVE Few'
  <2> SUFFICES ASSUME Unspoilt' PROVE Cardinality(Torn') <= cuts'
    BY DEF Few
  <2>1. PICK t, u : t = Torn /\ u = Torn'
    OBVIOUS
  <2>2. Cardinality(u) <= Cardinality(t)
    BY <1>1, <1>2, <2>1, FS_Subset
  <2> QED BY <1>1, <1>2, <2>1, <2>2 DEF Few
<1>3. ASSUME NEW x, Torn' \subseteq Torn \cup {x}, Unspoilt' => Unspoilt, cuts' = cuts + 1
      PROVE  Few'
  <2> SUFFICES ASSUME Unspoilt' PROVE Cardinality(Torn') <= cuts'
    BY DEF Few
  <2>1. PICK t, u : t = Torn /\ u = Torn'
    OBVIOUS
  <2>2. IsFiniteSet(t \cup {x}) /\ Cardinality(t \cup {x}) <= Cardinality(t) + 1
    <3>1. IsFiniteSet(t) /\ Cardinality(t) \in Nat
      BY <1>1, <2>1
    <3>2. /\ IsFiniteSet(t \cup {x})
          /\ Cardinality(t \cup {x}) = IF x \in t THEN Cardinality(t) ELSE Cardinality(t) + 1
      BY <3>1, FS_AddElement
    <3> QED BY <3>1, <3>2
  <2>3. Cardinality(u) <= Cardinality(t \cup {x}) /\ Cardinality(t \cup {x}) \in Nat
    BY <1>3, <2>1, <2>2, FS_Subset, FS_CardinalityType
  <2> QED BY <1>1, <1>3, <2>1, <2>2, <2>3 DEF Few
<1>4. CASE Record
  <2>1. db' = db /\ sources' = sources /\ RecordingNext
    BY <1>4 DEF Record, database
  <2>2. TornHere' = TornHere
    BY <2>1 DEF TornHere
  <2>3. CASE CutShort
    <3>1. cuts' = cuts + 1 /\ spoilt' = spoilt
      BY <2>3 DEF CutShort
    <3>2. Unspoilt' => Unspoilt
      BY <2>1, <3>1 DEF Unspoilt
    <3> QED BY <1>3, <1>4, <2>3, <3>1, <3>2, CutTears
  <2>4. CASE Spoil
    <3>1. /\ cuts' = cuts /\ wrote' = wrote /\ spoilt' = spoilt \cup {wrote.session}
      BY <2>4 DEF Spoil
    <3>2. Unspoilt' => Unspoilt
      BY <2>1, <3>1 DEF Unspoilt
    <3>3. TornThere' = {}
      BY <3>1 DEF TornThere
    <3> QED BY <1>1, <1>2, <2>2, <3>1, <3>2, <3>3 DEF Torn
  <2>5. CASE program' = "recording" /\ UNCHANGED mishaps
    <3>1. Streamed'
      BY DEF Imported
    <3>2. \A i \in 1 .. Len(file') : ~ Cut(file'[i])
      BY <2>5, <3>1 DEF Streamed, Live, AllCurrent, Current, Cut
    <3>3. TornThere' = {}
      BY <3>2 DEF TornThere
    <3>4. cuts' = cuts /\ (Unspoilt' => Unspoilt)
      BY <2>1, <2>5 DEF Unspoilt, mishaps
    <3> QED BY <1>1, <1>2, <2>2, <3>3, <3>4 DEF Torn
  <2>6. CASE file' = file /\ wrote'.session = wrote.session /\ UNCHANGED mishaps
    <3>1. TornThere' = TornThere /\ cuts' = cuts /\ (Unspoilt' => Unspoilt)
      BY <2>1, <2>6 DEF TornThere, Unspoilt, mishaps
    <3> QED BY <1>1, <1>2, <2>2, <3>1 DEF Torn
  <2>7. \/ CutShort \/ Spoil \/ (program' = "recording" /\ UNCHANGED mishaps)
        \/ (file' = file /\ wrote'.session = wrote.session /\ UNCHANGED mishaps)
    <3>1. wrote \in [session : Nat, names : Seq(Names), dropped : SUBSET Names, whole : BOOLEAN]
      BY DEF Imported, Streamed, RecordingTypeOK
    <3>2. CASE CloseStream \/ RecordSample
      <4>1. PICK w : w = wrote
        OBVIOUS
      <4>2. wrote'.session = wrote.session
        BY <3>1, <3>2 DEF CloseStream, End, RecordSample
      <4> QED BY <3>2, <4>2 DEF CloseStream, End, RecordSample
    <3> QED BY <2>1, <3>2 DEF RecordingNext, OpenStream, WriteEvent, WriteString, WriteBlindly
  <2> QED BY <2>3, <2>4, <2>5, <2>6, <2>7
<1>5. CASE Writing
  <2>1. cuts' = cuts
    BY <1>5, Brought
  <2> QED BY <1>1, <1>2, <1>5, <2>1, WritingTears
<1>6. CASE ~ Record /\ ~ Writing
  <2>1. UNCHANGED recording
    BY <1>6 DEF Next, Tool, Start, At, OpenDatabase, OpenDatabaseFails, CreateEvents,
       CreateStrings, PrepareEvents, PrepareStrings, StreamMissing, Leave, BeginBulkInsert,
       ReadRecord, ReadNoRecord, Insert, InsertNothing, InsertDuplicate, InsertRow, InsertFails,
       Finish, Kill, Lock, Unlock, vars
  <2>2. UNCHANGED <<file, wrote, spoilt, cuts, db, sources>>
    BY <1>6, <2>1, WritesOnly DEF recording, mishaps
  <2>3. Torn' = Torn /\ (Unspoilt' => Unspoilt)
    BY <2>2 DEF Torn, TornHere, TornThere, Unspoilt
  <2> QED BY <1>1, <1>2, <2>2, <2>3
<1> QED BY <1>4, <1>5, <1>6

\* A name in the database is cut short only if a program died while it wrote
\* it, or its file could not be closed: one name for each such stream, however
\* often it is imported (uplift.cpp:21, EventStreamIO.cpp:19).  Streams of which
\* an fwrite fell short (EventStreamIO.cpp:32, :49), or whose threads raced, are
\* excluded.
THEOREM TearsNeedCuts == Spec => []TornNamesAreFew
<1>1. Init => Imported /\ Few
  <2> SUFFICES ASSUME Init PROVE Imported /\ Few
    OBVIOUS
  <2>1. Imported
    BY ImportInit
  <2>2. db.strings = Empty /\ file = NoFile /\ cuts = 0
    BY DEF Init, RecordingInit, Tables
  <2>3. Torn = {}
    BY <2>2 DEF Torn, TornHere, TornThere, Empty
  <2> QED BY <2>1, <2>2, <2>3, FS_EmptySet DEF Few
<1>2. Imported /\ Few /\ [Next]_vars => Imported' /\ Few'
  BY ImportSteps, TornSteps
<1>3. Imported /\ Few => TornNamesAreFew
  <2> SUFFICES ASSUME Imported, Few, Unspoilt PROVE Cardinality(TornHere) <= cuts
    BY DEF TornNamesAreFew, TornHere, Unspoilt
  <2>1. IsFiniteSet(Torn) /\ Cardinality(Torn) \in Nat /\ cuts \in Nat
    BY TornIsFinite DEF Imported, Streamed, RecordingTypeOK
  <2>2. TornHere \subseteq Torn
    BY DEF Torn
  <2>3. Cardinality(TornHere) <= Cardinality(Torn) /\ Cardinality(TornHere) \in Nat
    BY <2>1, <2>2, FS_Subset, FS_CardinalityType
  <2> QED BY <2>1, <2>3 DEF Few
<1> QED BY <1>1, <1>2, <1>3, PTL DEF Spec

------------------------------------------------------------------------------
(* Values and names *)

\* The 32 bits that hold a value of its C type give it back.
LEMMA SignedIs ==
  ASSUME NEW n \in Names, NEW e, e.type = Sample[n].type, e.value = Sample[n].value % Word
  PROVE  Signed(e) = Sample[n].value
<1> DEFINE W == Word
           v == Sample[n].value
           q == v \div W
           x == v % W
<1>1. W \in Nat \ {0} /\ v \in Int /\ Sample[n].type \in Types
  BY RoomsAssumption, NamesAssumption
<1>2. q \in Int /\ x \in 0 .. W - 1 /\ v = W * q + x
  BY <1>1, SMT
<1>3. /\ Sample[n].type = "int" => 0 - W <= 2 * v /\ 2 * v < W
      /\ Sample[n].type # "int" => v \in 0 .. W - 1
  BY <1>1, ValuesAssumption
<1>4. e.value = x
  OBVIOUS
<1> HIDE DEF W, v, q, x
<1>5. q = 0 \/ (q = 0 - 1) \/ q >= 1 \/ q <= 0 - 2
  BY <1>2
<1>6. \A d \in Nat : W * d \in Nat /\ W * (d + 1) = W * d + W /\ W * (0 - (d + 2)) = 0 - W * d - 2 * W
  BY <1>1
<1>7. ~ q >= 1
  <2> SUFFICES ASSUME q >= 1 PROVE FALSE
    OBVIOUS
  <2>1. q - 1 \in Nat /\ q - 1 + 1 = q
    BY <1>2
  <2>2. W * (q - 1) \in Nat /\ W * q = W * (q - 1) + W
    BY <1>6, <2>1
  <2> DEFINE a == W * (q - 1)
             b == W * q
  <2>3. a \in Nat /\ b = a + W /\ v = b + x
    BY <1>2, <2>2
  <2> HIDE DEF a, b
  <2>4. v >= W
    BY <1>1, <1>2, <2>3
  <2> QED BY <1>1, <1>3, <2>4
<1>8. ~ q <= 0 - 2
  <2> SUFFICES ASSUME q <= 0 - 2 PROVE FALSE
    OBVIOUS
  <2>1. 0 - 2 - q \in Nat /\ 0 - (0 - 2 - q + 2) = q
    BY <1>2
  <2>2. W * (0 - 2 - q) \in Nat /\ W * q = 0 - W * (0 - 2 - q) - 2 * W
    BY <1>6, <2>1
  <2> DEFINE a == W * (0 - 2 - q)
             b == W * q
  <2>3. a \in Nat /\ b = 0 - a - 2 * W /\ v = b + x
    BY <1>2, <2>2
  <2> HIDE DEF a, b
  <2>4. v < 0 - W
    BY <1>1, <1>2, <2>3
  <2> QED BY <1>1, <1>3, <2>4
<1>9. CASE q = 0
  <2>1. x = v
    BY <1>1, <1>2, <1>9
  <2>2. Sample[n].type = "int" => ~ 2 * x >= W
    BY <1>1, <1>3, <2>1
  <2> QED BY <1>4, <2>1, <2>2 DEF Signed, W, v
<1>10. CASE q = 0 - 1
  <2>1. x = v + W
    BY <1>1, <1>2, <1>10
  <2>2. v < 0
    BY <1>1, <1>2, <2>1
  <2>3. Sample[n].type = "int"
    BY <1>1, <1>3, <2>2
  <2>4. 2 * x >= W /\ x - W = v
    BY <1>1, <1>3, <2>1, <2>3
  <2>5. Signed(e) = e.value - Word
    BY <1>4, <2>3, <2>4 DEF Signed, W
  <2> QED BY <1>4, <2>4, <2>5 DEF W, v
<1> QED BY <1>5, <1>7, <1>8, <1>9, <1>10

\* Which rows a table has, by the sessions it has been filled from.
FromOne(T) ==
  wrote.whole /\ (\A x \in sources : x[1] = T => x[2] = wrote.session) =>
    \A k \in DOMAIN db[T] : \E i \in 1 .. Len(file) :
      For(T, file[i]) /\ file[i].id = k /\ db[T][k] = RowOf(file[i]).rest

HasAll(T) ==
  wrote.whole /\ <<T, wrote.session, TRUE>> \in sources =>
    \A i \in 1 .. Len(file) : For(T, file[i]) => file[i].id \in DOMAIN db[T]

Sourced ==
  /\ \A x \in sources : x[2] <= sessions
  /\ program = "recording" => \A x \in sources : x[2] # wrote.session
  /\ \A T \in Tables :
       /\ (\A x \in sources : x[1] # T) => db[T] = Empty
       /\ FromOne(T) /\ HasAll(T)

LEMMA SourcedInit == Init => Sourced
BY DEF Init, RecordingInit, Sourced, FromOne, HasAll

LEMMA SourcesStay ==
  ASSUME UNCHANGED <<file, wrote, db, sources>>, NEW T
  PROVE  (FromOne(T)' <=> FromOne(T)) /\ (HasAll(T)' <=> HasAll(T))
<1>1. FromOne(T)' <=> FromOne(T)
  BY DEF FromOne, For
<1>2. HasAll(T)' <=> HasAll(T)
  BY DEF HasAll, For
<1> QED BY <1>1, <1>2

\* While nothing is imported: only a new stream, or one that is closed, changes
\* what the rows are compared with.
LEMMA SourcedRecord ==
  ASSUME Imported, Sourced, Record
  PROVE  Sourced'
<1>1. RecordingNext /\ UNCHANGED <<db, sources>>
  BY DEF Record, database
<1>2. /\ Streamed /\ sources \subseteq Tables \X Nat \X BOOLEAN /\ sessions \in Nat
      /\ \A x \in sources : x[1] \in Tables /\ x[2] \in Nat /\ x[2] <= sessions
  <2>1. Streamed /\ sources \subseteq Tables \X Nat \X BOOLEAN /\ sessions \in Nat
    BY DEF Imported, ToolTypeOK, Streamed, RecordingTypeOK
  <2> QED BY <2>1 DEF Sourced
<1>3. CASE OpenStream /\ program' = "recording"
  <2>1. sessions' = sessions + 1 /\ wrote'.session = sessions + 1 /\ ~ wrote'.whole
    BY <1>3 DEF OpenStream
  <2>2. \A x \in sources : x[2] <= sessions' /\ x[2] # wrote'.session
    BY <1>2, <2>1
  <2> QED BY <1>1, <2>1, <2>2 DEF Sourced, FromOne, HasAll
<1>4. CASE OpenStream /\ program' = "blind"
  <2>1. sessions' = sessions + 1 /\ UNCHANGED <<file, wrote>>
    BY <1>4 DEF OpenStream
  <2>2. \A x \in sources : x[2] <= sessions'
    BY <1>2, <2>1
  <2>3. \A T : (FromOne(T)' <=> FromOne(T)) /\ (HasAll(T)' <=> HasAll(T))
    BY <1>1, <2>1, SourcesStay
  <2> QED BY <1>1, <1>4, <2>1, <2>2, <2>3 DEF Sourced
<1>5. CASE program = "recording" /\ CloseStream
  <2>1. sessions' = sessions /\ program' = "over" /\ file' = file /\ wrote'.session = wrote.session
    BY <1>2, <1>5 DEF CloseStream, End, Streamed, RecordingTypeOK
  <2>2. \A x \in sources : x[2] # wrote.session
    BY <1>5 DEF Sourced
  <2>3. ASSUME NEW T \in Tables, \A x \in sources : x[1] = T => x[2] = wrote.session
        PROVE  db[T] = Empty
    BY <2>2, <2>3 DEF Sourced
  <2>4. ASSUME NEW T \in Tables PROVE FromOne(T)' /\ HasAll(T)'
    <3>1. FromOne(T)'
      BY <1>1, <2>1, <2>3 DEF FromOne, Empty
    <3>2. <<T, wrote.session, TRUE>> \notin sources
      BY <2>2
    <3>3. HasAll(T)'
      BY <1>1, <2>1, <3>2 DEF HasAll
    <3> QED BY <3>1, <3>3
  <2> QED BY <1>1, <2>1, <2>4 DEF Sourced
<1>6. CASE program = "blind" /\ (CloseStream \/ RecordSample \/ WriteBlindly)
  <2>1. UNCHANGED <<sessions, file, wrote>> /\ program' # "recording"
    BY <1>6 DEF CloseStream, End, RecordSample, WriteBlindly
  <2>2. \A T : (FromOne(T)' <=> FromOne(T)) /\ (HasAll(T)' <=> HasAll(T))
    BY <1>1, <2>1, SourcesStay
  <2> QED BY <1>1, <2>1, <2>2 DEF Sourced
<1>7. CASE program = "recording" /\ (RecordSample \/ WriteEvent \/ WriteString \/ CutShort \/ Spoil)
  <2>1. sessions' = sessions /\ wrote'.session = wrote.session /\ ~ wrote'.whole
    BY <1>2, <1>7 DEF RecordSample, WriteEvent, WriteString, CutShort, Spoil, Streamed, Live,
       RecordingTypeOK
  <2> QED BY <1>1, <1>7, <2>1 DEF Sourced, FromOne, HasAll
<1>8. \/ (OpenStream /\ program' \in {"recording", "blind"})
      \/ (program = "recording"
            /\ (CloseStream \/ RecordSample \/ WriteEvent \/ WriteString \/ CutShort \/ Spoil))
      \/ (program = "blind" /\ (CloseStream \/ RecordSample \/ WriteBlindly))
  BY <1>1 DEF RecordingNext, OpenStream, CloseStream, End, RecordSample, WriteEvent, WriteString,
     WriteBlindly, CutShort, Spoil
<1> QED BY <1>3, <1>4, <1>5, <1>6, <1>7, <1>8

\* An import adds the session to the tables that it fills.
LEMMA SourcedWriting ==
  ASSUME Imported, Sourced, Writing
  PROVE  Sourced'
<1>1. /\ UNCHANGED <<program, file, sessions, wrote>> /\ program = "over" /\ file # NoFile
      /\ \A x \in sources : x \in sources'
      /\ \A x \in sources' : x \in sources \/ x[2] = wrote.session
  BY Brought
<1>2. /\ Streamed /\ file \in Seq(Records) /\ wrote.session <= sessions
  BY <1>1 DEF Imported, Streamed, RecordingTypeOK, Counted
<1>3. \A x \in sources' : x[2] <= sessions
  BY <1>1, <1>2 DEF Sourced
<1>4. ASSUME NEW T \in Tables, \A x \in sources' : x[1] # T PROVE db'[T] = Empty
  <2>1. db[T] = Empty
    BY <1>1, <1>4 DEF Sourced
  <2>2. db'[T] = db[T] \/ \E b : <<T, wrote.session, b>> \in sources'
    BY Brought
  <2> QED BY <1>4, <2>1, <2>2
<1>5. ASSUME NEW T \in Tables, wrote.whole, \A x \in sources' : x[1] = T => x[2] = wrote.session,
             NEW k \in DOMAIN db'[T]
      PROVE  \E i \in 1 .. Len(file) :
               For(T, file[i]) /\ file[i].id = k /\ db'[T][k] = RowOf(file[i]).rest
  <2>1. CASE k \in DOMAIN db[T]
    <3>1. \A x \in sources : x[1] = T => x[2] = wrote.session
      BY <1>1, <1>5
    <3>2. FromOne(T)
      BY DEF Sourced
    <3>3. \E i \in 1 .. Len(file) :
            For(T, file[i]) /\ file[i].id = k /\ db[T][k] = RowOf(file[i]).rest
      BY <1>5, <2>1, <3>1, <3>2 DEF FromOne
    <3>4. db'[T][k] = db[T][k]
      BY <2>1, Brought
    <3> QED BY <3>3, <3>4
  <2>2. CASE k \notin DOMAIN db[T]
    <3>1. PICK i \in Mine(T) : file[i].id = k /\ db'[T][k] = RowOf(file[i]).rest
      BY <1>5, <2>2, Brought
    <3>2. i \in 1 .. Len(file) /\ For(T, file[i])
      BY <1>1, <1>2, MineIs
    <3> QED BY <3>1, <3>2
  <2> QED BY <2>1, <2>2
<1>6. ASSUME NEW T \in Tables, wrote.whole, <<T, wrote.session, TRUE>> \in sources',
             NEW i \in 1 .. Len(file), For(T, file[i])
      PROVE  file[i].id \in DOMAIN db'[T]
  <2>1. CASE <<T, wrote.session, TRUE>> \in sources
    <3>1. file[i].id \in DOMAIN db[T]
      BY <1>6, <2>1 DEF Sourced, HasAll
    <3> QED BY <3>1, Brought
  <2>2. CASE <<T, wrote.session, TRUE>> \notin sources
    <3>1. pc = "commit" /\ db' = txn /\ T \in stmts /\ "row" \notin refused
      BY <1>6, <2>2, Brought
    <3>2. file[i] \in Records /\ Whole(file[i])
      BY <1>2, <1>6 DEF Streamed, Closed
    <3>3. Readable(file[i])
      BY <3>2, WholeReadable
    <3>4. i \in Mine(T)
      BY <1>1, <1>2, <1>6, <3>3, MineIs
    <3>5. i \in 1 .. pos
      BY <3>1, <3>4, AllRead
    <3>6. Loaded(T, pos)
      BY <3>1 DEF Imported, Loading
    <3> QED BY <1>6, <3>1, <3>5, <3>6 DEF Loaded
  <2> QED BY <2>1, <2>2
<1>7. ASSUME NEW T \in Tables PROVE FromOne(T)' /\ HasAll(T)'
  <2>1. FromOne(T)'
    BY <1>1, <1>5 DEF FromOne, For
  <2>2. HasAll(T)'
    BY <1>1, <1>6 DEF HasAll, For
  <2> QED BY <2>1, <2>2
<1> QED BY <1>1, <1>3, <1>4, <1>7 DEF Sourced

LEMMA SourcedSteps == Imported /\ Sourced /\ [Next]_vars => Sourced'
<1> SUFFICES ASSUME Imported, Sourced, [Next]_vars PROVE Sourced'
  OBVIOUS
<1>1. CASE ~ Record /\ ~ Writing
  <2>1. UNCHANGED recording
    BY <1>1 DEF Next, Tool, Start, At, OpenDatabase, OpenDatabaseFails, CreateEvents,
       CreateStrings, PrepareEvents, PrepareStrings, StreamMissing, Leave, BeginBulkInsert,
       ReadRecord, ReadNoRecord, Insert, InsertNothing, InsertDuplicate, InsertRow, InsertFails,
       Finish, Kill, Lock, Unlock, vars
  <2>2. UNCHANGED <<program, file, sessions, wrote, db, sources>>
    BY <1>1, <2>1, WritesOnly DEF recording
  <2>3. \A T : (FromOne(T)' <=> FromOne(T)) /\ (HasAll(T)' <=> HasAll(T))
    BY <2>2, SourcesStay
  <2> QED BY <2>2, <2>3 DEF Sourced
<1> QED BY <1>1, SourcedRecord, SourcedWriting

\* In a database of one whole stream an event's row has the value of its sample
\* and leads to the name of its probe.
LEMMA RowsResolve == Imported /\ Sourced => NamesResolve
<1> SUFFICES ASSUME Imported, Sourced, wrote.whole,
                    \A x \in sources : x[2] = wrote.session, NEW id \in DOMAIN db.events
             PROVE  LET e == db.events[id]
                        n == wrote.names[id]
                    IN  /\ e.type = Sample[n].type /\ Signed(e) = Sample[n].value
                        /\ IF e.ref \in DOMAIN db.strings
                           THEN db.strings[e.ref] = [name |-> n, chars |-> NameLength[n]]
                           ELSE \/ n \in wrote.dropped \/ e.ref = NoRef
                                \/ <<"strings", wrote.session, TRUE>> \notin sources
  BY DEF NamesResolve
<1>1. PICK e, n : e = db.events[id] /\ n = wrote.names[id]
  OBVIOUS
<1>3. /\ file # NoFile /\ file \in Seq(Records) /\ wrote.names \in Seq(Names)
      /\ \A i \in 1 .. Len(file) : Whole(file[i])
      /\ \A i \in 1 .. Len(file) : file[i].kind = "event" => Faithful(file[i]) /\ Resolved(file[i])
  BY DEF Imported, Streamed, Closed, RecordingTypeOK
<1>4. ASSUME NEW T \in Tables, NEW k \in DOMAIN db[T]
      PROVE  \E i \in 1 .. Len(file) :
               For(T, file[i]) /\ file[i].id = k /\ db[T][k] = RowOf(file[i]).rest
  BY DEF Sourced, FromOne
<1>5. "events" \in Tables /\ "strings" \in Tables
  BY DEF Tables
<1>6. PICK i \in 1 .. Len(file) :
        For("events", file[i]) /\ file[i].id = id /\ e = RowOf(file[i]).rest
  BY <1>1, <1>4, <1>5
<1>7. PICK r \in Records : r = file[i]
  BY <1>3
<1>8. /\ r.kind = "event" /\ r.id = id
      /\ e = [type |-> r.type, ref |-> r.ref, value |-> r.value]
  <2>1. r.kind = "event"
    BY <1>6, <1>7, RowIs, RecordIs DEF For
  <2> QED BY <1>6, <1>7, <2>1, RowIs
<1>9. Faithful(r) /\ Resolved(r)
  BY <1>3, <1>7, <1>8
<1>10. n \in Names /\ e.type = Sample[n].type /\ e.value = Sample[n].value % Word /\ e.ref = r.ref
  BY <1>1, <1>3, <1>8, <1>9 DEF Faithful
<1>11. Signed(e) = Sample[n].value
  BY <1>10, SignedIs
<1>12. ASSUME e.ref \in DOMAIN db.strings
       PROVE  db.strings[e.ref] = [name |-> n, chars |-> NameLength[n]]
  <2>1. PICK j \in 1 .. Len(file) :
          For("strings", file[j]) /\ file[j].id = e.ref /\ db.strings[e.ref] = RowOf(file[j]).rest
    BY <1>4, <1>5, <1>12
  <2>2. PICK q \in Records : q = file[j]
    BY <1>3
  <2>3. q.kind = "string" /\ db.strings[e.ref] = [name |-> q.name, chars |-> q.pieces - 2]
    BY <2>1, <2>2, RowIs DEF For
  <2>4. q.name = n
    BY <1>1, <1>8, <1>9, <1>10, <2>1, <2>2, <2>3 DEF Resolved
  <2>5. q.pieces = 2 + NameLength[q.name] /\ NameLength[q.name] \in Nat
    BY <1>3, <2>2, <2>3, RecordIs DEF Whole
  <2>6. q.pieces - 2 = NameLength[n]
    BY <2>4, <2>5
  <2> QED BY <2>3, <2>4, <2>6
<1>13. ASSUME e.ref \notin DOMAIN db.strings
       PROVE  n \in wrote.dropped \/ e.ref = NoRef \/ <<"strings", wrote.session, TRUE>> \notin sources
  <2>1. CASE Numbered(file, r.ref)
    <3>1. PICK j \in 1 .. Len(file) : file[j].kind = "string" /\ file[j].id = r.ref
      BY <2>1 DEF Numbered
    <3>2. file[j] \in Records
      BY <1>3
    <3>3. For("strings", file[j])
      BY <3>1, <3>2, RowIs DEF For
    <3> QED BY <1>5, <1>10, <1>13, <3>1, <3>3 DEF Sourced, HasAll
  <2> QED BY <1>1, <1>8, <1>9, <1>10, <2>1 DEF Resolved
<1> QED BY <1>1, <1>10, <1>11, <1>12, <1>13

\* A database of one stream that is whole (the program closed it, no fwrite,
\* fflush or fclose fell short, and no two threads raced for a name or a slot of
\* a ring) tells what was recorded: an event's row has the value of its sample,
\* once the 32 bits are read by their type (FileStore.cpp:114), and leads to the
\* name of its probe, whole; there is no name only if there was no room for it
\* in the table or in the ring of the announcements (Context.cpp:176), or no
\* import brought all the strings.
THEOREM RowsTell == Spec => []NamesResolve
<1>1. Init => Imported /\ Sourced
  BY ImportInit, SourcedInit
<1>2. Imported /\ Sourced /\ [Next]_vars => Imported' /\ Sourced'
  BY ImportSteps, SourcedSteps
<1> QED BY <1>1, <1>2, RowsResolve, PTL DEF Spec
==============================================================================
