------------------------------- MODULE Uplift -------------------------------
(***************************************************************************)
(* esp_uplift (src/src/uplift/): main, ReadRecord, and SessionFileStore on *)
(* SQLite.  It reads a stream that Recording has left, record by record,   *)
(* and inserts a row for each in one transaction on a database file that   *)
(* may exist, with the rows of earlier imports.                            *)
(*                                                                         *)
(* SQLite is here by what FileStore.cpp can see of it, in its default mode *)
(* (a rollback journal, no busy handler).  Another connection, whose       *)
(* changes are left out, reads or writes at times: while it writes, no     *)
(* other connection may begin to; while it reads, none may commit.  Any    *)
(* call may be refused for a reason of its own too (a full or read-only    *)
(* disk, no memory), and SQLite may then roll the transaction back.  The   *)
(* tool acts on the results of sqlite3_open and sqlite3_step alone, and in *)
(* the latter only SQLITE_BUSY makes a difference: it tries again.         *)
(*                                                                         *)
(* The tool is not run on a stream that is being recorded, and names are   *)
(* shorter than ReadRecord's buffer.                                       *)
(*                                                                         *)
(* A definition named ...Slip is a plausible mistake in the one after it;  *)
(* no specification uses it.                                               *)
(***************************************************************************)
EXTENDS Recording

CONSTANTS MaxRuns,       \* bound: runs of the tool
          MaxFailures    \* bound: calls that SQLite refuses for a reason of its own

ASSUME RunsAssumption == MaxRuns \in Nat /\ MaxFailures \in Nat

VARIABLES
  tables, db,            \* the database file: its tables and their rows
  other,                 \* the other connection: none, reading, writing
  pc, pos, row,          \* the tool: where it is, records read, row to insert
  stmts,                 \* the tables whose insert statement is prepared
  bulk, txn, reserved,   \* is its transaction open, and what are the tables
                         \* in it?  may it write?
  runs, finished,        \* runs so far; did the last one come to its end?
  refused,               \* history: what SQLite would not do: something that a
                         \* table needs, or that one row needs
  failures,              \* how often it had no reason that can be seen here
  sources                \* history: the sessions each table has rows of, and
                         \* whether it got all of them

database == <<tables, db>>
tool     == <<pos, row, stmts, bulk, txn, reserved>>
ledger   == <<runs, finished, refused, failures, sources>>
vars     == <<recording, database, other, pc, tool, ledger>>

Tables == {"events", "strings"}
Empty  == [k \in {} |-> 0]
NoRow  == [table |-> "events", key |-> 0, rest |-> Empty]

Idle ==
  /\ pos = 0 /\ row = NoRow /\ stmts = {} /\ bulk = FALSE /\ reserved = FALSE
  /\ txn = [T \in Tables |-> Empty]

Init ==
  /\ RecordingInit
  /\ tables = {} /\ db = [T \in Tables |-> Empty]
  /\ other = "none" /\ pc = "off" /\ Idle
  /\ runs = 0 /\ finished = FALSE /\ refused = {} /\ failures = 0 /\ sources = {}

------------------------------------------------------------------------------
(* main and Initialize *)

At(from, to) ==
  pc = from /\ pc' = to /\ UNCHANGED <<recording, other>>

Start ==
  /\ At("off", "initialize") /\ program = "over"
  /\ runs < MaxRuns /\ runs' = runs + 1
  /\ finished' = FALSE /\ refused' = {}
  /\ UNCHANGED <<database, tool, failures, sources>>

\* SQLite refuses something: because of another connection or a call it has
\* refused before, or for a reason of its own.
Refuse(what, reason) ==
  /\ refused' = refused \cup {what}
  /\ failures' = IF reason THEN failures ELSE failures + 1
  /\ failures' <= MaxFailures

OpenDatabase ==
  /\ At("initialize", "create events")
  /\ UNCHANGED <<database, tool, ledger>>

\* Initialize returns false, and main goes on: with no transaction, and with
\* statements that no one has set, which are taken to be NULL here.
OpenDatabaseFails ==
  /\ At("initialize", "open")
  /\ Refuse("table", FALSE)
  /\ UNCHANGED <<database, tool, runs, finished, sources>>

\* CREATE TABLE writes and commits; it fails, too, if the table exists.
CreateTable(T) ==
  /\ \/ /\ T \in tables \/ other = "none"
        /\ tables' = tables \cup {T} /\ UNCHANGED <<refused, failures>>
     \/ T \notin tables /\ Refuse("table", other # "none") /\ UNCHANGED tables
  /\ UNCHANGED <<db, tool, runs, finished, sources>>

CreateEvents  == At("create events", "create strings") /\ CreateTable("events")
CreateStrings == At("create strings", "prepare events") /\ CreateTable("strings")

\* Without the table, or with one whose schema is out of reach, the statement
\* is NULL.
PrepareInsert(T) ==
  /\ \/ T \in tables /\ stmts' = stmts \cup {T} /\ UNCHANGED <<refused, failures>>
     \/ /\ Refuse("table", T \notin tables \/ other = "writing")
        /\ UNCHANGED stmts
  /\ UNCHANGED <<database, pos, row, bulk, txn, reserved, runs, finished, sources>>

PrepareEvents  == At("prepare events", "prepare strings") /\ PrepareInsert("events")
PrepareStrings == At("prepare strings", "open") /\ PrepareInsert("strings")

Leave(ended) ==
  /\ pc' = "off" /\ finished' = ended
  /\ pos' = 0 /\ row' = NoRow /\ stmts' = {} /\ bulk' = FALSE /\ reserved' = FALSE
  /\ txn' = [T \in Tables |-> Empty]
  /\ UNCHANGED <<recording, other, tables, runs>>

\* exit(2), by when the tables have been created.
StreamMissing ==
  /\ pc = "open" /\ file = NoFile
  /\ Leave(FALSE) /\ refused' = {} /\ UNCHANGED <<db, failures, sources>>

\* BEGIN TRANSACTION takes no lock.  Without it each row is a transaction.
BeginBulkInsert ==
  /\ At("open", "read") /\ file # NoFile
  /\ txn' = db
  /\ \/ bulk' = TRUE /\ UNCHANGED <<refused, failures>>
     \/ bulk' = FALSE /\ Refuse("row", FALSE)
  /\ UNCHANGED <<database, pos, row, stmts, reserved, runs, finished, sources>>

------------------------------------------------------------------------------
(* ReadRecord and the inserts *)

TextSlip(r) == [name |-> r.name, chars |-> IF r.pieces > 2 THEN r.pieces - 3 ELSE 0]
Text(r)     == [name |-> r.name, chars |-> r.pieces - 2]

\* Missing characters are not missed.
RowOf(r) ==
  IF r.kind = "string"
  THEN [table |-> "strings", key |-> r.id, rest |-> Text(r)]
  ELSE [table |-> "events", key |-> r.id,
        rest |-> [type |-> r.type, ref |-> r.ref, value |-> r.value]]

ReadRecord ==
  /\ At("read", "insert")
  /\ pos < Len(file) /\ Readable(file[pos + 1])
  /\ row' = RowOf(file[pos + 1]) /\ pos' = pos + 1
  /\ UNCHANGED <<database, stmts, bulk, txn, reserved, ledger>>

ReadNoRecord ==
  /\ At("read", "commit")
  /\ pos < Len(file) => ~ Readable(file[pos + 1])
  /\ UNCHANGED <<database, tool, ledger>>

\* sqlite3_step on a NULL statement: SQLITE_MISUSE.
InsertNothing ==
  /\ At("insert", "read") /\ row.table \notin stmts
  /\ UNCHANGED <<database, tool, ledger>>

\* While it would return SQLITE_BUSY, it is tried again.
MayWrite == row.table \in stmts /\ (other = "writing" => reserved)

PresentSlip == FALSE
Present     == row.key \in DOMAIN txn[row.table]

\* SQLITE_CONSTRAINT: the row that is there stays; the result is not used.
InsertDuplicateSlip ==
  /\ pc = "insert" /\ MayWrite /\ Present
  /\ reserved' = bulk
  /\ UNCHANGED <<recording, other, database, pc, pos, row, stmts, bulk, txn, ledger>>

InsertDuplicateEndSlip ==
  /\ At("insert", "commit") /\ MayWrite /\ Present
  /\ reserved' = bulk
  /\ UNCHANGED <<database, pos, row, stmts, bulk, txn, ledger>>

InsertDuplicate ==
  /\ At("insert", "read") /\ MayWrite /\ Present
  /\ reserved' = bulk
  /\ UNCHANGED <<database, pos, row, stmts, bulk, txn, ledger>>

Put(T, key, rest) ==
  [txn EXCEPT ![T] = [k \in DOMAIN @ \cup {key} |-> IF k = key THEN rest ELSE @[k]]]

\* Outside a transaction the row is committed at once, or SQLITE_BUSY.
InsertRow ==
  /\ At("insert", "read") /\ MayWrite /\ ~ Present
  /\ txn' = Put(row.table, row.key, row.rest)
  /\ reserved' = bulk
  /\ IF bulk THEN UNCHANGED <<db, sources>>
     ELSE /\ other = "none"
          /\ db' = txn'
          /\ sources' = sources \cup {<<row.table, wrote.session, FALSE>>}
  /\ UNCHANGED <<tables, pos, row, stmts, bulk, runs, finished, refused, failures>>

Insert == InsertNothing \/ InsertDuplicate \/ InsertRow

\* SQLITE_ERROR, SQLITE_FULL, SQLITE_IOERR, ...: the row is given up, and with
\* it, as SQLite sees fit, the transaction.
InsertFails ==
  /\ At("insert", "read") /\ row.table \in stmts
  /\ Refuse("row", FALSE)
  /\ \/ reserved' \in {reserved, reserved \/ (bulk /\ MayWrite)} /\ UNCHANGED <<bulk, txn>>
     \/ reserved' = FALSE /\ bulk' = FALSE /\ txn' = db
  /\ UNCHANGED <<database, pos, row, stmts, runs, finished, sources>>

\* COMMIT, and the end of main: the database is closed, and with it a
\* transaction that was not committed is rolled back.
Commit ==
  /\ reserved => other # "reading"
  /\ db' = txn
  /\ sources' = sources \cup (stmts \X {wrote.session} \X {"row" \notin refused})
  /\ UNCHANGED <<refused, failures>>

\* SQLITE_BUSY, or another status: nobody looks at it.
CommitFails ==
  Refuse("table", reserved /\ other = "reading") /\ UNCHANGED <<db, sources>>

Finish == pc = "commit" /\ Leave(TRUE) /\ (Commit \/ CommitFails)

\* The tool is killed.
Kill ==
  /\ pc # "off" /\ Leave(FALSE) /\ refused' = {}
  /\ UNCHANGED <<db, failures, sources>>

Tool ==
  \/ Start \/ OpenDatabase \/ OpenDatabaseFails
  \/ CreateEvents \/ CreateStrings \/ PrepareEvents \/ PrepareStrings
  \/ StreamMissing \/ BeginBulkInsert \/ ReadRecord \/ ReadNoRecord \/ Insert
  \/ Finish

------------------------------------------------------------------------------
(* The rest of the world *)

Lock ==
  /\ other = "none" /\ pc # "off"
  /\ \/ other' = "reading"
     \/ ~ reserved /\ other' = "writing"
  /\ UNCHANGED <<recording, database, pc, tool, ledger>>

Unlock ==
  /\ other # "none" /\ other' = "none"
  /\ UNCHANGED <<recording, database, pc, tool, ledger>>

Record ==
  /\ pc = "off" /\ RecordingNext
  /\ finished' = FALSE /\ refused' = {}
  /\ UNCHANGED <<database, other, pc, tool, runs, failures, sources>>

Next == Record \/ Tool \/ InsertFails \/ Kill \/ Lock \/ Unlock

\* The tool goes on once it has been started, and the other connection lets go;
\* if it locks again and again, an insert gets its turn all the same.
Fairness ==
  WF_vars(pc # "off" /\ Tool) /\ SF_vars(Insert) /\ WF_vars(Unlock)

Spec == Init /\ [][Next]_vars /\ Fairness

------------------------------------------------------------------------------
\* The readable part of the stream: all the records up to one that cannot be
\* read, which is the last if there is one.
Mine(T) ==
  IF file = NoFile THEN {}
  ELSE {i \in DOMAIN file : Readable(file[i]) /\ RowOf(file[i]).table = T}

\* What it has for a table, and of that the first row for each key.
Had(T) == {<<RowOf(file[i]).key, RowOf(file[i]).rest>> : i \in Mine(T)}

FirstOf(T, k) ==
  CHOOSE i \in Mine(T) :
    RowOf(file[i]).key = k /\ \A j \in Mine(T) : RowOf(file[j]).key = k => i <= j

Offered ==
  [T \in Tables |-> [k \in {RowOf(file[i]).key : i \in Mine(T)} |->
                       RowOf(file[FirstOf(T, k)]).rest]]

Abstract == INSTANCE Import WITH
  offered <- Offered, rows <- [T \in Tables |-> Had(T)], refused <- "row" \in refused

Places == {"off", "initialize", "create events", "create strings",
           "prepare events", "prepare strings", "open", "read", "insert", "commit"}

Rests ==
  [events  |-> [type : Types, ref : Words, value : Words],
   strings |-> UNION {[name : {n}, chars : 0 .. NameLength[n]] : n \in Names}]

RowsOK(t) ==
  /\ DOMAIN t = Tables
  /\ \A T \in Tables : \A k \in DOMAIN t[T] : k \in Words /\ t[T][k] \in Rests[T]

\* The types of the variables (Event.h:73, uplift.cpp:9, FileStore.h:20).
TypeOK ==
  /\ RecordingTypeOK
  /\ tables \subseteq Tables /\ stmts \subseteq tables
  /\ RowsOK(db) /\ RowsOK(txn) /\ reserved \in BOOLEAN /\ bulk \in BOOLEAN
  /\ \A T \in Tables \ tables : db[T] = Empty
  /\ other \in {"none", "reading", "writing"}
  /\ pc \in Places /\ pos \in Nat
  /\ row = NoRow \/ (row.table \in Tables /\ row.rest \in Rests[row.table])
  /\ runs \in 0 .. MaxRuns /\ finished \in BOOLEAN
  /\ refused \subseteq {"table", "row"} /\ failures \in 0 .. MaxFailures
  /\ sources \subseteq Tables \X Nat \X BOOLEAN

\* However the tool is locked out or killed, and whatever the stream and the
\* database hold, the database changes as Import says: all the rows of a table
\* at once, none changed (uplift.cpp:66, FileStore.cpp:138), unless SQLite
\* refuses a row or the transaction (FileStore.cpp:92, :100, :135).
ImplementsImport == Abstract!Spec

\* An import that ends normally lacks a row that the stream offers only if
\* SQLite refused a call whose status is ignored (uplift.cpp:57, FileStore.cpp:58,
\* :68, :92, :100, :140): one that meets SQLITE_BUSY in an insert, finds the row
\* there, be it of the same stream, or comes to a torn record loses nothing.
LostOnlyWhenRefused ==
  finished /\ refused = {} =>
    \A T \in Tables : DOMAIN Offered[T] \subseteq DOMAIN db[T]

Signed(e) == IF e.type = "int" /\ 2 * e.value >= Word THEN e.value - Word ELSE e.value

\* A database of one stream that is whole (the program closed it, no fwrite,
\* fflush or fclose fell short, and no two threads raced for a name or a slot of
\* a ring) tells what was recorded: an event's row has the value of its sample,
\* once the 32 bits are read by their type (FileStore.cpp:114), and leads to the
\* name of its probe, whole; there is no name only if there was no room for it
\* in the table or in the ring of the announcements (Context.cpp:176), or no
\* import brought all the strings.
NamesResolve ==
  wrote.whole /\ (\A x \in sources : x[2] = wrote.session) =>
    \A id \in DOMAIN db.events :
      LET e == db.events[id]
          n == wrote.names[id]
      IN  /\ e.type = Sample[n].type /\ Signed(e) = Sample[n].value
          /\ IF e.ref \in DOMAIN db.strings
             THEN db.strings[e.ref] = [name |-> n, chars |-> NameLength[n]]
             ELSE \/ n \in wrote.dropped \/ e.ref = NoRef
                  \/ <<"strings", wrote.session, TRUE>> \notin sources

\* A name in the database is cut short only if a program died while it wrote
\* it, or its file could not be closed: one name for each such stream, however
\* often it is imported (uplift.cpp:21, EventStreamIO.cpp:19).  Streams of which
\* an fwrite fell short (EventStreamIO.cpp:32, :49), or whose threads raced, are
\* excluded.
TornNamesAreFew ==
  (\A x \in sources : x[2] \notin spoilt) =>
    Cardinality({k \in DOMAIN db.strings :
                   db.strings[k].chars < NameLength[db.strings[k].name]}) <= cuts

\* Once started the tool ends: no record and no row keeps it, though an insert
\* is tried for as long as the database is busy (FileStore.cpp:97, :126).
UpliftReturns == (pc # "off") ~> (pc = "off")
==============================================================================
