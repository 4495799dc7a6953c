------------------------------- MODULE Import -------------------------------
(***************************************************************************)
(* What esp_uplift promises of the database.  However it is locked out,    *)
(* killed or run again, an import adds to each table either all the rows   *)
(* that the stream offers for it or none, both tables at one instant, and  *)
(* never changes or removes a row that is there.  If SQLite refuses one of *)
(* its rows, or the transaction, that is less: some rows that the stream   *)
(* has may come, one by one, and still none goes or changes.               *)
(*                                                                         *)
(* A table is a function from primary keys to the rest of a row.           *)
(***************************************************************************)
CONSTANT Tables

VARIABLES offered,  \* the first row that the stream has for each key
          rows,     \* all of them, as pairs of a key and the rest
          refused,  \* has SQLite refused a row or the transaction?
          db        \* the database, as another connection reads it

Empty == [k \in {} |-> 0]

\* A row that is there stays.
Merge(present, new) ==
  [k \in DOMAIN present \cup DOMAIN new |->
     IF k \in DOMAIN present THEN present[k] ELSE new[k]]

Init == db = [T \in Tables |-> Empty]

\* The stream changes; the database does not.
Restream == UNCHANGED db

Take(S) ==
  /\ db' = [T \in Tables |-> IF T \in S THEN Merge(db[T], offered[T]) ELSE db[T]]
  /\ UNCHANGED <<offered, rows, refused>>

TakeSome ==
  /\ refused
  /\ \A T \in Tables :
       /\ \A k \in DOMAIN db[T] : k \in DOMAIN db'[T] /\ db'[T][k] = db[T][k]
       /\ \A k \in DOMAIN db'[T] \ DOMAIN db[T] : <<k, db'[T][k]>> \in rows[T]
  /\ UNCHANGED <<offered, rows, refused>>

Next == Restream \/ (\E S \in SUBSET Tables : Take(S)) \/ TakeSome

Spec == Init /\ [][Next]_<<offered, rows, refused, db>>
==============================================================================
