----------------------------- MODULE StringTable -----------------------------
(***************************************************************************)
(* ProfileContext::MapStringToReference (src/src/Context.cpp) on the       *)
(* lock-free devious::PointerHash (src/src/map/pointer_hash.h), called by  *)
(* any number of instrumented threads, one step per atomic operation.      *)
(*                                                                         *)
(* A name is the address of a string.  Get probes for it; if it is absent  *)
(* Put claims a slot by storing the pointer with a compare-and-swap, draws *)
(* the next reference number and stores it in the slot: three steps,       *)
(* between which other threads probe the same slot.  The thread whose Put  *)
(* succeeded hands the pair to the string queue of the drain thread.       *)
(*                                                                         *)
(* A definition named ...Slip is a plausible mistake in the one after it;  *)
(* no specification uses it.                                               *)
(***************************************************************************)
EXTENDS Integers, Sequences, FiniteSets

CONSTANTS Threads,       \* the instrumented threads
          Names,         \* the string addresses they use
          TableSize,     \* espStringTableSize
          Hash,          \* HashInteger64(ptr) % capacity
          StringRoom,    \* bound: strings queued before the string ring is full
          MaxCalls,      \* bound: calls of MapStringToReference per thread
          Null           \* nullptr

ASSUME TableAssumption == TableSize \in Nat \ {0} /\ StringRoom \in Nat
ASSUME NamesAssumption == Null \notin Names /\ MaxCalls \in Nat

Slots == 0 .. TableSize - 1

ASSUME HashAssumption == Hash \in [Names -> Slots]

VARIABLES
  ptr, value, nextIndex,     \* the table
  stringQueue,               \* the RuntimeStringReferences enqueued
  pc, key, idx, index,       \* per thread: where it is, and its locals
  known,                     \* history: was the name in the table at the call?
  calls,                     \* history: calls each thread has made
  refs                       \* history: every answer, with the name it is for

table  == <<ptr, value, nextIndex>>
locals == <<key, idx, index>>
vars   == <<table, stringQueue, pc, locals, known, calls, refs>>

Error == -1

Init ==
  /\ ptr = [i \in Slots |-> Null] /\ value = [i \in Slots |-> 0] /\ nextIndex = 0
  /\ stringQueue = <<>>
  /\ pc = [t \in Threads |-> "idle"]
  /\ key = [t \in Threads |-> Null]
  /\ idx = [t \in Threads |-> 0] /\ index = [t \in Threads |-> 0]
  /\ known = [t \in Threads |-> FALSE] /\ calls = [t \in Threads |-> 0]
  /\ refs = {}

Goto(t, l) == pc' = [pc EXCEPT ![t] = l]

Probe(t, i) == idx' = [idx EXCEPT ![t] = i]

\* The call returns r.
Return(t, r) ==
  /\ Goto(t, "idle")
  /\ refs' = refs \cup {[name |-> key[t], ref |-> r]}

InTable(k) == \E i \in Slots : ptr[i] = k

NextSlotSlip(t) == idx[t] + 1

NextSlot(t) == (idx[t] + 1) % TableSize

\* idx = (idx + 1) % capacity comes back to searchStart: the loop ends.
Exhausted(t) == NextSlot(t) = Hash[key[t]]

\* Put's do-while: on to the next slot, or out of slots and return -1.
StepPutSlip(t) ==
  /\ Probe(t, NextSlot(t))
  /\ Goto(t, "put")
  /\ UNCHANGED refs

StepPut(t) ==
  /\ Probe(t, NextSlot(t))
  /\ IF Exhausted(t) THEN Return(t, Error) ELSE Goto(t, "put") /\ UNCHANGED refs

------------------------------------------------------------------------------
(* The call, and Get. *)

Call(t, k) ==
  /\ pc[t] = "idle" /\ calls[t] < MaxCalls
  /\ calls' = [calls EXCEPT ![t] = @ + 1]
  /\ key' = [key EXCEPT ![t] = k]
  /\ known' = [known EXCEPT ![t] = InTable(k)]
  /\ Probe(t, Hash[k])
  /\ Goto(t, "get")
  /\ UNCHANGED <<table, stringQueue, index, refs>>

\* The slot Get probes holds the name: its value is loaded next.
GetHit(t) ==
  /\ pc[t] = "get" /\ ptr[idx[t]] = key[t]
  /\ Goto(t, "getvalue")
  /\ UNCHANGED <<table, stringQueue, locals, known, calls, refs>>

\* The slot is free, or every slot has been probed: the name is not there.
GetMissSlip(t) ==
  /\ pc[t] = "get" /\ ptr[idx[t]] # key[t]
  /\ Probe(t, NextSlot(t))
  /\ Goto(t, "put")
  /\ UNCHANGED <<table, stringQueue, key, index, known, calls, refs>>

GetMiss(t) ==
  /\ pc[t] = "get"
  /\ \/ ptr[idx[t]] = Null
     \/ ptr[idx[t]] # key[t] /\ Exhausted(t)
  /\ Probe(t, Hash[key[t]])
  /\ Goto(t, "put")
  /\ UNCHANGED <<table, stringQueue, key, index, known, calls, refs>>

GetNext(t) ==
  /\ pc[t] = "get" /\ ptr[idx[t]] \notin {Null, key[t]} /\ ~ Exhausted(t)
  /\ Probe(t, NextSlot(t))
  /\ UNCHANGED <<table, stringQueue, pc, key, index, known, calls, refs>>

GetValue(t) ==
  /\ pc[t] = "getvalue"
  /\ Return(t, value[idx[t]])
  /\ UNCHANGED <<table, stringQueue, locals, known, calls>>

------------------------------------------------------------------------------
(* Put, and the announcement of the new string. *)

\* Somebody inserted the name since Get missed it: Put returns -1, and so
\* does MapStringToReference.
PutHit(t) ==
  /\ pc[t] = "put" /\ ptr[idx[t]] = key[t]
  /\ Return(t, Error)
  /\ UNCHANGED <<table, stringQueue, locals, known, calls>>

PutTaken(t) ==
  /\ pc[t] = "put" /\ ptr[idx[t]] \notin {Null, key[t]}
  /\ StepPut(t)
  /\ UNCHANGED <<table, stringQueue, key, index, known, calls>>

PutFree(t) ==
  /\ pc[t] = "put" /\ ptr[idx[t]] = Null
  /\ Goto(t, "claim")
  /\ UNCHANGED <<table, stringQueue, locals, known, calls, refs>>

\* ptr.compare_exchange_weak(nullptr, ptr) succeeds.
Claim(t) ==
  /\ pc[t] = "claim" /\ ptr[idx[t]] = Null
  /\ ptr' = [ptr EXCEPT ![idx[t]] = key[t]]
  /\ Goto(t, "draw")
  /\ UNCHANGED <<value, nextIndex, stringQueue, locals, known, calls, refs>>

\* It fails: something took the slot, and Put goes on to the next one.  The
\* library is for x86 (README.md:21), whose compare-and-swap fails for no other
\* reason; where a weak one may, Put would pass over a free slot.
LoseClaim(t) ==
  /\ pc[t] = "claim" /\ ptr[idx[t]] # Null
  /\ StepPut(t)
  /\ UNCHANGED <<table, stringQueue, key, index, known, calls>>

\* nextIndex.fetch_add(1)
DrawIndex(t) ==
  /\ pc[t] = "draw"
  /\ index' = [index EXCEPT ![t] = nextIndex]
  /\ nextIndex' = nextIndex + 1
  /\ Goto(t, "store")
  /\ UNCHANGED <<ptr, value, stringQueue, key, idx, known, calls, refs>>

StoreIndexSlip(t) ==
  /\ pc[t] = "store"
  /\ Goto(t, "announce")
  /\ UNCHANGED <<table, stringQueue, locals, known, calls, refs>>

StoreIndex(t) ==
  /\ pc[t] = "store"
  /\ value' = [value EXCEPT ![idx[t]] = index[t]]
  /\ Goto(t, "announce")
  /\ UNCHANGED <<ptr, nextIndex, stringQueue, locals, known, calls, refs>>

\* The string goes to the drain thread; on "String overflow" it does not.
AnnounceSlip(t) ==
  /\ pc[t] = "announce"
  /\ stringQueue' = IF Len(stringQueue) < StringRoom
                    THEN Append(stringQueue, [id |-> nextIndex - 1, ptr |-> key[t]])
                    ELSE stringQueue
  /\ Return(t, index[t])
  /\ UNCHANGED <<table, locals, known, calls>>

Announce(t) ==
  /\ pc[t] = "announce"
  /\ stringQueue' = IF Len(stringQueue) < StringRoom
                    THEN Append(stringQueue, [id |-> index[t], ptr |-> key[t]])
                    ELSE stringQueue
  /\ Return(t, index[t])
  /\ UNCHANGED <<table, locals, known, calls>>

------------------------------------------------------------------------------
Step(t) ==
  \/ GetHit(t) \/ GetMiss(t) \/ GetNext(t) \/ GetValue(t)
  \/ PutHit(t) \/ PutTaken(t) \/ PutFree(t) \/ Claim(t) \/ LoseClaim(t)
  \/ DrawIndex(t) \/ StoreIndex(t) \/ Announce(t)

Next == \E t \in Threads : Step(t) \/ \E k \in Names : Call(t, k)

Spec == Init /\ [][Next]_vars

\* A thread that has begun a call is scheduled until the call returns.
FairSpec == Spec /\ \A t \in Threads : WF_vars(Step(t))

------------------------------------------------------------------------------
(* Properties. *)

\* Every variable has its type.
TypeOK ==
  /\ ptr \in [Slots -> Names \cup {Null}] /\ value \in [Slots -> Nat]
  /\ nextIndex \in Nat
  /\ stringQueue \in Seq([id : Nat, ptr : Names])
  /\ pc \in [Threads -> {"idle", "get", "getvalue", "put", "claim", "draw",
                         "store", "announce"}]
  /\ key \in [Threads -> Names \cup {Null}]
  /\ idx \in [Threads -> Slots] /\ index \in [Threads -> Nat]
  /\ known \in [Threads -> BOOLEAN] /\ calls \in [Threads -> 0 .. MaxCalls]
  /\ refs \subseteq [name : Names, ref : Nat \cup {Error}]

\* The slots whose reference number has been stored.
Settled(i) ==
  ptr[i] # Null /\ \A t \in Threads : ~ (pc[t] \in {"draw", "store"} /\ idx[t] = i)

\* However the threads race for slots and numbers, two slots never share a
\* number: a reference number names at most one string.
NumbersDistinct ==
  \A i, j \in Slots :
    Settled(i) /\ Settled(j) /\ value[i] = value[j] => i = j

\* Between the slot a name hashes to and the slot it is stored in there is no
\* free slot, which is why Get may stop at one (pointer_hash.h:71, :98).  That
\* the weak compare-and-swap fails only on a slot that is taken is assumed.
ProbeChain ==
  \A i \in Slots : ptr[i] # Null =>
    \A d \in 0 .. TableSize - 1 :
      d < (i - Hash[ptr[i]]) % TableSize => ptr[(Hash[ptr[i]] + d) % TableSize] # Null

\* The string table of the database has string_id as its primary key: no two
\* announcements carry the same number, and each is what the table says.
AnnouncedOnce ==
  /\ \A m, n \in 1 .. Len(stringQueue) :
       stringQueue[m].id = stringQueue[n].id => m = n
  /\ \A m \in 1 .. Len(stringQueue) : \E i \in Slots :
       Settled(i) /\ ptr[i] = stringQueue[m].ptr /\ value[i] = stringQueue[m].id

\* A call for a name that was in the table when it began is answered from the
\* table (Context.cpp:160): it inserts nothing and reports no error, whatever
\* the other threads insert meanwhile; a name that comes after Get has missed
\* it is another matter.  It rests on ProbeChain and what that assumes.
KnownNamesAreFound ==
  \A t \in Threads : known[t] => pc[t] \in {"idle", "get", "getvalue"}

\* MapStringToReference returns "a reference number which can be used to look
\* up the string" (Context.h:134): the number it returned is the name's.
RefNamesString ==
  \A r \in refs : r.ref # Error =>
    \E i \in Slots : ptr[i] = r.name /\ value[i] = r.ref

\* "The pointers to the strings themselves are used to establish identity"
\* (README.md:92): a string has one entry in the table, hence one number.
OneEntryPerString ==
  \A i, j \in Slots : ptr[i] # Null /\ ptr[i] = ptr[j] => i = j

\* Every call returns, also when the table is full and the name is not in it.
CallsReturn == \A t \in Threads : pc[t] # "idle" ~> pc[t] = "idle"
==============================================================================
