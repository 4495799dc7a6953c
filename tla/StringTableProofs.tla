-------------------------- MODULE StringTableProofs --------------------------
(***************************************************************************)
(* Theorems about StringTable, for every set of threads, every set of      *)
(* names, every size of the table and every hash function.                 *)
(*                                                                         *)
(* A slot is so many steps of the probe from the slot a name hashes to     *)
(* (Dist).  The invariant says that no slot on the way to an entry is free *)
(* (Chain), where the calls in progress are on their way (InCall), which   *)
(* of them has claimed which slot (Owners), and that a reference number is *)
(* in one slot, and announced, once (Numbers, Announced).                  *)
(***************************************************************************)
EXTENDS StringTable, TLAPS

\* How many steps the probe takes from slot h to slot i.
Dist(h, i) == (i - h) % TableSize

\* No slot the probe for name k visits before slot i is free.
Reach(k, i) == \A j \in Slots : Dist(Hash[k], j) < Dist(Hash[k], i) => ptr[j] # Null

\* The name k is in the table, and a probe at slot i has not passed it.
Ahead(k, i) == \E j \in Slots : ptr[j] = k /\ Dist(Hash[k], i) <= Dist(Hash[k], j)

Chain == \A i \in Slots : ptr[i] # Null => Reach(ptr[i], i)

\* The thread's Put has claimed a slot and has not returned.
Owns(t) == pc[t] \in {"draw", "store", "announce"}

\* A thread in a call.
InCall(t) ==
  /\ pc[t] # "idle" => key[t] \in Names
  /\ pc[t] = "getvalue" \/ Owns(t) => ptr[idx[t]] = key[t]
  /\ pc[t] = "get" /\ known[t] => Ahead(key[t], idx[t])
  /\ pc[t] \in {"put", "claim"} => Reach(key[t], idx[t])
  /\ pc[t] = "store" => index[t] < nextIndex /\ \A i \in Slots : Settled(i) => value[i] # index[t]
  /\ pc[t] = "announce" => value[idx[t]] = index[t]

\* Two threads have claimed two slots, and drawn two numbers.
Owners ==
  /\ \A t, u \in Threads : Owns(t) /\ Owns(u) /\ idx[t] = idx[u] => t = u
  /\ \A t, u \in Threads : pc[t] = "store" /\ pc[u] = "store" /\ index[t] = index[u] => t = u

Numbers ==
  /\ \A i \in Slots : Settled(i) => value[i] < nextIndex
  /\ NumbersDistinct

\* What has been announced, and what has not yet.
Announced ==
  /\ \A t \in Threads : pc[t] = "announce" =>
       \A m \in 1 .. Len(stringQueue) : stringQueue[m].id # index[t]
  /\ AnnouncedOnce

IInv ==
  /\ TypeOK /\ Chain /\ Owners /\ Numbers /\ Announced /\ KnownNamesAreFound
  /\ \A t \in Threads : InCall(t)

------------------------------------------------------------------------------
(* Probing *)

\* The remainder, once around either end of the table.
LEMMA Wrap ==
  ASSUME NEW z \in Int, 0 - TableSize <= z, z < 2 * TableSize
  PROVE  /\ z < 0 => z % TableSize = z + TableSize
         /\ 0 <= z /\ z < TableSize => z % TableSize = z
         /\ TableSize <= z => z % TableSize = z - TableSize
<1> DEFINE S == TableSize
           q == z \div TableSize
           r == z % TableSize
<1>1. S \in Nat \ {0}
  BY TableAssumption
<1>2. q \in Int /\ r \in 0 .. S - 1 /\ z = S * q + r
  BY TableAssumption, SMT
<1>3. 0 - S <= z /\ z < 2 * S
  OBVIOUS
<1> HIDE DEF S, q, r
<1>4. \A d \in Nat : S * d \in Nat /\ S * (d + 2) = S * d + 2 * S /\ S * (0 - (d + 2)) = 0 - S * d - 2 * S
  BY <1>1
<1>5. ~ q >= 2
  <2> SUFFICES ASSUME q >= 2 PROVE FALSE
    OBVIOUS
  <2>1. q - 2 \in Nat /\ q - 2 + 2 = q
    BY <1>2
  <2>2. S * (q - 2) \in Nat /\ S * q = S * (q - 2) + 2 * S
    BY <1>4, <2>1
  <2> DEFINE a == S * (q - 2)
             b == S * q
  <2>3. a \in Nat /\ b = a + 2 * S /\ z = b + r
    BY <1>2, <2>2
  <2> HIDE DEF a, b
  <2> QED BY <1>1, <1>2, <1>3, <2>3
<1>6. ~ q <= 0 - 2
  <2> SUFFICES ASSUME q <= 0 - 2 PROVE FALSE
    OBVIOUS
  <2>1. 0 - 2 - q \in Nat /\ 0 - (0 - 2 - q + 2) = q
    BY <1>2
  <2>2. S * (0 - 2 - q) \in Nat /\ S * q = 0 - S * (0 - 2 - q) - 2 * S
    BY <1>4, <2>1
  <2> DEFINE a == S * (0 - 2 - q)
             b == S * q
  <2>3. a \in Nat /\ b = 0 - a - 2 * S /\ z = b + r
    BY <1>2, <2>2
  <2> HIDE DEF a, b
  <2> QED BY <1>1, <1>2, <1>3, <2>3
<1>7. q \in {0 - 1, 0, 1}
  BY <1>2, <1>5, <1>6
<1>8. z = r - S \/ z = r \/ z = S + r
  BY <1>1, <1>2, <1>7
<1>9. /\ z < 0 => r = z + S
      /\ 0 <= z /\ z < S => r = z
      /\ S <= z => r = z - S
  BY <1>1, <1>2, <1>3, <1>8
<1> QED BY <1>9 DEF r, S

LEMMA DistIs ==
  ASSUME NEW h \in Slots, NEW i \in Slots
  PROVE  Dist(h, i) \in Slots /\ Dist(h, i) = IF i < h THEN i - h + TableSize ELSE i - h
<1>1. i - h \in Int /\ 0 - TableSize <= i - h /\ i - h < TableSize /\ i - h < 2 * TableSize
  BY TableAssumption DEF Slots
<1>2. Dist(h, i) = IF i - h < 0 THEN i - h + TableSize ELSE i - h
  BY <1>1, Wrap DEF Dist
<1> QED BY <1>2, TableAssumption DEF Slots

\* The probe begins at distance 0.
LEMMA DistZero ==
  ASSUME NEW h \in Slots
  PROVE  Dist(h, h) = 0 /\ \A j \in Slots : Dist(h, h) <= Dist(h, j) /\ ~ (Dist(h, j) < Dist(h, h))
<1> DEFINE a == Dist(h, h)
<1>1. a = IF h < h THEN h - h + TableSize ELSE h - h
  BY DistIs
<1>2. \A j \in Slots : Dist(h, j) \in 0 .. TableSize - 1
  BY DistIs DEF Slots
<1> HIDE DEF a
<1>3. h \in Int
  BY DEF Slots
<1>4. a = 0
  BY <1>1, <1>3
<1>5. \A d \in 0 .. TableSize - 1 : 0 <= d /\ ~ (d < 0)
  BY TableAssumption
<1> QED BY <1>2, <1>4, <1>5 DEF a

\* A slot is the only one of its distance.
LEMMA DistInjective ==
  ASSUME NEW h \in Slots, NEW i \in Slots, NEW j \in Slots, Dist(h, i) = Dist(h, j)
  PROVE  i = j
<1> DEFINE a == Dist(h, i)
           b == Dist(h, j)
<1>1. /\ a = IF i < h THEN i - h + TableSize ELSE i - h
      /\ b = IF j < h THEN j - h + TableSize ELSE j - h
      /\ a = b
  BY DistIs
<1> HIDE DEF a, b
<1>2. /\ h \in Int /\ i \in Int /\ j \in Int /\ TableSize \in Int
      /\ 0 <= h /\ 0 <= i /\ 0 <= j
      /\ h < TableSize /\ i < TableSize /\ j < TableSize
  BY TableAssumption DEF Slots
<1> QED BY <1>1, <1>2

\* There is a slot of every distance.
LEMMA DistAt ==
  ASSUME NEW h \in Slots, NEW d \in Slots
  PROVE  (h + d) % TableSize \in Slots /\ Dist(h, (h + d) % TableSize) = d
<1> DEFINE i == (h + d) % TableSize
<1>2. /\ h + d < TableSize => i = h + d
      /\ TableSize <= h + d => i = h + d - TableSize
  <2> DEFINE z == h + d
  <2>1. z \in Int /\ 0 <= z /\ 0 - TableSize <= z /\ z < 2 * TableSize
    BY TableAssumption DEF Slots
  <2>2. i = z % TableSize
    OBVIOUS
  <2> HIDE DEF i, z
  <2>3. /\ z < TableSize => i = z
        /\ TableSize <= z => i = z - TableSize
    BY <2>1, <2>2, Wrap
  <2>4. h \in Int /\ d \in Int /\ TableSize \in Int
    BY TableAssumption DEF Slots
  <2> QED BY <2>3, <2>4 DEF z
<1> HIDE DEF i
<1>3. i \in Slots
  BY <1>2, TableAssumption DEF Slots
<1>4. Dist(h, i) = IF i < h THEN i - h + TableSize ELSE i - h
  BY <1>3, DistIs
<1>5. Dist(h, i) = d
  BY <1>2, <1>3, <1>4, TableAssumption DEF Slots
<1> QED BY <1>3, <1>5 DEF i

\* idx = (idx + 1) % capacity is one step further, or the search has come back
\* to its start (pointer_hash.h:38, :63).
LEMMA DistNext ==
  ASSUME NEW h \in Slots, NEW i \in Slots
  PROVE  LET n == (i + 1) % TableSize
         IN  /\ n \in Slots
             /\ n # h => Dist(h, n) = Dist(h, i) + 1
             /\ n = h => \A j \in Slots : Dist(h, j) <= Dist(h, i)
<1> DEFINE n == (i + 1) % TableSize
<1>2. /\ i + 1 < TableSize => n = i + 1
      /\ TableSize <= i + 1 => n = i + 1 - TableSize
  <2> DEFINE z == i + 1
  <2>1. z \in Int /\ 0 <= z /\ 0 - TableSize <= z /\ z < 2 * TableSize
    BY TableAssumption DEF Slots
  <2>2. n = z % TableSize
    OBVIOUS
  <2> HIDE DEF n, z
  <2>3. /\ z < TableSize => n = z
        /\ TableSize <= z => n = z - TableSize
    BY <2>1, <2>2, Wrap
  <2>4. i \in Int /\ TableSize \in Int
    BY TableAssumption DEF Slots
  <2> QED BY <2>3, <2>4 DEF z
<1> HIDE DEF n
<1>3. n \in Slots
  BY <1>2, TableAssumption DEF Slots
<1>4. /\ Dist(h, n) = IF n < h THEN n - h + TableSize ELSE n - h
      /\ Dist(h, i) = IF i < h THEN i - h + TableSize ELSE i - h
      /\ \A j \in Slots : Dist(h, j) \in Slots
  BY <1>3, DistIs
<1>5. n # h => Dist(h, n) = Dist(h, i) + 1
  BY <1>2, <1>3, <1>4, TableAssumption DEF Slots
<1>6. n = h => Dist(h, i) = TableSize - 1
  BY <1>2, <1>3, <1>4, TableAssumption DEF Slots
<1>7. \A d \in Slots : d <= TableSize - 1
  BY TableAssumption DEF Slots
<1> QED BY <1>3, <1>4, <1>5, <1>6, <1>7 DEF n

------------------------------------------------------------------------------
(* Types *)

LEMMA NextSlotIsSlot ==
  ASSUME TypeOK, NEW t \in Threads
  PROVE  NextSlot(t) \in Slots
<1>1. idx[t] \in Slots
  BY DEF TypeOK
<1> QED BY <1>1, DistNext DEF NextSlot

\* What an answer and a step of Put leave.
LEMMA ReturnTyped ==
  ASSUME TypeOK, NEW t \in Threads, key[t] \in Names, NEW r \in Nat \cup {Error}, Return(t, r)
  PROVE  /\ pc' = [pc EXCEPT ![t] = "idle"]
         /\ refs' \subseteq [name : Names, ref : Nat \cup {Error}]
BY DEF TypeOK, Return, Goto

LEMMA StepPutTyped ==
  ASSUME TypeOK, NEW t \in Threads, key[t] \in Names, StepPut(t)
  PROVE  /\ idx' = [idx EXCEPT ![t] = NextSlot(t)] /\ idx' \in [Threads -> Slots]
         /\ pc' = [pc EXCEPT ![t] = IF Exhausted(t) THEN "idle" ELSE "put"]
         /\ refs' \subseteq [name : Names, ref : Nat \cup {Error}]
<1>1. idx' = [idx EXCEPT ![t] = NextSlot(t)] /\ NextSlot(t) \in Slots
  BY NextSlotIsSlot DEF StepPut, Probe
<1>2. idx' \in [Threads -> Slots]
  BY <1>1 DEF TypeOK
<1>3. CASE Exhausted(t)
  BY <1>1, <1>2, <1>3, ReturnTyped DEF StepPut
<1>4. CASE ~ Exhausted(t)
  BY <1>1, <1>2, <1>4 DEF StepPut, Goto, TypeOK
<1> QED BY <1>3, <1>4

LEMMA StepTyped == IInv /\ [Next]_vars => TypeOK'
<1> SUFFICES ASSUME IInv, [Next]_vars PROVE TypeOK'
  OBVIOUS
<1>1. TypeOK
  BY DEF IInv
<1>2. \A t \in Threads : pc[t] # "idle" => key[t] \in Names
  BY DEF IInv, InCall
<1>3. \A k \in Names : Hash[k] \in Slots
  BY HashAssumption
<1> USE DEF table, locals, Probe, Goto
<1>4. ASSUME NEW t \in Threads, NEW k \in Names, Call(t, k) PROVE TypeOK'
  <2>1. known' \in [Threads -> BOOLEAN]
    BY <1>1, <1>4 DEF TypeOK, Call, InTable
  <2>2. calls' \in [Threads -> 0 .. MaxCalls]
    BY <1>1, <1>4, NamesAssumption DEF TypeOK, Call
  <2>3. key' \in [Threads -> Names \cup {Null}] /\ idx' \in [Threads -> Slots]
    BY <1>1, <1>3, <1>4 DEF TypeOK, Call
  <2> QED BY <1>1, <1>4, <2>1, <2>2, <2>3 DEF TypeOK, Call
<1>5. ASSUME NEW t \in Threads, GetHit(t) \/ PutFree(t) PROVE TypeOK'
  BY <1>1, <1>5 DEF TypeOK, GetHit, PutFree
<1>6. ASSUME NEW t \in Threads, GetMiss(t) PROVE TypeOK'
  <2>1. Hash[key[t]] \in Slots
    BY <1>2, <1>3, <1>6 DEF GetMiss
  <2> QED BY <1>1, <1>6, <2>1 DEF TypeOK, GetMiss
<1>7. ASSUME NEW t \in Threads, GetNext(t) PROVE TypeOK'
  <2>1. NextSlot(t) \in Slots
    BY <1>1, NextSlotIsSlot
  <2> QED BY <1>1, <1>7, <2>1 DEF TypeOK, GetNext
<1>8. ASSUME NEW t \in Threads, GetValue(t) PROVE TypeOK'
  <2>1. key[t] \in Names /\ value[idx[t]] \in Nat \cup {Error}
    BY <1>1, <1>2, <1>8 DEF TypeOK, GetValue
  <2>2. /\ pc' = [pc EXCEPT ![t] = "idle"]
        /\ refs' \subseteq [name : Names, ref : Nat \cup {Error}]
    BY <1>1, <1>8, <2>1, ReturnTyped DEF GetValue
  <2> QED BY <1>1, <1>8, <2>2 DEF TypeOK, GetValue
<1>9. ASSUME NEW t \in Threads, PutHit(t) PROVE TypeOK'
  <2>1. key[t] \in Names
    BY <1>2, <1>9 DEF PutHit
  <2>2. /\ pc' = [pc EXCEPT ![t] = "idle"]
        /\ refs' \subseteq [name : Names, ref : Nat \cup {Error}]
    BY <1>1, <1>9, <2>1, ReturnTyped DEF PutHit
  <2> QED BY <1>1, <1>9, <2>2 DEF TypeOK, PutHit
<1>10. ASSUME NEW t \in Threads, PutTaken(t) \/ LoseClaim(t) PROVE TypeOK'
  <2>1. key[t] \in Names /\ StepPut(t)
    BY <1>2, <1>10 DEF PutTaken, LoseClaim
  <2>2. /\ idx' \in [Threads -> Slots]
        /\ pc' = [pc EXCEPT ![t] = IF Exhausted(t) THEN "idle" ELSE "put"]
        /\ refs' \subseteq [name : Names, ref : Nat \cup {Error}]
    BY <1>1, <2>1, StepPutTyped
  <2> QED BY <1>1, <1>10, <2>2 DEF TypeOK, PutTaken, LoseClaim
<1>11. ASSUME NEW t \in Threads, Claim(t) PROVE TypeOK'
  BY <1>1, <1>11 DEF TypeOK, Claim
<1>12. ASSUME NEW t \in Threads, DrawIndex(t) PROVE TypeOK'
  BY <1>1, <1>12 DEF TypeOK, DrawIndex
<1>13. ASSUME NEW t \in Threads, StoreIndex(t) PROVE TypeOK'
  BY <1>1, <1>13 DEF TypeOK, StoreIndex
<1>14. ASSUME NEW t \in Threads, Announce(t) PROVE TypeOK'
  <2>1. key[t] \in Names /\ index[t] \in Nat /\ index[t] \in Nat \cup {Error}
    BY <1>1, <1>2, <1>14 DEF TypeOK, Announce
  <2>2. /\ pc' = [pc EXCEPT ![t] = "idle"]
        /\ refs' \subseteq [name : Names, ref : Nat \cup {Error}]
    BY <1>1, <1>14, <2>1, ReturnTyped DEF Announce
  <2> DEFINE S == [id : Nat, ptr : Names]
             e == [id |-> index[t], ptr |-> key[t]]
  <2>3. e \in S /\ stringQueue \in Seq(S)
    BY <1>1, <2>1 DEF TypeOK
  <2>5. stringQueue' = Append(stringQueue, e) \/ stringQueue' = stringQueue
    BY <1>14 DEF Announce
  <2> HIDE DEF S, e
  <2>6. Append(stringQueue, e) \in Seq(S)
    BY <2>3
  <2>4. stringQueue' \in Seq(S)
    BY <2>3, <2>5, <2>6
  <2> QED BY <1>1, <1>14, <2>2, <2>4 DEF TypeOK, Announce, S
<1>15. CASE UNCHANGED vars
  BY <1>1, <1>15 DEF TypeOK, vars
<1> QED BY <1>4, <1>5, <1>6, <1>7, <1>8, <1>9, <1>10, <1>11, <1>12, <1>13, <1>14, <1>15 DEF Next, Step

------------------------------------------------------------------------------
(* The steps of a call *)

LEMMA InitInv == Init => IInv
<1> SUFFICES ASSUME Init PROVE IInv
  OBVIOUS
<1>1. \A i \in Slots : ptr[i] = Null
  BY DEF Init
<1>2. \A t \in Threads : pc[t] = "idle" /\ known[t] = FALSE
  BY DEF Init
<1>3. TypeOK
  <2>1. 0 \in Slots
    BY TableAssumption DEF Slots
  <2>2. Null \in Names \cup {Null} /\ 0 \in 0 .. MaxCalls
    BY NamesAssumption
  <2>3. <<>> \in Seq([id : Nat, ptr : Names])
    OBVIOUS
  <2> QED BY <2>1, <2>2, <2>3 DEF Init, TypeOK
<1>4. Chain /\ Numbers
  BY <1>1 DEF Chain, Numbers, NumbersDistinct, Settled
<1>5. Owners /\ KnownNamesAreFound
  BY <1>2 DEF Owners, Owns, KnownNamesAreFound
<1>6. Announced
  <2>1. \A m : m \notin 1 .. Len(stringQueue)
    BY DEF Init
  <2> QED BY <2>1 DEF Announced, AnnouncedOnce
<1>7. \A t \in Threads : InCall(t)
  BY <1>2 DEF InCall, Owns
<1> QED BY <1>3, <1>4, <1>5, <1>6, <1>7 DEF IInv

\* A step of t: no other thread's locals change.
Alone(t) ==
  \A u \in Threads \ {t} :
    /\ pc'[u] = pc[u] /\ key'[u] = key[u] /\ idx'[u] = idx[u]
    /\ index'[u] = index[u] /\ known'[u] = known[u]

\* A step of t that changes neither the table nor the queue, while t owns no slot.
Looks(t) ==
  /\ Alone(t) /\ UNCHANGED <<table, stringQueue>>
  /\ ~ Owns(t) /\ ~ Owns(t)'

LEMMA StepAlone ==
  ASSUME TypeOK, NEW t \in Threads, Step(t) \/ \E k \in Names : Call(t, k)
  PROVE  Alone(t)
<1> SUFFICES ASSUME NEW u \in Threads, u # t
             PROVE  /\ pc'[u] = pc[u] /\ key'[u] = key[u] /\ idx'[u] = idx[u]
                    /\ index'[u] = index[u] /\ known'[u] = known[u]
  BY DEF Alone
<1> USE DEF TypeOK, Goto, Probe, Return, StepPut, locals, table
<1>1. ASSUME NEW k \in Names, Call(t, k) PROVE pc'[u] = pc[u] /\ key'[u] = key[u] /\ idx'[u] = idx[u] /\ index'[u] = index[u] /\ known'[u] = known[u]
  BY <1>1 DEF Call
<1>2. pc'[u] = pc[u] \/ ~ Step(t)
  BY DEF Step, GetHit, GetMiss, GetNext, GetValue, PutHit, PutTaken, PutFree, Claim, LoseClaim,
         DrawIndex, StoreIndex, Announce
<1>3. idx'[u] = idx[u] \/ ~ Step(t)
  BY DEF Step, GetHit, GetMiss, GetNext, GetValue, PutHit, PutTaken, PutFree, Claim, LoseClaim,
         DrawIndex, StoreIndex, Announce
<1>4. (key'[u] = key[u] /\ index'[u] = index[u] /\ known'[u] = known[u]) \/ ~ Step(t)
  BY DEF Step, GetHit, GetMiss, GetNext, GetValue, PutHit, PutTaken, PutFree, Claim, LoseClaim,
         DrawIndex, StoreIndex, Announce
<1> QED BY <1>1, <1>2, <1>3, <1>4

\* Such a step keeps the invariant if it keeps what the invariant says of t.
LEMMA LooksStep ==
  ASSUME IInv, TypeOK', NEW t \in Threads, Looks(t), InCall(t)',
         known'[t] => pc'[t] \in {"idle", "get", "getvalue"}
  PROVE  IInv'
<1>1. /\ ptr' = ptr /\ value' = value /\ nextIndex' = nextIndex /\ stringQueue' = stringQueue
  BY DEF Looks, table
<1>2. ASSUME NEW u \in Threads, u # t
      PROVE  /\ pc'[u] = pc[u] /\ key'[u] = key[u] /\ idx'[u] = idx[u]
             /\ index'[u] = index[u] /\ known'[u] = known[u]
  BY <1>2 DEF Looks, Alone
<1>3. pc[t] \notin {"draw", "store", "announce"} /\ pc'[t] \notin {"draw", "store", "announce"}
  BY DEF Looks, Owns
<1>4. ASSUME NEW u \in Threads
      PROVE  /\ Owns(u)' <=> Owns(u)
             /\ pc[u] \in {"draw", "store", "announce"} \/ pc'[u] \in {"draw", "store", "announce"} =>
                  u # t /\ pc'[u] = pc[u] /\ idx'[u] = idx[u] /\ index'[u] = index[u]
  BY <1>2, <1>3 DEF Owns
<1>5. ASSUME NEW i \in Slots PROVE Settled(i)' <=> Settled(i)
  BY <1>1, <1>4 DEF Settled
<1>6. Chain'
  BY <1>1 DEF IInv, Chain, Reach
<1>7. Owners'
  BY <1>4 DEF IInv, Owners, Owns
<1>8. Numbers'
  BY <1>1, <1>5 DEF IInv, Numbers, NumbersDistinct
<1>9. Announced'
  <2>1. \A u \in Threads : pc'[u] = "announce" =>
          \A m \in 1 .. Len(stringQueue) : stringQueue[m].id # index'[u]
    BY <1>4 DEF IInv, Announced
  <2>2. AnnouncedOnce'
    BY <1>1, <1>5 DEF IInv, Announced, AnnouncedOnce
  <2> QED BY <1>1, <2>1, <2>2 DEF Announced
<1>10. KnownNamesAreFound'
  BY <1>2 DEF IInv, KnownNamesAreFound
<1>11. ASSUME NEW u \in Threads PROVE InCall(u)'
  <2>1. CASE u = t
    BY <2>1
  <2>2. CASE u # t
    <3>1. InCall(u)
      BY DEF IInv
    <3> QED BY <1>1, <1>2, <1>5, <2>2, <3>1 DEF InCall, Owns, Ahead, Reach
  <2> QED BY <2>1, <2>2
<1> QED BY <1>6, <1>7, <1>8, <1>9, <1>10, <1>11 DEF IInv

LEMMA CallStep ==
  ASSUME IInv, TypeOK', NEW t \in Threads, NEW k \in Names, Call(t, k)
  PROVE  IInv'
<1> USE DEF Goto, Probe, table
<1>1. TypeOK
  BY DEF IInv
<1>2. /\ pc[t] = "idle" /\ pc'[t] = "get" /\ key'[t] = k /\ idx'[t] = Hash[k]
      /\ known'[t] = InTable(k) /\ ptr' = ptr
  BY <1>1 DEF Call, TypeOK
<1>3. Alone(t)
  BY <1>1, StepAlone
<1>4. Looks(t)
  BY <1>2, <1>3 DEF Looks, Owns, Call
<1>5. ASSUME InTable(k) PROVE Ahead(k, Hash[k])
  <2>1. PICK j \in Slots : ptr[j] = k
    BY <1>5 DEF InTable
  <2>2. Dist(Hash[k], Hash[k]) <= Dist(Hash[k], j)
    BY HashAssumption, DistZero
  <2> QED BY <2>1, <2>2 DEF Ahead
<1>6. InCall(t)'
  <2>1. known'[t] => \E j \in Slots : ptr'[j] = key'[t] /\ Dist(Hash[key'[t]], idx'[t]) <= Dist(Hash[key'[t]], j)
    BY <1>2, <1>5 DEF Ahead
  <2> QED BY <1>2, <2>1 DEF InCall, Owns, Ahead
<1> QED BY <1>2, <1>4, <1>6, LooksStep

\* What a step without a claim, to a place where nothing is claimed, leaves.
LEMMA Looking ==
  ASSUME IInv, NEW t \in Threads,
         \/ GetHit(t) \/ GetMiss(t) \/ GetNext(t) \/ GetValue(t)
         \/ PutHit(t) \/ PutTaken(t) \/ PutFree(t) \/ LoseClaim(t)
  PROVE  /\ Looks(t) /\ ptr' = ptr /\ key'[t] = key[t] /\ known'[t] = known[t]
         /\ pc'[t] \in {"idle", "get", "getvalue", "put", "claim"}
<1> USE DEF Goto, Probe, Return, StepPut, table, locals
<1>1. TypeOK
  BY DEF IInv
<1>2. Alone(t)
  BY <1>1, StepAlone DEF Step
<1>3. /\ UNCHANGED <<table, stringQueue, key, known>>
      /\ pc[t] \in {"get", "getvalue", "put", "claim"}
  BY DEF GetHit, GetMiss, GetNext, GetValue, PutHit, PutTaken, PutFree, LoseClaim
<1>4. pc'[t] \in {"idle", "get", "getvalue", "put", "claim"}
  BY <1>1 DEF TypeOK, GetHit, GetMiss, GetNext, GetValue, PutHit, PutTaken, PutFree, LoseClaim
<1> QED BY <1>2, <1>3, <1>4 DEF Looks, Owns

\* A probe for a name in the table that has not passed it does not end
\* before it.
LEMMA Onward ==
  ASSUME IInv, NEW t \in Threads, key[t] \in Names, Ahead(key[t], idx[t]), ptr[idx[t]] # key[t]
  PROVE  /\ ptr[idx[t]] # Null /\ ~ Exhausted(t)
         /\ Ahead(key[t], NextSlot(t))
<1> DEFINE h == Hash[key[t]]
           i == idx[t]
<1>1. h \in Slots /\ i \in Slots /\ key[t] # Null
  BY HashAssumption, NamesAssumption DEF IInv, TypeOK
<1>2. PICK j \in Slots : ptr[j] = key[t] /\ Dist(h, i) <= Dist(h, j)
  BY DEF Ahead
<1>3. Dist(h, i) # Dist(h, j)
  BY <1>1, <1>2, DistInjective
<1>4. Dist(h, i) \in Int /\ Dist(h, j) \in Int
  BY <1>1, DistIs DEF Slots
<1>5. Dist(h, i) < Dist(h, j)
  <2> DEFINE x == Dist(h, i)
             y == Dist(h, j)
  <2>1. x # y /\ x <= y /\ x \in Int /\ y \in Int
    BY <1>2, <1>3, <1>4
  <2> HIDE DEF x, y
  <2>2. x < y
    BY <2>1
  <2> QED BY <2>2 DEF x, y
<1>6. ptr[i] # Null
  BY <1>1, <1>2, <1>5 DEF IInv, Chain, Reach
<1>7. /\ NextSlot(t) \in Slots
      /\ NextSlot(t) # h => Dist(h, NextSlot(t)) = Dist(h, i) + 1
      /\ NextSlot(t) = h => \A m \in Slots : Dist(h, m) <= Dist(h, i)
  BY <1>1, DistNext DEF NextSlot
<1>8. NextSlot(t) # h
  <2> SUFFICES ASSUME NextSlot(t) = h PROVE FALSE
    OBVIOUS
  <2> DEFINE x == Dist(h, i)
             y == Dist(h, j)
  <2>1. y <= x /\ x < y /\ x \in Int /\ y \in Int
    BY <1>4, <1>5, <1>7
  <2> HIDE DEF x, y
  <2> QED BY <2>1
<1>9. Dist(h, NextSlot(t)) <= Dist(h, j)
  <2> DEFINE x == Dist(h, i)
             y == Dist(h, j)
             z == Dist(h, NextSlot(t))
  <2>1. z = x + 1 /\ x < y /\ x \in Int /\ y \in Int
    BY <1>4, <1>5, <1>7, <1>8
  <2> HIDE DEF x, y, z
  <2>2. z <= y
    BY <2>1
  <2> QED BY <2>2 DEF y, z
<1> QED BY <1>2, <1>6, <1>8, <1>9 DEF Ahead, Exhausted

LEMMA GetStep ==
  ASSUME IInv, TypeOK', NEW t \in Threads, GetHit(t) \/ GetMiss(t) \/ GetNext(t) \/ GetValue(t)
  PROVE  IInv'
<1> USE DEF Goto, Probe, Return, table, locals
<1>1. TypeOK /\ InCall(t)
  BY DEF IInv
<1>2. /\ Looks(t) /\ ptr' = ptr /\ key'[t] = key[t] /\ known'[t] = known[t]
      /\ pc'[t] \in {"idle", "get", "getvalue", "put", "claim"}
  BY Looking
<1>3. key[t] \in Names
  BY <1>1 DEF InCall, GetHit, GetMiss, GetNext, GetValue
<1>4. CASE GetHit(t)
  <2>1. pc'[t] = "getvalue" /\ idx'[t] = idx[t] /\ ptr[idx[t]] = key[t]
    BY <1>1, <1>4 DEF GetHit, TypeOK
  <2>2. InCall(t)'
    BY <1>2, <1>3, <2>1 DEF InCall, Owns
  <2> QED BY <1>2, <2>1, <2>2, LooksStep
<1>5. CASE GetMiss(t)
  <2>1. pc'[t] = "put" /\ idx'[t] = Hash[key[t]] /\ pc[t] = "get"
    BY <1>1, <1>5 DEF GetMiss, TypeOK
  <2>2. ~ known[t]
    <3> SUFFICES ASSUME known[t] PROVE FALSE
      OBVIOUS
    <3>1. Ahead(key[t], idx[t])
      BY <1>1, <2>1 DEF InCall
    <3>2. ptr[idx[t]] # key[t]
      BY <1>3, <1>5, NamesAssumption DEF GetMiss
    <3>3. ptr[idx[t]] # Null /\ ~ Exhausted(t)
      BY <1>3, <3>1, <3>2, Onward
    <3> QED BY <1>5, <3>3 DEF GetMiss
  <2>3. Reach(key[t], Hash[key[t]])
    <3>1. Hash[key[t]] \in Slots
      BY <1>3, HashAssumption
    <3> QED BY <3>1, DistZero DEF Reach
  <2>4. InCall(t)'
    BY <1>2, <1>3, <2>1, <2>2, <2>3 DEF InCall, Owns, Reach
  <2> QED BY <1>2, <2>2, <2>4, LooksStep
<1>6. CASE GetNext(t)
  <2>1. pc'[t] = pc[t] /\ idx'[t] = NextSlot(t) /\ pc[t] = "get" /\ ptr[idx[t]] # key[t]
    BY <1>1, <1>6 DEF GetNext, TypeOK
  <2>2. ASSUME known[t] PROVE Ahead(key[t], NextSlot(t))
    <3>1. Ahead(key[t], idx[t])
      BY <1>1, <2>1, <2>2 DEF InCall
    <3> QED BY <1>3, <2>1, <3>1, Onward
  <2>3. InCall(t)'
    BY <1>2, <1>3, <2>1, <2>2 DEF InCall, Owns, Ahead
  <2> QED BY <1>2, <2>1, <2>3, LooksStep
<1>7. CASE GetValue(t)
  <2>1. pc'[t] = "idle"
    BY <1>1, <1>7 DEF GetValue, TypeOK
  <2>2. InCall(t)'
    BY <2>1 DEF InCall, Owns
  <2> QED BY <1>2, <2>1, <2>2, LooksStep
<1> QED BY <1>4, <1>5, <1>6, <1>7

\* Past a slot that is taken, Put's probe keeps its promise or ends.
LEMMA Taken ==
  ASSUME IInv, NEW t \in Threads, key[t] \in Names, Reach(key[t], idx[t]), ptr[idx[t]] # Null,
         ~ Exhausted(t)
  PROVE  Reach(key[t], NextSlot(t))
<1> DEFINE h == Hash[key[t]]
           i == idx[t]
<1>1. h \in Slots /\ i \in Slots
  BY HashAssumption DEF IInv, TypeOK
<1>2. Dist(h, NextSlot(t)) = Dist(h, i) + 1
  BY <1>1, DistNext DEF NextSlot, Exhausted
<1> SUFFICES ASSUME NEW j \in Slots, Dist(h, j) < Dist(h, NextSlot(t)) PROVE ptr[j] # Null
  BY DEF Reach
<1>3. Dist(h, j) < Dist(h, i) \/ Dist(h, j) = Dist(h, i)
  <2> DEFINE x == Dist(h, j)
             y == Dist(h, i)
  <2>1. x \in Int /\ y \in Int /\ x < y + 1
    BY <1>1, <1>2, DistIs DEF Slots
  <2> HIDE DEF x, y
  <2>2. x < y \/ x = y
    BY <2>1
  <2> QED BY <2>2 DEF x, y
<1>4. CASE Dist(h, j) < Dist(h, i)
  BY <1>4 DEF Reach
<1>5. CASE Dist(h, j) = Dist(h, i)
  BY <1>1, <1>5, DistInjective
<1> QED BY <1>3, <1>4, <1>5

LEMMA PutStep ==
  ASSUME IInv, TypeOK', NEW t \in Threads,
         PutHit(t) \/ PutTaken(t) \/ PutFree(t) \/ LoseClaim(t)
  PROVE  IInv'
<1> USE DEF Goto, Probe, Return, table, locals
<1>1. TypeOK /\ InCall(t)
  BY DEF IInv
<1>2. /\ Looks(t) /\ ptr' = ptr /\ key'[t] = key[t] /\ known'[t] = known[t]
      /\ pc'[t] \in {"idle", "get", "getvalue", "put", "claim"}
  BY Looking
<1>3. pc[t] \in {"put", "claim"}
  BY DEF PutHit, PutTaken, PutFree, LoseClaim
<1>4. key[t] \in Names /\ Reach(key[t], idx[t])
  BY <1>1, <1>3 DEF InCall
<1>5. ~ known'[t]
  BY <1>2, <1>3 DEF IInv, KnownNamesAreFound
<1>6. CASE PutHit(t)
  <2>1. pc'[t] = "idle"
    BY <1>1, <1>6 DEF PutHit, TypeOK
  <2>2. InCall(t)'
    BY <2>1 DEF InCall, Owns
  <2> QED BY <1>2, <1>5, <2>2, LooksStep
<1>7. CASE PutTaken(t) \/ LoseClaim(t)
  <2>1. StepPut(t) /\ ptr[idx[t]] # Null
    BY <1>7 DEF PutTaken, LoseClaim
  <2>2. idx'[t] = NextSlot(t) /\ pc'[t] = IF Exhausted(t) THEN "idle" ELSE "put"
    BY <1>1, <1>4, <2>1, StepPutTyped DEF TypeOK
  <2>3. CASE Exhausted(t)
    <3>1. InCall(t)'
      BY <2>2, <2>3 DEF InCall, Owns
    <3> QED BY <1>2, <1>5, <3>1, LooksStep
  <2>4. CASE ~ Exhausted(t)
    <3>1. Reach(key[t], NextSlot(t))
      BY <1>4, <2>1, <2>4, Taken
    <3>2. InCall(t)'
      BY <1>2, <1>4, <2>2, <2>4, <3>1 DEF InCall, Owns, Reach
    <3> QED BY <1>2, <1>5, <3>2, LooksStep
  <2> QED BY <2>3, <2>4
<1>8. CASE PutFree(t)
  <2>1. pc'[t] = "claim" /\ idx'[t] = idx[t]
    BY <1>1, <1>8 DEF PutFree, TypeOK
  <2>2. InCall(t)'
    BY <1>2, <1>4, <2>1 DEF InCall, Owns, Reach
  <2> QED BY <1>2, <1>5, <2>2, LooksStep
<1> QED BY <1>6, <1>7, <1>8

\* The slot was free, so nobody owned it.
LEMMA ClaimStep ==
  ASSUME IInv, TypeOK', NEW t \in Threads, Claim(t)
  PROVE  IInv'
<1> USE DEF Goto
<1> DEFINE s == idx[t]
<1>1. TypeOK /\ InCall(t) /\ s \in Slots
  BY DEF IInv, TypeOK
<1>2. /\ value' = value /\ nextIndex' = nextIndex /\ stringQueue' = stringQueue
      /\ idx' = idx /\ key' = key /\ index' = index /\ known' = known
      /\ pc[t] = "claim" /\ pc'[t] = "draw" /\ ptr[s] = Null
  BY <1>1 DEF Claim, locals, TypeOK
<1>3. ASSUME NEW u \in Threads, u # t PROVE pc'[u] = pc[u]
  BY <1>1, <1>3 DEF Claim, TypeOK
<1>4. key[t] \in Names /\ key[t] # Null /\ Reach(key[t], s)
  BY <1>1, <1>2, NamesAssumption DEF InCall
<1>5. ptr'[s] = key[t] /\ \A i \in Slots : i # s => ptr'[i] = ptr[i]
  BY <1>1 DEF Claim, TypeOK
<1>6. \A i \in Slots : ptr[i] # Null => i # s /\ ptr'[i] = ptr[i]
  BY <1>2, <1>5
<1>7. ASSUME NEW u \in Threads, Owns(u) PROVE idx[u] # s /\ u # t
  <2>1. ptr[idx[u]] = key[u] /\ key[u] \in Names
    BY <1>7 DEF IInv, InCall, Owns
  <2> QED BY <1>2, <1>7, <2>1, NamesAssumption DEF Owns
<1>8. ASSUME NEW i \in Slots PROVE Settled(i)' <=> Settled(i)
  <2>1. CASE i = s
    BY <1>2, <2>1 DEF Settled
  <2>2. CASE i # s
    <3>1. ASSUME NEW u \in Threads
          PROVE  pc'[u] \in {"draw", "store"} /\ idx'[u] = i <=> pc[u] \in {"draw", "store"} /\ idx[u] = i
      BY <1>2, <1>3, <2>2
    <3> QED BY <1>5, <2>2, <3>1 DEF Settled
  <2> QED BY <2>1, <2>2
<1>9. \A k \in Names, i \in Slots : Reach(k, i) => Reach(k, i)'
  BY <1>6 DEF Reach
<1>10. Chain'
  <2> SUFFICES ASSUME NEW i \in Slots, ptr'[i] # Null
               PROVE  \A j \in Slots : Dist(Hash[ptr'[i]], j) < Dist(Hash[ptr'[i]], i) => ptr'[j] # Null
    BY DEF Chain, Reach
  <2>1. CASE i = s
    BY <1>4, <1>5, <1>6, <2>1 DEF Reach
  <2>2. CASE i # s
    <3>1. ptr[i] # Null /\ ptr'[i] = ptr[i]
      BY <1>5, <2>2
    <3> QED BY <1>6, <3>1 DEF IInv, Chain, Reach
  <2> QED BY <2>1, <2>2
<1>11. Owners'
  <2>1. \A u \in Threads : u # t => (Owns(u)' <=> Owns(u)) /\ (Owns(u) => idx[u] # s)
    BY <1>3, <1>7 DEF Owns
  <2>2. \A u, v \in Threads : Owns(u)' /\ Owns(v)' /\ idx'[u] = idx'[v] => u = v
    BY <1>2, <2>1 DEF IInv, Owners
  <2>3. \A u, v \in Threads : pc'[u] = "store" /\ pc'[v] = "store" /\ index'[u] = index'[v] => u = v
    BY <1>2, <1>3 DEF IInv, Owners
  <2> QED BY <2>2, <2>3 DEF Owners
<1>12. Numbers'
  BY <1>2, <1>8 DEF IInv, Numbers, NumbersDistinct
<1>13. Announced'
  <2>1. \A u \in Threads : pc'[u] = "announce" =>
          \A m \in 1 .. Len(stringQueue) : stringQueue[m].id # index'[u]
    BY <1>2, <1>3 DEF IInv, Announced
  <2>2. \A i \in Slots : Settled(i) => Settled(i)' /\ ptr'[i] = ptr[i]
    BY <1>6, <1>8 DEF Settled
  <2>3. AnnouncedOnce'
    BY <1>2, <2>2 DEF IInv, Announced, AnnouncedOnce
  <2> QED BY <1>2, <2>1, <2>3 DEF Announced
<1>14. KnownNamesAreFound'
  <2>1. ~ known[t]
    BY <1>2 DEF IInv, KnownNamesAreFound
  <2> QED BY <1>2, <1>3, <2>1 DEF IInv, KnownNamesAreFound
<1>15. ASSUME NEW u \in Threads PROVE InCall(u)'
  <2>1. CASE u = t
    BY <1>2, <1>4, <1>5, <2>1 DEF InCall, Owns
  <2>2. CASE u # t
    <3>1. InCall(u) /\ pc'[u] = pc[u] /\ idx[u] \in Slots
      BY <1>1, <1>3, <2>2 DEF IInv, TypeOK
    <3>2. pc[u] = "getvalue" \/ Owns(u) => ptr'[idx[u]] = key[u]
      <4> SUFFICES ASSUME pc[u] = "getvalue" \/ Owns(u) PROVE ptr'[idx[u]] = key[u]
        OBVIOUS
      <4>1. ptr[idx[u]] = key[u] /\ key[u] # Null
        BY <3>1, NamesAssumption DEF InCall, Owns
      <4> QED BY <1>6, <3>1, <4>1
    <3>3. pc[u] = "get" /\ known[u] =>
            \E j \in Slots : ptr'[j] = key[u] /\ Dist(Hash[key[u]], idx[u]) <= Dist(Hash[key[u]], j)
      <4> SUFFICES ASSUME pc[u] = "get", known[u]
                   PROVE \E j \in Slots : ptr'[j] = key[u] /\ Dist(Hash[key[u]], idx[u]) <= Dist(Hash[key[u]], j)
        OBVIOUS
      <4>1. PICK j \in Slots : ptr[j] = key[u] /\ Dist(Hash[key[u]], idx[u]) <= Dist(Hash[key[u]], j)
        BY <3>1 DEF InCall, Ahead
      <4>2. key[u] # Null
        BY <3>1, NamesAssumption DEF InCall
      <4> QED BY <1>6, <4>1, <4>2
    <3>4. pc[u] \in {"put", "claim"} =>
            \A j \in Slots : Dist(Hash[key[u]], j) < Dist(Hash[key[u]], idx[u]) => ptr'[j] # Null
      BY <1>6, <3>1 DEF InCall, Reach
    <3>5. pc[u] = "store" => index[u] < nextIndex /\ \A i \in Slots : Settled(i)' => value[i] # index[u]
      BY <1>8, <3>1 DEF InCall
    <3> QED BY <1>2, <3>1, <3>2, <3>3, <3>4, <3>5 DEF InCall, Owns, Ahead, Reach
  <2> QED BY <2>1, <2>2
<1> QED BY <1>10, <1>11, <1>12, <1>13, <1>14, <1>15 DEF IInv

\* The number drawn is one no slot has and no thread carries.
LEMMA DrawStep ==
  ASSUME IInv, TypeOK', NEW t \in Threads, DrawIndex(t)
  PROVE  IInv'
<1> USE DEF Goto
<1>1. TypeOK /\ InCall(t)
  BY DEF IInv
<1>2. /\ value' = value /\ ptr' = ptr /\ stringQueue' = stringQueue
      /\ idx' = idx /\ key' = key /\ known' = known
      /\ pc[t] = "draw" /\ pc'[t] = "store" /\ index'[t] = nextIndex
  BY <1>1 DEF DrawIndex, TypeOK
<1>3. ASSUME NEW u \in Threads, u # t PROVE pc'[u] = pc[u] /\ index'[u] = index[u]
  BY <1>1, <1>3 DEF DrawIndex, TypeOK
<1>4. nextIndex \in Nat /\ nextIndex' = nextIndex + 1
  BY <1>1 DEF DrawIndex, TypeOK
<1>5. \A x \in Nat : x < nextIndex => x # nextIndex /\ x < nextIndex'
  BY <1>4
<1>6. nextIndex < nextIndex'
  BY <1>4
<1>7. ASSUME NEW i \in Slots PROVE Settled(i)' <=> Settled(i)
  <2>1. ASSUME NEW u \in Threads
        PROVE  pc'[u] \in {"draw", "store"} <=> pc[u] \in {"draw", "store"}
    BY <1>2, <1>3
  <2> QED BY <1>2, <2>1 DEF Settled
<1>8. \A i \in Slots : Settled(i) => value[i] \in Nat /\ value[i] # nextIndex /\ value[i] < nextIndex'
  BY <1>1, <1>5 DEF IInv, Numbers, TypeOK
<1>9. \A u \in Threads : pc[u] = "store" => index[u] \in Nat /\ index[u] # nextIndex /\ index[u] < nextIndex'
  BY <1>1, <1>5 DEF IInv, InCall, TypeOK
<1>10. Chain'
  BY <1>2 DEF IInv, Chain, Reach
<1>11. Owners'
  <2>1. \A u \in Threads : Owns(u)' <=> Owns(u)
    BY <1>2, <1>3 DEF Owns
  <2>2. \A u, v \in Threads : Owns(u)' /\ Owns(v)' /\ idx'[u] = idx'[v] => u = v
    BY <1>2, <2>1 DEF IInv, Owners
  <2>3. \A u, v \in Threads : pc'[u] = "store" /\ pc'[v] = "store" /\ index'[u] = index'[v] => u = v
    BY <1>2, <1>3, <1>9 DEF IInv, Owners
  <2> QED BY <2>2, <2>3 DEF Owners
<1>12. Numbers'
  BY <1>2, <1>7, <1>8 DEF IInv, Numbers, NumbersDistinct
<1>13. Announced'
  <2>1. \A u \in Threads : pc'[u] = "announce" =>
          \A m \in 1 .. Len(stringQueue) : stringQueue[m].id # index'[u]
    BY <1>2, <1>3 DEF IInv, Announced
  <2>2. AnnouncedOnce'
    BY <1>2, <1>7 DEF IInv, Announced, AnnouncedOnce
  <2> QED BY <1>2, <2>1, <2>2 DEF Announced
<1>14. KnownNamesAreFound'
  <2>1. ~ known[t]
    BY <1>2 DEF IInv, KnownNamesAreFound
  <2> QED BY <1>2, <1>3, <2>1 DEF IInv, KnownNamesAreFound
<1>15. ASSUME NEW u \in Threads PROVE InCall(u)'
  <2>1. InCall(u)
    BY DEF IInv
  <2>2. CASE u = t
    BY <1>2, <1>6, <1>7, <1>8, <2>1, <2>2 DEF InCall, Owns
  <2>3. CASE u # t
    <3>1. pc[u] = "store" => index[u] < nextIndex' /\ \A i \in Slots : Settled(i)' => value[i] # index[u]
      BY <1>7, <1>9, <2>1 DEF InCall
    <3> QED BY <1>2, <1>3, <2>1, <2>3, <3>1 DEF InCall, Owns, Ahead, Reach
  <2> QED BY <2>2, <2>3
<1> QED BY <1>10, <1>11, <1>12, <1>13, <1>14, <1>15 DEF IInv

\* The slot becomes one with a number, and the number is nobody else's.
LEMMA StoreStep ==
  ASSUME IInv, TypeOK', NEW t \in Threads, StoreIndex(t)
  PROVE  IInv'
<1> USE DEF Goto
<1> DEFINE s == idx[t]
<1>1. TypeOK /\ InCall(t) /\ s \in Slots
  BY DEF IInv, TypeOK
<1>2. /\ nextIndex' = nextIndex /\ ptr' = ptr /\ stringQueue' = stringQueue
      /\ idx' = idx /\ key' = key /\ index' = index /\ known' = known
      /\ pc[t] = "store" /\ pc'[t] = "announce"
  BY <1>1 DEF StoreIndex, locals, TypeOK
<1>3. ASSUME NEW u \in Threads, u # t PROVE pc'[u] = pc[u]
  BY <1>1, <1>3 DEF StoreIndex, TypeOK
<1>4. value'[s] = index[t] /\ \A i \in Slots : i # s => value'[i] = value[i]
  BY <1>1 DEF StoreIndex, TypeOK
<1>5. /\ key[t] \in Names /\ ptr[s] = key[t] /\ index[t] < nextIndex
      /\ \A i \in Slots : Settled(i) => value[i] # index[t]
  BY <1>1, <1>2 DEF InCall, Owns
<1>6. ASSUME NEW u \in Threads, u # t, Owns(u) PROVE idx[u] # s
  BY <1>2, <1>6 DEF IInv, Owners, Owns
<1>7. ASSUME NEW i \in Slots PROVE Settled(i)' <=> Settled(i) \/ i = s
  <2>1. CASE i = s
    BY <1>2, <1>3, <1>5, <1>6, <2>1, NamesAssumption DEF Settled, Owns
  <2>2. CASE i # s
    <3>1. ASSUME NEW u \in Threads
          PROVE  pc'[u] \in {"draw", "store"} /\ idx'[u] = i <=> pc[u] \in {"draw", "store"} /\ idx[u] = i
      BY <1>2, <1>3, <2>2
    <3> QED BY <1>2, <2>2, <3>1 DEF Settled
  <2> QED BY <2>1, <2>2
<1>8. \A i \in Slots : Settled(i) => i # s /\ value'[i] = value[i]
  BY <1>2, <1>4 DEF Settled
<1>9. \A m \in 1 .. Len(stringQueue) : \E i \in Slots :
        Settled(i) /\ ptr[i] = stringQueue[m].ptr /\ value[i] = stringQueue[m].id
  BY DEF IInv, Announced, AnnouncedOnce
<1>10. Chain'
  BY <1>2 DEF IInv, Chain, Reach
<1>11. Owners'
  <2>1. \A u \in Threads : Owns(u)' <=> Owns(u)
    BY <1>2, <1>3 DEF Owns
  <2>2. \A u, v \in Threads : Owns(u)' /\ Owns(v)' /\ idx'[u] = idx'[v] => u = v
    BY <1>2, <2>1 DEF IInv, Owners
  <2>3. \A u, v \in Threads : pc'[u] = "store" /\ pc'[v] = "store" /\ index'[u] = index'[v] => u = v
    BY <1>2, <1>3 DEF IInv, Owners
  <2> QED BY <2>2, <2>3 DEF Owners
<1>12. Numbers'
  BY <1>2, <1>4, <1>5, <1>7, <1>8 DEF IInv, Numbers, NumbersDistinct
<1>13. Announced'
  <2>1. \A u \in Threads : pc'[u] = "announce" =>
          \A m \in 1 .. Len(stringQueue) : stringQueue[m].id # index'[u]
    <3> SUFFICES ASSUME NEW u \in Threads, pc'[u] = "announce", NEW m \in 1 .. Len(stringQueue)
                 PROVE  stringQueue[m].id # index[u]
      BY <1>2
    <3>1. CASE u = t
      BY <1>5, <1>9, <3>1
    <3>2. CASE u # t
      BY <1>3, <3>2 DEF IInv, Announced
    <3> QED BY <3>1, <3>2
  <2>2. AnnouncedOnce'
    BY <1>2, <1>7, <1>8, <1>9 DEF IInv, Announced, AnnouncedOnce
  <2> QED BY <1>2, <2>1, <2>2 DEF Announced
<1>14. KnownNamesAreFound'
  <2>1. ~ known[t]
    BY <1>2 DEF IInv, KnownNamesAreFound
  <2> QED BY <1>2, <1>3, <2>1 DEF IInv, KnownNamesAreFound
<1>15. ASSUME NEW u \in Threads PROVE InCall(u)'
  <2>1. CASE u = t
    BY <1>2, <1>4, <1>5, <2>1 DEF InCall, Owns
  <2>2. CASE u # t
    <3>1. InCall(u) /\ pc'[u] = pc[u] /\ idx[u] \in Slots
      BY <1>1, <1>3, <2>2 DEF IInv, TypeOK
    <3>2. pc[u] = "announce" => value'[idx[u]] = index[u]
      BY <1>4, <1>6, <2>2, <3>1 DEF InCall, Owns
    <3>3. pc[u] = "store" => index[u] < nextIndex /\ \A i \in Slots : Settled(i)' => value'[i] # index[u]
      <4> SUFFICES ASSUME pc[u] = "store", NEW i \in Slots, Settled(i)' PROVE value'[i] # index[u]
        BY <3>1 DEF InCall
      <4>1. index[u] # index[t]
        BY <1>2, <2>2 DEF IInv, Owners
      <4> QED BY <1>4, <1>7, <1>8, <3>1, <4>1 DEF InCall
    <3> QED BY <1>2, <3>1, <3>2, <3>3 DEF InCall, Owns, Ahead, Reach
  <2> QED BY <2>1, <2>2
<1> QED BY <1>10, <1>11, <1>12, <1>13, <1>14, <1>15 DEF IInv

\* The number announced is the slot's, and it is not in the queue yet.
LEMMA AnnounceStep ==
  ASSUME IInv, TypeOK', NEW t \in Threads, Announce(t)
  PROVE  IInv'
<1> USE DEF Goto, Return
<1> DEFINE s == idx[t]
           e == [id |-> index[t], ptr |-> key[t]]
           S == [id : Nat, ptr : Names]
<1>1. TypeOK /\ InCall(t) /\ s \in Slots
  BY DEF IInv, TypeOK
<1>2. /\ nextIndex' = nextIndex /\ ptr' = ptr /\ value' = value
      /\ idx' = idx /\ key' = key /\ index' = index /\ known' = known
      /\ pc[t] = "announce" /\ pc'[t] = "idle"
  BY <1>1 DEF Announce, locals, table, TypeOK
<1>3. ASSUME NEW u \in Threads, u # t PROVE pc'[u] = pc[u]
  BY <1>1, <1>3 DEF Announce, TypeOK
<1>4. /\ key[t] \in Names /\ ptr[s] = key[t] /\ value[s] = index[t]
      /\ \A m \in 1 .. Len(stringQueue) : stringQueue[m].id # index[t]
  BY <1>1, <1>2 DEF IInv, InCall, Owns, Announced
<1>5. ASSUME NEW i \in Slots PROVE Settled(i)' <=> Settled(i)
  <2>1. ASSUME NEW u \in Threads
        PROVE  pc'[u] \in {"draw", "store"} <=> pc[u] \in {"draw", "store"}
    BY <1>2, <1>3
  <2> QED BY <1>2, <2>1 DEF Settled
<1>6. ASSUME NEW u \in Threads, pc[u] = "announce" PROVE Settled(idx[u]) /\ value[idx[u]] = index[u]
  <2>1. InCall(u) /\ ptr[idx[u]] # Null
    BY <1>6, NamesAssumption DEF IInv, InCall, Owns
  <2>2. \A v \in Threads : pc[v] \in {"draw", "store"} => idx[v] # idx[u]
    BY <1>6 DEF IInv, Owners, Owns
  <2> QED BY <1>6, <2>1, <2>2 DEF Settled, InCall
<1>7. \A m \in 1 .. Len(stringQueue) : \E i \in Slots :
        Settled(i) /\ ptr[i] = stringQueue[m].ptr /\ value[i] = stringQueue[m].id
  BY DEF IInv, Announced, AnnouncedOnce
<1>8. \/ stringQueue' = stringQueue
      \/ stringQueue' = Append(stringQueue, e)
  BY DEF Announce
<1>9. e \in S /\ stringQueue \in Seq(S) /\ e.id = index[t] /\ e.ptr = key[t]
  BY <1>1, <1>4 DEF TypeOK
<1>10. ASSUME NEW m \in 1 .. Len(stringQueue')
       PROVE  \/ m \in 1 .. Len(stringQueue) /\ stringQueue'[m] = stringQueue[m]
              \/ m = Len(stringQueue) + 1 /\ stringQueue'[m] = e
  <2> HIDE DEF e, S
  <2> QED BY <1>8, <1>9, <1>10
<1>11. Chain'
  BY <1>2 DEF IInv, Chain, Reach
<1>12. Owners'
  <2>1. \A u \in Threads : Owns(u)' => Owns(u)
    BY <1>2, <1>3 DEF Owns
  <2>2. \A u, v \in Threads : Owns(u)' /\ Owns(v)' /\ idx'[u] = idx'[v] => u = v
    BY <1>2, <2>1 DEF IInv, Owners
  <2>3. \A u, v \in Threads : pc'[u] = "store" /\ pc'[v] = "store" /\ index'[u] = index'[v] => u = v
    BY <1>2, <1>3 DEF IInv, Owners
  <2> QED BY <2>2, <2>3 DEF Owners
<1>13. Numbers'
  BY <1>2, <1>5 DEF IInv, Numbers, NumbersDistinct
<1>14. Announced'
  <2>1. ASSUME NEW u \in Threads, pc'[u] = "announce", NEW m \in 1 .. Len(stringQueue')
        PROVE  stringQueue'[m].id # index[u]
    <3>1. pc[u] = "announce" /\ u # t
      BY <1>2, <1>3, <2>1
    <3>2. index[u] # index[t]
      <4>1. idx[u] \in Slots /\ Settled(idx[u]) /\ Settled(s) /\ idx[u] # s
        BY <1>1, <1>2, <1>6, <3>1 DEF IInv, TypeOK, Owners, Owns
      <4> QED BY <1>1, <1>2, <1>6, <3>1, <4>1 DEF IInv, Numbers, NumbersDistinct
    <3>3. \A n \in 1 .. Len(stringQueue) : stringQueue[n].id # index[u]
      BY <3>1 DEF IInv, Announced
    <3> HIDE DEF e
    <3> QED BY <1>9, <1>10, <3>2, <3>3
  <2>2. ASSUME NEW m \in 1 .. Len(stringQueue'), NEW n \in 1 .. Len(stringQueue'),
               stringQueue'[m].id = stringQueue'[n].id
        PROVE  m = n
    <3>1. \A x, y \in 1 .. Len(stringQueue) : stringQueue[x].id = stringQueue[y].id => x = y
      BY DEF IInv, Announced, AnnouncedOnce
    <3> HIDE DEF e
    <3> QED BY <1>4, <1>9, <1>10, <2>2, <3>1
  <2>3. ASSUME NEW m \in 1 .. Len(stringQueue')
        PROVE  \E i \in Slots : Settled(i) /\ ptr[i] = stringQueue'[m].ptr /\ value[i] = stringQueue'[m].id
    <3>1. Settled(s)
      BY <1>2, <1>6
    <3> HIDE DEF e
    <3> QED BY <1>1, <1>4, <1>7, <1>9, <1>10, <3>1
  <2>4. AnnouncedOnce'
    <3>1. \A m \in 1 .. Len(stringQueue') : \E i \in Slots :
            Settled(i)' /\ ptr'[i] = stringQueue'[m].ptr /\ value'[i] = stringQueue'[m].id
      BY <1>2, <1>5, <2>3
    <3> QED BY <2>2, <3>1 DEF AnnouncedOnce
  <2> QED BY <1>2, <2>1, <2>4 DEF Announced
<1>15. KnownNamesAreFound'
  BY <1>2, <1>3 DEF IInv, KnownNamesAreFound
<1>16. ASSUME NEW u \in Threads PROVE InCall(u)'
  <2>1. CASE u = t
    BY <1>2, <2>1 DEF InCall, Owns
  <2>2. CASE u # t
    <3>1. InCall(u) /\ pc'[u] = pc[u]
      BY <1>3, <2>2 DEF IInv
    <3>2. pc[u] = "store" => index[u] < nextIndex /\ \A i \in Slots : Settled(i)' => value[i] # index[u]
      BY <1>5, <3>1 DEF InCall
    <3> QED BY <1>2, <3>1, <3>2 DEF InCall, Owns, Ahead, Reach
  <2> QED BY <2>1, <2>2
<1> QED BY <1>11, <1>12, <1>13, <1>14, <1>15, <1>16 DEF IInv

LEMMA StepInv == IInv /\ [Next]_vars => IInv'
<1> SUFFICES ASSUME IInv, [Next]_vars PROVE IInv'
  OBVIOUS
<1>1. TypeOK'
  BY StepTyped
<1>2. ASSUME NEW t \in Threads, NEW k \in Names, Call(t, k) PROVE IInv'
  BY <1>1, <1>2, CallStep
<1>3. ASSUME NEW t \in Threads, Step(t) PROVE IInv'
  BY <1>1, <1>3, GetStep, PutStep, ClaimStep, DrawStep, StoreStep, AnnounceStep DEF Step
<1>4. CASE UNCHANGED vars
  <2>1. Chain' /\ Owners' /\ KnownNamesAreFound'
    BY <1>4 DEF vars, table, locals, IInv, Chain, Reach, Owners, Owns, KnownNamesAreFound
  <2>2. Numbers'
    BY <1>4 DEF vars, table, locals, IInv, Numbers, NumbersDistinct, Settled
  <2>3. Announced'
    BY <1>4 DEF vars, table, locals, IInv, Announced, AnnouncedOnce, Settled
  <2>4. \A t \in Threads : InCall(t)'
    BY <1>4 DEF vars, table, locals, IInv, InCall, Owns, Ahead, Reach, Settled
  <2> QED BY <1>1, <2>1, <2>2, <2>3, <2>4 DEF IInv
<1> QED BY <1>2, <1>3, <1>4 DEF Next

LEMMA Invariance == Spec => []IInv
<1>1. Init => IInv
  BY InitInv
<1>2. IInv /\ [Next]_vars => IInv'
  BY StepInv
<1> QED BY <1>1, <1>2, PTL DEF Spec

------------------------------------------------------------------------------
(* The theorems *)

\* Every variable has its type: a probe never leaves the table
\* (pointer_hash.h:55-86), and the number MapStringToReference returns is one
\* that was drawn, or -1 (Context.cpp:158-180).
THEOREM TypeCorrect == Spec => []TypeOK
<1>1. IInv => TypeOK
  BY DEF IInv
<1> QED BY <1>1, Invariance, PTL

\* However the threads race between the compare-and-swap of a slot, the draw
\* of a number and its store (pointer_hash.h:71-73), two slots never share a
\* number.
THEOREM SlotsHaveTheirNumbers == Spec => []NumbersDistinct
<1>1. IInv => NumbersDistinct
  BY DEF IInv, Numbers
<1> QED BY <1>1, Invariance, PTL

\* No slot between the one a name hashes to and the one it is in is free,
\* whatever other threads insert meanwhile: Get may stop at the first free
\* slot (pointer_hash.h:98), if the weak compare-and-swap fails only on a slot
\* that is taken (:71).
THEOREM GetMayStop == Spec => []ProbeChain
<1>1. ASSUME IInv PROVE ProbeChain
  <2> SUFFICES ASSUME NEW i \in Slots, ptr[i] # Null, NEW d \in 0 .. TableSize - 1,
                      d < (i - Hash[ptr[i]]) % TableSize
               PROVE  ptr[(Hash[ptr[i]] + d) % TableSize] # Null
    BY DEF ProbeChain
  <2>1. ptr[i] \in Names
    BY <1>1 DEF IInv, TypeOK
  <2> DEFINE h == Hash[ptr[i]]
             j == (h + d) % TableSize
  <2>2. h \in Slots /\ d \in Slots
    BY <2>1, HashAssumption DEF Slots
  <2>3. j \in Slots /\ Dist(h, j) = d
    BY <2>2, DistAt
  <2>4. Dist(h, j) < Dist(h, i)
    BY <2>3 DEF Dist
  <2> QED BY <1>1, <2>3, <2>4 DEF IInv, Chain, Reach
<1> QED BY <1>1, Invariance, PTL

\* MapStringToReference hands a string to the string queue once for each slot,
\* with the number the table has for it (Context.cpp:171-177): string_id, the
\* primary key of the string table, is never inserted twice.
THEOREM StringIDsAreKeys == Spec => []AnnouncedOnce
<1>1. IInv => AnnouncedOnce
  BY DEF IInv, Announced
<1> QED BY <1>1, Invariance, PTL

\* A call for a name that was in the table when it began is answered by Get
\* (Context.cpp:160-163): it reaches no Put.  As GetMayStop, on x86.
THEOREM KnownNamesStay == Spec => []KnownNamesAreFound
<1>1. IInv => KnownNamesAreFound
  BY DEF IInv
<1> QED BY <1>1, Invariance, PTL
==============================================================================
