--------------------------- MODULE RingIndexProofs ---------------------------
(***************************************************************************)
(* What the modular comparisons of the ring say about its tickets, for     *)
(* every capacity: a ticket's slot, its successor's, and when "equal       *)
(* modulo capacity" means equal.  Everything rests on the division with    *)
(* remainder (DivMod) and its uniqueness (SlotUnique).                     *)
(***************************************************************************)
EXTENDS RingIndex, TLAPS

\* A ticket is its number of full turns of the buffer and its slot: what modcap
\* (lockless_ring.h:21) computes is a slot.
LEMMA DivMod ==
  ASSUME NEW a \in Nat
  PROVE  /\ a = Capacity * (a \div Capacity) + (a % Capacity) 
         /\ a \div Capacity \in Nat /\ a % Capacity \in Slots
BY CapacityAssumption, SMT DEF Slots

\* A full turn more is at least capacity tickets more.
LEMMA Turns ==
  ASSUME NEW x \in Nat, NEW y \in Nat, x < y
  PROVE  Capacity * y >= Capacity * x + Capacity
<1>1. PICK d \in Nat : y = x + 1 + d
  <2>1. y - x - 1 \in Nat /\ y = x + 1 + (y - x - 1)
    OBVIOUS
  <2> QED BY <2>1
<1>2. Capacity * y = Capacity * x + Capacity + Capacity * d
  BY <1>1, CapacityAssumption
<1>3. Capacity * d \in Nat /\ Capacity * x \in Nat
  BY CapacityAssumption
<1> QED BY <1>2, <1>3, CapacityAssumption

\* Division with remainder has one remainder.
LEMMA SlotUnique ==
  \A q, p \in Nat : \A r, s \in Slots : Capacity * q + r = Capacity * p + s => r = s
<1> SUFFICES ASSUME NEW q \in Nat, NEW p \in Nat, NEW r \in Slots, NEW s \in Slots,
                    Capacity * q + r = Capacity * p + s
             PROVE  r = s
  OBVIOUS
<1>1. Capacity * q \in Nat /\ Capacity * p \in Nat
  BY CapacityAssumption
<1>2. ~ (q < p)
  BY Turns, <1>1, CapacityAssumption DEF Slots
<1>3. ~ (p < q)
  BY Turns, <1>1, CapacityAssumption DEF Slots
<1>4. q = p
  BY <1>2, <1>3
<1> QED BY <1>1, <1>4, CapacityAssumption DEF Slots

\* So a ticket written as full turns and a slot has that slot.
LEMMA SlotOf ==
  \A a, q \in Nat : \A r \in Slots : a = Capacity * q + r => modcap(a) = r
<1> SUFFICES ASSUME NEW a \in Nat, NEW q \in Nat, NEW r \in Slots, a = Capacity * q + r
             PROVE  a % Capacity = r
  BY DEF modcap
<1>1. /\ a = Capacity * (a \div Capacity) + (a % Capacity)
      /\ a \div Capacity \in Nat /\ a % Capacity \in Slots
  BY DivMod
<1>2. Capacity * q + r = Capacity * (a \div Capacity) + (a % Capacity)
  BY <1>1, Zenon
<1> QED BY <1>1, <1>2, SlotUnique, Zenon

\* d tickets later, up to a full turn, the slot is d further on, once around the
\* end of the buffer at most.
LEMMA ModAdd ==
  ASSUME NEW b \in Nat, NEW d \in 0 .. Capacity
  PROVE  /\ modcap(b) \in Slots
         /\ modcap(b + d) = IF modcap(b) + d < Capacity THEN modcap(b) + d
                            ELSE modcap(b) + d - Capacity
<1>1. PICK q \in Nat, r \in Slots : b = Capacity * q + r /\ modcap(b) = r
  BY DivMod, Zenon DEF modcap
<1>2. Capacity * q \in Nat /\ q + 1 \in Nat /\ Capacity * (q + 1) = Capacity * q + Capacity
  BY CapacityAssumption
<1>d. b + d \in Nat
  BY CapacityAssumption
<1>3. CASE r + d < Capacity
  <2>1. b + d = Capacity * q + (r + d) /\ r + d \in Slots
    BY <1>1, <1>2, <1>3, CapacityAssumption DEF Slots
  <2>2. modcap(b + d) = r + d
    BY <2>1, <1>d, SlotOf, Zenon
  <2> QED BY <1>1, <1>3, <2>2
<1>4. CASE ~ (r + d < Capacity)
  <2>1. b + d = Capacity * (q + 1) + (r + d - Capacity) /\ r + d - Capacity \in Slots
    BY <1>1, <1>2, <1>4, CapacityAssumption DEF Slots
  <2>2. modcap(b + d) = r + d - Capacity
    BY <2>1, <1>2, <1>d, SlotOf, Zenon
  <2> QED BY <1>1, <1>4, <2>2
<1> QED BY <1>3, <1>4

\* The comparison the queue makes everywhere, modcap_eq (lockless_ring.h:26),
\* tells equal tickets from different ones within a window of capacity tickets.
LEMMA ModEqual ==
  ASSUME NEW a \in Nat, NEW b \in Nat, a <= b, b < a + Capacity
  PROVE  modcap_eq(b, a) <=> a = b
<1> DEFINE d == b - a
<1>1. d \in 0 .. Capacity /\ d < Capacity /\ b = a + d
  BY CapacityAssumption
<1> HIDE DEF d
<1>2. /\ modcap(a) \in Slots
      /\ modcap(b) = IF modcap(a) + d < Capacity THEN modcap(a) + d
                     ELSE modcap(a) + d - Capacity
  BY <1>1, ModAdd
<1> DEFINE i == modcap(a)  j == modcap(b)
<1>3. /\ i \in Slots
      /\ j = IF i + d < Capacity THEN i + d ELSE i + d - Capacity
  BY <1>2
<1>4. modcap_eq(b, a) <=> j = i
  BY DEF modcap_eq
<1> HIDE DEF i, j
<1>5. j = i <=> d = 0
  BY <1>1, <1>3, CapacityAssumption DEF Slots
<1>6. d = 0 <=> a = b
  BY <1>1
<1> QED BY <1>4, <1>5, <1>6

\* TryEnqueue's check of front + 1 against back (lockless_ring.h:71): where it
\* sees room, one more ticket still fits the window.
LEMMA NextFull ==
  ASSUME NEW a \in Nat, NEW b \in Nat, a <= b, b < a + Capacity, ~ modcap_eq(b + 1, a)
  PROVE  b + 1 < a + Capacity
<1> SUFFICES ASSUME b + 1 = a + Capacity PROVE FALSE
  BY CapacityAssumption
<1>1. Capacity \in 0 .. Capacity
  BY CapacityAssumption
<1>2. modcap(a) \in Slots /\ modcap(a + Capacity) = IF modcap(a) + Capacity < Capacity THEN modcap(a) + Capacity
                     ELSE modcap(a) + Capacity - Capacity
  BY <1>1, ModAdd
<1> DEFINE i == modcap(a)  j == modcap(a + Capacity)
<1>3. /\ i \in Slots
      /\ j = IF i + Capacity < Capacity THEN i + Capacity ELSE i + Capacity - Capacity
  BY <1>2
<1>4. modcap_eq(b + 1, a) <=> j = i
  BY DEF modcap_eq
<1> HIDE DEF i, j
<1>5. j = i
  BY <1>3, CapacityAssumption DEF Slots
<1> QED BY <1>4, <1>5

\* The block that TryDequeue(out, maxOut) copies (lockless_ring.h:105) is not
\* empty, not longer than asked for, and inside the published tickets and the
\* buffer.
LEMMA BlockInRing ==
  ASSUME NEW a \in Nat, NEW b \in Nat, b < a, a < b + Capacity,
         NEW maxOut \in Nat \ {0}
  PROVE  LET n == BlockCopySize(modcap(a), modcap(b), maxOut)
         IN  n \in Nat \ {0} /\ n <= maxOut /\ b + n <= a /\ modcap(b) + n <= Capacity
<1> DEFINE d == a - b
<1>1. d \in 1 .. Capacity - 1 /\ d \in 0 .. Capacity /\ a = b + d
  BY CapacityAssumption
<1> HIDE DEF d
<1>2. /\ modcap(b) \in Slots
      /\ modcap(a) = IF modcap(b) + d < Capacity THEN modcap(b) + d
                     ELSE modcap(b) + d - Capacity
  BY <1>1, ModAdd
<1> DEFINE i == modcap(b)  j == modcap(a)
<1>3. /\ i \in Slots
      /\ j = IF i + d < Capacity THEN i + d ELSE i + d - Capacity
  BY <1>2
<1> HIDE DEF i, j
<1> DEFINE n == BlockCopySize(j, i, maxOut)
<1>4. n \in Nat \ {0} /\ n <= maxOut /\ n <= d /\ i + n <= Capacity
  BY <1>1, <1>3, CapacityAssumption DEF BlockCopySize, Slots
<1> HIDE DEF n
<1>5. b + n <= a
  BY <1>1, <1>4, CapacityAssumption
<1> QED BY <1>4, <1>5 DEF n, i, j
==============================================================================
