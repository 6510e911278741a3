------------------------- MODULE ResponseCacheProofs -------------------------
(***************************************************************************)
(* Proofs about ResponseCache: its map and its list stay coherent, it      *)
(* evicts the least recently used key, and it implements TTLStore.  The    *)
(* lemmas say what the operations on the list do to its elements and to    *)
(* their order; the rest uses nothing else about sequences.                *)
(***************************************************************************)
EXTENDS ResponseCache, SequenceTheorems, FiniteSetTheorems, TLAPS

Distinct(s) == \A i, j \in 1..Len(s) : s[i] = s[j] => i = j

-----------------------------------------------------------------------------
(* The list.                                                               *)

(* A function on 1..n is a sequence of that length.                        *)
LEMMA FunctionIsSeq ==
  ASSUME NEW S, NEW n \in Nat, NEW f \in [1..n -> S]
  PROVE  f \in Seq(S) /\ Len(f) = n
  OBVIOUS

(* The empty list has no elements.                                         *)
LEMMA EmptyList == Elements(<<>>) = {} /\ Distinct(<<>>) /\ \A a, b : ~Before(<<>>, a, b)
  BY DEF Elements, Distinct, Before

(* Position finds a key that is there.                                     *)
LEMMA PositionFinds ==
  ASSUME NEW s \in Seq(Keys), NEW k \in Elements(s)
  PROVE  Position(s, k) \in 1..Len(s) /\ s[Position(s, k)] = k
  BY DEF Position, Elements

(* Without takes out one key and keeps the order of the others.            *)
LEMMA WithoutProperties ==
  ASSUME NEW s \in Seq(Keys), NEW k \in Keys, Distinct(s)
  PROVE  /\ Without(s, k) \in Seq(Keys)
         /\ Len(Without(s, k)) = IF k \in Elements(s) THEN Len(s) - 1 ELSE Len(s)
         /\ Distinct(Without(s, k))
         /\ Elements(Without(s, k)) = Elements(s) \ {k}
         /\ \A a, b : Before(Without(s, k), a, b) <=> Before(s, a, b) /\ a # k /\ b # k
<1>1. CASE k \notin Elements(s)
  BY <1>1 DEF Without, Elements, Before
<1>2. CASE k \in Elements(s)
  <2> DEFINE p == Position(s, k)
             t == Without(s, k)
             n == Len(s) - 1
             old(i) == IF i < p THEN i ELSE i + 1
  <2>1. p \in 1..Len(s) /\ s[p] = k
    BY <1>2, PositionFinds
  <2>2. n \in Nat /\ Len(s) \in Nat
    BY <2>1
  <2>3. t = [i \in 1..n |-> IF i < p THEN s[i] ELSE s[i + 1]]
    BY <1>2 DEF Without, DropAt
  <2>4. t \in [1..n -> Keys]
    BY <2>1, <2>2, <2>3
  <2>5. t \in Seq(Keys) /\ Len(t) = n
    BY <2>2, <2>4, FunctionIsSeq
  <2> HIDE DEF t
  <2>6. \A i \in 1..n : old(i) \in 1..Len(s) /\ old(i) # p /\ t[i] = s[old(i)]
    BY <2>1, <2>2, <2>3
  <2>7. \A j \in 1..Len(s) : j # p => \E i \in 1..n : old(i) = j
    <3> SUFFICES ASSUME NEW j \in 1..Len(s), j # p PROVE \E i \in 1..n : old(i) = j
      OBVIOUS
    <3>1. CASE j < p
      BY <3>1, <2>1, <2>2
    <3>2. CASE j > p
      <4>1. j - 1 \in 1..n /\ old(j - 1) = j
        BY <3>2, <2>1, <2>2
      <4> QED BY <4>1
    <3> QED BY <3>1, <3>2, <2>1
  <2>8. \A i, j \in 1..n : (i < j <=> old(i) < old(j)) /\ (old(i) = old(j) => i = j)
    BY <2>1, <2>2
  <2>9. \A j \in 1..Len(s) : s[j] = k <=> j = p
    BY <2>1 DEF Distinct
  <2> HIDE DEF p, n, old
  <2>10. Distinct(t)
    BY <2>5, <2>6, <2>8 DEF Distinct
  <2>11. Elements(t) = Elements(s) \ {k}
    <3>1. ASSUME NEW x \in Elements(t) PROVE x \in Elements(s) \ {k}
      BY <2>5, <2>6, <2>9 DEF Elements
    <3>2. ASSUME NEW x \in Elements(s) \ {k} PROVE x \in Elements(t)
      <4>1. PICK j \in 1..Len(s) : s[j] = x /\ j # p
        BY <2>9, <3>2, <2>1 DEF Elements
      <4>2. PICK i \in 1..n : old(i) = j
        BY <4>1, <2>7
      <4> QED BY <4>1, <4>2, <2>5, <2>6 DEF Elements
    <3> QED BY <3>1, <3>2
  <2>12. ASSUME NEW a, NEW b
         PROVE  Before(t, a, b) <=> Before(s, a, b) /\ a # k /\ b # k
    <3>1. ASSUME Before(t, a, b) PROVE Before(s, a, b) /\ a # k /\ b # k
      BY <3>1, <2>5, <2>6, <2>8, <2>9 DEF Before
    <3>2. ASSUME Before(s, a, b), a # k, b # k PROVE Before(t, a, b)
      <4>1. PICK i, j \in 1..Len(s) : i < j /\ s[i] = a /\ s[j] = b
        BY <3>2 DEF Before
      <4>2. PICK x \in 1..n : old(x) = i
        BY <4>1, <3>2, <2>1, <2>7
      <4>3. PICK y \in 1..n : old(y) = j
        BY <4>1, <3>2, <2>1, <2>7
      <4> QED BY <4>1, <4>2, <4>3, <2>5, <2>6, <2>8 DEF Before
    <3> QED BY <3>1, <3>2
  <2> QED BY <1>2, <2>5, <2>10, <2>11, <2>12 DEF t, n
<1> QED BY <1>1, <1>2

(* PushFront puts a new key before all others.                             *)
LEMMA PushFrontProperties ==
  ASSUME NEW s \in Seq(Keys), NEW k \in Keys, Distinct(s), k \notin Elements(s)
  PROVE  /\ PushFront(s, k) \in Seq(Keys)
         /\ Len(PushFront(s, k)) = Len(s) + 1
         /\ Distinct(PushFront(s, k))
         /\ Elements(PushFront(s, k)) = Elements(s) \union {k}
         /\ \A a, b : Before(PushFront(s, k), a, b) <=>
                        Before(s, a, b) \/ (a = k /\ b \in Elements(s))
<1> DEFINE t == PushFront(s, k)
           n == Len(s) + 1
<1>1. n \in Nat /\ Len(s) \in Nat
  OBVIOUS
<1>2. t = [i \in 1..n |-> IF i = 1 THEN k ELSE s[i - 1]]
  BY DEF PushFront
<1>3. t \in [1..n -> Keys]
  BY <1>1, <1>2
<1>4. t \in Seq(Keys) /\ Len(t) = n
  BY <1>1, <1>3, FunctionIsSeq
<1> HIDE DEF t
<1>5. t[1] = k /\ \A i \in 1..n : i # 1 => i - 1 \in 1..Len(s) /\ t[i] = s[i - 1]
  BY <1>1, <1>2
<1>6. \A j \in 1..Len(s) : j + 1 \in 1..n /\ t[j + 1] = s[j] /\ s[j] # k
  BY <1>1, <1>2 DEF Elements
<1>7. Distinct(t)
  <2> SUFFICES ASSUME NEW i \in 1..n, NEW j \in 1..n, t[i] = t[j] PROVE i = j
    BY <1>4 DEF Distinct
  <2>1. CASE i = 1 \/ j = 1
    BY <2>1, <1>1, <1>5, <1>6
  <2>2. CASE i # 1 /\ j # 1
    BY <2>2, <1>1, <1>5 DEF Distinct
  <2> QED BY <2>1, <2>2
<1>8. Elements(t) = Elements(s) \union {k}
  <2>1. Elements(t) \subseteq Elements(s) \union {k}
    BY <1>4, <1>5 DEF Elements
  <2>2. Elements(s) \subseteq Elements(t)
    BY <1>4, <1>6 DEF Elements
  <2>3. k \in Elements(t)
    BY <1>1, <1>4, <1>5 DEF Elements
  <2> QED BY <2>1, <2>2, <2>3
<1>9. ASSUME NEW a, NEW b
      PROVE  Before(t, a, b) <=> Before(s, a, b) \/ (a = k /\ b \in Elements(s))
  <2>1. ASSUME Before(t, a, b) PROVE Before(s, a, b) \/ (a = k /\ b \in Elements(s))
    <3>1. PICK i, j \in 1..n : i < j /\ t[i] = a /\ t[j] = b
      BY <2>1, <1>4 DEF Before
    <3>2. CASE i = 1
      BY <3>1, <3>2, <1>5 DEF Elements
    <3>3. CASE i # 1
      <4>1. i - 1 \in 1..Len(s) /\ j - 1 \in 1..Len(s) /\ i - 1 < j - 1
            /\ s[i - 1] = a /\ s[j - 1] = b
        BY <3>1, <3>3, <1>1, <1>5
      <4> QED BY <4>1 DEF Before
    <3> QED BY <3>2, <3>3
  <2>2. ASSUME Before(s, a, b) PROVE Before(t, a, b)
    <3>1. PICK i, j \in 1..Len(s) : i < j /\ s[i] = a /\ s[j] = b
      BY <2>2 DEF Before
    <3>2. i + 1 < j + 1
      BY <3>1
    <3> QED BY <3>1, <3>2, <1>4, <1>6 DEF Before
  <2>3. ASSUME a = k, b \in Elements(s) PROVE Before(t, a, b)
    <3>1. PICK j \in 1..Len(s) : s[j] = b
      BY <2>3 DEF Elements
    <3>2. 1 < j + 1 /\ 1 \in 1..n
      BY <1>1
    <3> QED BY <2>3, <3>1, <3>2, <1>4, <1>5, <1>6 DEF Before
  <2> QED BY <2>1, <2>2, <2>3
<1> QED BY <1>4, <1>7, <1>8, <1>9 DEF t, n

(* MoveToFront, of a key that may be in the list or not.                   *)
LEMMA MoveToFrontProperties ==
  ASSUME NEW s \in Seq(Keys), NEW k \in Keys, Distinct(s)
  PROVE  /\ MoveToFront(s, k) \in Seq(Keys)
         /\ Len(MoveToFront(s, k)) = IF k \in Elements(s) THEN Len(s) ELSE Len(s) + 1
         /\ Distinct(MoveToFront(s, k))
         /\ Elements(MoveToFront(s, k)) = Elements(s) \union {k}
         /\ k \in Elements(s) => Elements(MoveToFront(s, k)) = Elements(s)
         /\ \A a, b : Before(MoveToFront(s, k), a, b) <=>
                        \/ Before(s, a, b) /\ a # k /\ b # k
                        \/ a = k /\ b \in Elements(s) \ {k}
<1> DEFINE t == Without(s, k)
<1>1. /\ t \in Seq(Keys) /\ Distinct(t) /\ Elements(t) = Elements(s) \ {k}
      /\ Len(t) = IF k \in Elements(s) THEN Len(s) - 1 ELSE Len(s)
      /\ \A a, b : Before(t, a, b) <=> Before(s, a, b) /\ a # k /\ b # k
  BY WithoutProperties
<1> HIDE DEF t
<1>2. k \notin Elements(t)
  BY <1>1
<1>3. /\ PushFront(t, k) \in Seq(Keys) /\ Distinct(PushFront(t, k))
      /\ Elements(PushFront(t, k)) = Elements(t) \union {k}
      /\ Len(PushFront(t, k)) = Len(t) + 1
      /\ \A a, b : Before(PushFront(t, k), a, b) <=>
                     Before(t, a, b) \/ (a = k /\ b \in Elements(t))
  BY <1>1, <1>2, PushFrontProperties
<1>4. MoveToFront(s, k) = PushFront(t, k)
  BY DEF MoveToFront, t
<1>5. Len(MoveToFront(s, k)) = IF k \in Elements(s) THEN Len(s) ELSE Len(s) + 1
  BY <1>1, <1>3, <1>4
<1>6. Elements(MoveToFront(s, k)) = (Elements(s) \ {k}) \union {k}
  BY <1>1, <1>3, <1>4
<1>7. Elements(MoveToFront(s, k)) = Elements(s) \union {k}
  BY <1>6
<1>8. k \in Elements(s) => Elements(MoveToFront(s, k)) = Elements(s)
  BY <1>6
<1>9. ASSUME NEW a, NEW b
      PROVE  Before(MoveToFront(s, k), a, b) <=>
               \/ Before(s, a, b) /\ a # k /\ b # k
               \/ a = k /\ b \in Elements(s) \ {k}
  BY <1>1, <1>3, <1>4
<1> QED BY <1>3, <1>4, <1>5, <1>7, <1>8, <1>9

(* The element at the back is behind all others.                           *)
LEMMA BackProperties ==
  ASSUME NEW s \in Seq(Keys), Len(s) > 0
  PROVE  /\ Back(s) \in Keys /\ Back(s) \in Elements(s)
         /\ \A a \in Elements(s) : a # Back(s) => Before(s, a, Back(s))
<1>1. Len(s) \in 1..Len(s)
  OBVIOUS
<1>2. Back(s) \in Keys /\ Back(s) \in Elements(s)
  BY <1>1 DEF Back, Elements
<1>3. ASSUME NEW a \in Elements(s), a # Back(s) PROVE Before(s, a, Back(s))
  <2>1. PICK i \in 1..Len(s) : s[i] = a
    BY DEF Elements
  <2>2. i < Len(s)
    BY <2>1, <1>1, <1>3 DEF Back
  <2> QED BY <1>1, <2>1, <2>2 DEF Before, Back
<1> QED BY <1>2, <1>3

(* A list without repetitions is as long as it has elements.               *)
LEMMA LengthIsCardinality ==
  ASSUME NEW s \in Seq(Keys), Distinct(s)
  PROVE  Cardinality(Elements(s)) = Len(s)
<1> DEFINE n == Len(s)
           f == [i \in 1..n |-> s[i]]
<1>1. n \in Nat
  OBVIOUS
<1>2. f \in Bijection(1..n, Elements(s))
  BY <1>1 DEF Bijection, Injection, Surjection, IsInjective, Elements, Distinct
<1>3. ExistsBijection(1..n, Elements(s))
  BY <1>2 DEF ExistsBijection
<1> QED BY <1>1, <1>3, FS_CountingElements

-----------------------------------------------------------------------------
(* The inductive invariant.  The order of the list is the order of the     *)
(* last uses, restricted to the keys still held.                           *)

Held == {k \in Keys : Present(k)}

Ordered ==
  /\ Distinct(touched)
  /\ Elements(lru) \subseteq Elements(touched)
  /\ \A a, b : Before(lru, a, b) => Before(touched, a, b)

IInv == TypeOK /\ Coherent /\ Ordered

(* What the proofs use of Coherent.                                        *)
LEMMA CoherentFacts ==
  Coherent <=> Held = Elements(lru) /\ Distinct(lru) /\ Len(lru) <= MaxEntries
  BY DEF Coherent, Held, Distinct

(* It holds initially.                                                     *)
LEMMA InitIInv == Init => IInv
<1> SUFFICES ASSUME Init PROVE IInv
  OBVIOUS
<1>1. TypeOK
  BY CacheAssumption DEF Init, TypeOK
<1>2. Held = {} /\ lru = <<>> /\ touched = <<>>
  BY DEF Init, Held, Present
<1>3. Coherent
  BY <1>2, EmptyList, CoherentFacts, CacheAssumption
<1>4. Ordered
  BY <1>2, EmptyList DEF Ordered
<1> QED BY <1>1, <1>3, <1>4 DEF IInv

(* A new entry is one.                                                     *)
LEMMA NewEntryType == ASSUME TypeOK, NEW d \in Data PROVE NewEntry(d) \in Entries
  BY CacheAssumption DEF TypeOK, NewEntry, Entries

(* What a use of k, a hit or a store, does to the order of last uses.      *)
LEMMA TouchKeepsOrder ==
  ASSUME IInv, NEW k \in Keys, Touch(k), NEW l \in Seq(Keys), Distinct(l),
         Elements(l) \subseteq Elements(lru),
         \A a, b : Before(l, a, b) => Before(lru, a, b),
         lru' = MoveToFront(l, k)
  PROVE  Ordered' /\ touched' \in Seq(Keys)
<1>1. touched \in Seq(Keys) /\ Distinct(touched) /\ Elements(lru) \subseteq Elements(touched)
  BY DEF IInv, TypeOK, Ordered
<1>2. touched' \in Seq(Keys) /\ Distinct(touched')
      /\ Elements(touched') = Elements(touched) \union {k}
  BY <1>1, MoveToFrontProperties DEF Touch
<1>3. Elements(lru') = Elements(l) \union {k}
  BY MoveToFrontProperties
<1>4. ASSUME NEW a, NEW b, Before(lru', a, b) PROVE Before(touched', a, b)
  <2>1. \/ Before(l, a, b) /\ a # k /\ b # k
        \/ a = k /\ b \in Elements(l) \ {k}
    BY <1>4, MoveToFrontProperties
  <2>2. \/ Before(touched, a, b) /\ a # k /\ b # k
        \/ a = k /\ b \in Elements(touched) \ {k}
    BY <1>1, <2>1 DEF IInv, Ordered
  <2> QED BY <1>1, <2>2, MoveToFrontProperties DEF Touch
<1> QED BY <1>1, <1>2, <1>3, <1>4 DEF Ordered

-----------------------------------------------------------------------------
(* One lemma for each kind of step on the two structures.                  *)

(* A hit.                                                                  *)
LEMMA HitStep ==
  ASSUME IInv, NEW r \in Readers, NEW k \in Keys, GetHit(r, k)
  PROVE  IInv'
<1>1. lru \in Seq(Keys) /\ Distinct(lru) /\ k \in Elements(lru) /\ Held = Elements(lru)
  BY CoherentFacts DEF IInv, TypeOK, GetHit, Held
<1>2. Ordered' /\ touched' \in Seq(Keys)
  BY <1>1, TouchKeepsOrder DEF GetHit
<1>3. lru' \in Seq(Keys) /\ Distinct(lru') /\ Elements(lru') = Elements(lru) /\ Len(lru') = Len(lru)
  BY <1>1, MoveToFrontProperties DEF GetHit
<1>4. TypeOK'
  BY <1>2, <1>3, NoneIsNoEntry DEF IInv, TypeOK, GetHit, Present, Entries
<1>5. Held' = Held
  BY DEF GetHit, Held, Present
<1>6. Coherent'
  BY <1>1, <1>3, <1>5, CoherentFacts DEF IInv, Coherent, Held, Distinct
<1> QED BY <1>2, <1>4, <1>6 DEF IInv

(* A lookup that finds an expired entry.                                   *)
LEMMA ExpiredStep ==
  ASSUME IInv, NEW r \in Readers, NEW k \in Keys, GetExpired(r, k)
  PROVE  IInv'
<1>1. lru \in Seq(Keys) /\ Distinct(lru) /\ Held = Elements(lru) /\ Len(lru) <= MaxEntries
      /\ Len(lru) \in Nat
  BY CoherentFacts DEF IInv, TypeOK
<1>2. /\ lru' \in Seq(Keys) /\ Distinct(lru') /\ Elements(lru') = Elements(lru) \ {k}
      /\ Len(lru') <= Len(lru) /\ Len(lru') \in Nat
      /\ \A a, b : Before(lru', a, b) => Before(lru, a, b)
  BY <1>1, WithoutProperties DEF GetExpired
<1>3. TypeOK'
  BY <1>2 DEF IInv, TypeOK, GetExpired
<1>4. Held' = Held \ {k}
  BY DEF IInv, TypeOK, GetExpired, Held, Present
<1>5. Coherent'
  BY <1>1, <1>2, <1>4, CacheAssumption DEF Coherent, Held, Distinct
<1>6. Ordered'
  BY <1>2 DEF IInv, Ordered, GetExpired
<1> QED BY <1>3, <1>5, <1>6 DEF IInv

(* A store under a key that has an entry.                                  *)
LEMMA ExistingStep ==
  ASSUME IInv, NEW r \in Readers, NEW d \in Data, SetExisting(r, d)
  PROVE  IInv'
<1> DEFINE k == doing[r]
<1>1. k \in Keys /\ k \in Held
  BY DEF IInv, TypeOK, SetExisting, Finishes, Held
<1>2. lru \in Seq(Keys) /\ Distinct(lru) /\ k \in Elements(lru) /\ Held = Elements(lru)
  BY <1>1, CoherentFacts DEF IInv, TypeOK
<1>3. Ordered' /\ touched' \in Seq(Keys)
  BY <1>1, <1>2, TouchKeepsOrder DEF SetExisting
<1>4. lru' \in Seq(Keys) /\ Distinct(lru') /\ Elements(lru') = Elements(lru) /\ Len(lru') = Len(lru)
  BY <1>1, <1>2, MoveToFrontProperties DEF SetExisting
<1>5. TypeOK'
  BY <1>1, <1>3, <1>4, NewEntryType DEF IInv, TypeOK, SetExisting, Finishes
<1>6. Held' = Held
  BY <1>1, NewEntryType, NoneIsNoEntry DEF IInv, TypeOK, SetExisting, Held, Present
<1>7. Coherent'
  BY <1>2, <1>4, <1>6, CoherentFacts DEF IInv, Coherent, Held, Distinct
<1> QED BY <1>3, <1>5, <1>7 DEF IInv

(* What SetNew and SetEvicting have in common: l is the list with the room *)
(* made, m the map.                                                        *)
LEMMA InsertStep ==
  ASSUME IInv, NEW r \in Readers, NEW d \in Data, NEW l \in Seq(Keys),
         NEW m \in [Keys -> Entries \union {None}],
         Finishes(r), ~Present(doing[r]), UNCHANGED <<clock, answer>>,
         Distinct(l), Elements(l) \subseteq Elements(lru), Len(l) < MaxEntries,
         \A a, b : Before(l, a, b) => Before(lru, a, b),
         {x \in Keys : m[x] # None} = Elements(l),
         items' = [m EXCEPT ![doing[r]] = NewEntry(d)],
         lru' = PushFront(l, doing[r]), Touch(doing[r])
  PROVE  IInv'
<1> DEFINE k == doing[r]
<1>1. k \in Keys /\ k \notin Elements(lru) /\ k \notin Elements(l)
  BY CoherentFacts DEF IInv, TypeOK, Finishes, Held
<1>2. /\ lru' \in Seq(Keys) /\ Distinct(lru') /\ Elements(lru') = Elements(l) \union {k}
      /\ Len(lru') = Len(l) + 1
  BY <1>1, PushFrontProperties
<1>3. lru' = MoveToFront(l, k)
  BY <1>1 DEF MoveToFront, Without
<1>4. Ordered' /\ touched' \in Seq(Keys)
  BY <1>1, <1>3, TouchKeepsOrder
<1>5. TypeOK'
  BY <1>1, <1>2, <1>4, NewEntryType DEF IInv, TypeOK, Finishes
<1>6. Held' = Elements(l) \union {k}
  <2>1. NewEntry(d) # None
    BY NewEntryType, NoneIsNoEntry DEF IInv
  <2>2. \A x \in Keys : items'[x] = IF x = k THEN NewEntry(d) ELSE m[x]
    OBVIOUS
  <2> QED BY <1>1, <2>1, <2>2 DEF Held, Present
<1>7. Coherent'
  BY <1>2, <1>6, CacheAssumption DEF Coherent, Held, Distinct
<1> QED BY <1>4, <1>5, <1>7 DEF IInv

(* A store under a new key with room to spare.                             *)
LEMMA NewStep ==
  ASSUME IInv, NEW r \in Readers, NEW d \in Data, SetNew(r, d)
  PROVE  IInv'
<1>1. lru \in Seq(Keys) /\ Distinct(lru) /\ {x \in Keys : items[x] # None} = Elements(lru)
  BY CoherentFacts DEF IInv, TypeOK, Held, Present
<1>2. items \in [Keys -> Entries \union {None}]
  BY DEF IInv, TypeOK
<1> QED BY <1>1, <1>2, InsertStep DEF SetNew

(* A list at its limit is full, and its last key goes.                     *)
LEMMA FullList ==
  ASSUME IInv, Len(lru) >= MaxEntries
  PROVE  /\ lru \in Seq(Keys) /\ Distinct(lru) /\ Held = Elements(lru)
         /\ Len(lru) = MaxEntries /\ Len(lru) > 0
         /\ Back(lru) \in Held
         /\ \A a \in Held : a # Back(lru) => Before(lru, a, Back(lru))
<1>1. /\ lru \in Seq(Keys) /\ Distinct(lru) /\ Held = Elements(lru)
      /\ Len(lru) <= MaxEntries /\ Len(lru) \in Nat
  BY CoherentFacts DEF IInv, TypeOK
<1>2. Len(lru) = MaxEntries /\ Len(lru) > 0
  BY <1>1, CacheAssumption
<1> QED BY <1>1, <1>2, BackProperties

(* A store under a new key that evicts another.                            *)
LEMMA EvictingStep ==
  ASSUME IInv, NEW r \in Readers, NEW d \in Data, SetEvicting(r, d)
  PROVE  IInv'
<1> DEFINE v == Back(lru)
           l == Without(lru, v)
           m == [items EXCEPT ![v] = None]
<1>1. Len(lru) >= MaxEntries
  BY DEF SetEvicting
<1>2. /\ v \in Keys /\ v \in Elements(lru) /\ Held = Elements(lru)
      /\ lru \in Seq(Keys) /\ Distinct(lru) /\ Len(lru) = MaxEntries
  BY <1>1, FullList DEF Held
<1>3. /\ l \in Seq(Keys) /\ Distinct(l) /\ Elements(l) = Elements(lru) \ {v}
      /\ Len(l) = Len(lru) - 1
      /\ \A a, b : Before(l, a, b) => Before(lru, a, b)
  BY <1>2, WithoutProperties
<1>4. Len(l) < MaxEntries
  BY <1>2, <1>3, CacheAssumption
<1>5. m \in [Keys -> Entries \union {None}]
  BY DEF IInv, TypeOK
<1>6. {x \in Keys : m[x] # None} = Elements(l)
  BY <1>2, <1>3 DEF IInv, TypeOK, Held, Present
<1>7. items' = [m EXCEPT ![doing[r]] = NewEntry(d)]
  BY DEF SetEvicting
<1> HIDE DEF l, m, v
<1>8. lru' = PushFront(l, doing[r])
  BY DEF SetEvicting, l, v
<1> QED BY <1>3, <1>4, <1>5, <1>6, <1>7, <1>8, InsertStep DEF SetEvicting

(* A step that leaves the two structures and the history alone.            *)
LEMMA AsideStep == ASSUME IInv, UNCHANGED <<items, lru, touched>> PROVE Coherent' /\ Ordered'
<1>1. Coherent'
  BY DEF IInv, Coherent, Present, Elements
<1>2. Elements(lru') = Elements(lru) /\ Elements(touched') = Elements(touched)
  BY DEF Elements
<1>3. Distinct(touched') <=> Distinct(touched)
  BY DEF Distinct
<1>4. \A a, b : (Before(lru', a, b) <=> Before(lru, a, b))
               /\ (Before(touched', a, b) <=> Before(touched, a, b))
  BY DEF Before
<1>5. Ordered'
  BY <1>2, <1>3, <1>4 DEF IInv, Ordered
<1> QED BY <1>1, <1>5

(* Every step keeps the invariant.                                         *)
LEMMA NextIInv == IInv /\ [Next]_vars => IInv'
<1> SUFFICES ASSUME IInv, [Next]_vars PROVE IInv'
  OBVIOUS
<1>1. ASSUME NEW r \in Readers, NEW k \in Keys, GetHit(r, k) PROVE IInv'
  BY <1>1, HitStep
<1>2. ASSUME NEW r \in Readers, NEW k \in Keys, GetExpired(r, k) PROVE IInv'
  BY <1>2, ExpiredStep
<1>3. ASSUME NEW r \in Readers, NEW k \in Keys, GetAbsent(r, k) PROVE IInv'
  <2>1. UNCHANGED <<items, lru, touched>>
    BY <1>3 DEF GetAbsent, cache
  <2>2. TypeOK'
    BY <1>3, <2>1 DEF IInv, TypeOK, GetAbsent
  <2> QED BY <2>1, <2>2, AsideStep DEF IInv
<1>4. ASSUME NEW r \in Readers, NEW d \in Data, SetExisting(r, d) PROVE IInv'
  BY <1>4, ExistingStep
<1>5. ASSUME NEW r \in Readers, NEW d \in Data, SetNew(r, d) PROVE IInv'
  BY <1>5, NewStep
<1>6. ASSUME NEW r \in Readers, NEW d \in Data, SetEvicting(r, d) PROVE IInv'
  BY <1>6, EvictingStep
<1>7. ASSUME NEW r \in Readers, Fails(r) PROVE IInv'
  <2>1. UNCHANGED <<items, lru, touched>>
    BY <1>7 DEF Fails, cache
  <2>2. TypeOK'
    BY <1>7, <2>1 DEF IInv, TypeOK, Fails, Finishes
  <2> QED BY <2>1, <2>2, AsideStep DEF IInv
<1>8. CASE Flush
  <2>1. lru' = <<>> /\ Held' = {} /\ touched' = touched
    BY <1>8 DEF Flush, Held, Present
  <2>2. TypeOK'
    BY <1>8 DEF Flush, IInv, TypeOK
  <2>3. Elements(lru') = {} /\ Distinct(lru') /\ Len(lru') <= MaxEntries
    BY <2>1, EmptyList, CacheAssumption
  <2>4. Coherent'
    BY <2>1, <2>3 DEF Coherent, Held, Distinct
  <2>5. Ordered'
    BY <2>1, EmptyList DEF IInv, Ordered
  <2> QED BY <2>2, <2>4, <2>5 DEF IInv
<1>9. CASE Tick
  <2>1. UNCHANGED <<items, lru, touched>>
    BY <1>9 DEF Tick, cache
  <2>2. TypeOK'
    BY <1>9, <2>1, CacheAssumption DEF IInv, TypeOK, Tick
  <2> QED BY <2>1, <2>2, AsideStep DEF IInv
<1>10. CASE UNCHANGED vars
  <2>1. TypeOK' /\ UNCHANGED <<items, lru, touched>>
    BY <1>10 DEF vars, cache, IInv, TypeOK
  <2> QED BY <2>1, AsideStep DEF IInv
<1> QED BY <1>1, <1>2, <1>3, <1>4, <1>5, <1>6, <1>7, <1>8, <1>9, <1>10 DEF Next

(* The invariant holds in every reachable state.                           *)
THEOREM Inductive == Spec => []IInv
  BY InitIInv, NextIInv, PTL DEF Spec

(* Every variable keeps its type (cache.go, graphql.go).                   *)
THEOREM TypeCorrect == Spec => []TypeOK
<1>1. IInv => TypeOK
  BY DEF IInv
<1> QED BY Inductive, <1>1, PTL

(* The cache's map and list hold the same keys, once each, and never more  *)
(* than the limit, after any sequence of Get, SetTTL and Flush.            *)
THEOREM AlwaysCoherent == Spec => []Coherent
<1>1. IInv => Coherent
  BY DEF IInv
<1> QED BY Inductive, <1>1, PTL

(* SetTTL evicts the key whose last use is the longest ago.                *)
THEOREM EvictionIsLRU == Spec => EvictsLeastRecentlyUsed
<1> DEFINE Evicts == \A v, k \in Keys :
             (\E r \in Readers, d \in Data : SetEvicting(r, d)) /\ Present(v) /\ items'[v] = None
               /\ Present(k) /\ k # v
             => Before(touched, k, v)
<1>1. IInv => Evicts
  <2> SUFFICES ASSUME IInv, NEW v \in Keys, NEW k \in Keys, Present(v), items'[v] = None,
                      Present(k), k # v, NEW r \in Readers, NEW d \in Data, SetEvicting(r, d)
               PROVE  Before(touched, k, v)
    OBVIOUS
  <2>1. Back(lru) \in Held /\ \A a \in Held : a # Back(lru) => Before(lru, a, Back(lru))
    BY FullList DEF SetEvicting
  <2>2. v = Back(lru)
    <3>1. NewEntry(d) # None
      BY NewEntryType, NoneIsNoEntry DEF IInv
    <3>2. items \in [Keys -> Entries \union {None}]
      BY DEF IInv, TypeOK
    <3>3. v # doing[r]
      BY DEF SetEvicting
    <3>4. v # Back(lru) => items'[v] = items[v]
      BY <3>2, <3>3 DEF SetEvicting
    <3> QED BY <3>4 DEF Present
  <2>3. Before(lru, k, v)
    BY <2>1, <2>2 DEF Held
  <2> QED BY <2>3 DEF IInv, Ordered
<1> QED BY Inductive, <1>1, PTL DEF EvictsLeastRecentlyUsed

-----------------------------------------------------------------------------
(* Refinement.                                                             *)

(* The map holds as many keys as the list is long.                         *)
LEMMA HeldIsLength == IInv => Store!Cardinality(Store!Held) = Len(lru) /\ Store!Held = Held
<1> SUFFICES ASSUME IInv PROVE Store!Cardinality(Store!Held) = Len(lru) /\ Store!Held = Held
  OBVIOUS
<1>0. Store!Cardinality(Held) = Cardinality(Held)
  BY DEF Store!Cardinality, Cardinality
<1>1. Store!Held = Held
  BY DEF Store!Held, Held, Present
<1>2. Held = Elements(lru) /\ Distinct(lru) /\ lru \in Seq(Keys)
  BY CoherentFacts DEF IInv, TypeOK
<1> QED BY <1>0, <1>1, <1>2, LengthIsCardinality

(* Every step of the cache is a step of the store, or none.                *)
LEMMA StoreStep == IInv /\ [Next]_vars => [Store!Next]_(Store!vars)
<1> SUFFICES ASSUME IInv, [Next]_vars PROVE [Store!Next]_(Store!vars)
  OBVIOUS
<1>a. items \in [Keys -> Entries \union {None}]
  BY DEF IInv, TypeOK
<1>1. ASSUME NEW r \in Readers, NEW k \in Keys, GetHit(r, k) PROVE Store!Hit(r, k)
  <2>1. clock \in Nat /\ items[k].expires \in Nat
    BY <1>1, <1>a, CacheAssumption DEF IInv, TypeOK, GetHit, Present, Entries
  <2> QED BY <1>1, <2>1 DEF GetHit, Store!Hit, Present, Expired
<1>2. ASSUME NEW r \in Readers, NEW k \in Keys, GetExpired(r, k) PROVE Store!Miss(r, k)
  BY <1>2 DEF GetExpired, Store!Miss, Present, Expired
<1>3. ASSUME NEW r \in Readers, NEW k \in Keys, GetAbsent(r, k) PROVE Store!Miss(r, k)
  <2>1. items[k] = None /\ items' = items
    BY <1>3 DEF GetAbsent, Present, cache
  <2>2. items' = [items EXCEPT ![k] = None]
    BY <1>a, <2>1
  <2> QED BY <1>3, <2>1, <2>2 DEF GetAbsent, Store!Miss
<1>4. ASSUME NEW r \in Readers, NEW d \in Data, SetExisting(r, d)
      PROVE  doing[r] \in Keys /\ Store!Put(doing[r], d)
  <2>1. doing[r] \in Keys
    BY <1>4 DEF IInv, TypeOK, SetExisting, Finishes
  <2> QED BY <1>4, <2>1 DEF SetExisting, Store!Put, Store!Held, Present, NewEntry, Store!Entry
<1>5. ASSUME NEW r \in Readers, NEW d \in Data, SetNew(r, d)
      PROVE  doing[r] \in Keys /\ Store!Put(doing[r], d)
  <2>1. doing[r] \in Keys
    BY <1>5 DEF IInv, TypeOK, SetNew, Finishes
  <2>2. Store!Cardinality(Store!Held) < MaxEntries
    BY <1>5, HeldIsLength DEF SetNew
  <2> QED BY <1>5, <2>1, <2>2 DEF SetNew, Store!Put, NewEntry, Store!Entry
<1>6. ASSUME NEW r \in Readers, NEW d \in Data, SetEvicting(r, d)
      PROVE  /\ doing[r] \in Keys /\ Back(lru) \in Keys
             /\ Store!PutInPlaceOf(doing[r], Back(lru), d)
  <2>1. doing[r] \in Keys /\ doing[r] \notin Store!Held
    BY <1>6 DEF IInv, TypeOK, SetEvicting, Finishes, Store!Held, Present
  <2>2. Len(lru) = MaxEntries /\ Back(lru) \in Held
    BY <1>6, FullList DEF SetEvicting
  <2>3. Store!Cardinality(Store!Held) = MaxEntries /\ Back(lru) \in Store!Held /\ Back(lru) \in Keys
    BY <2>2, HeldIsLength DEF Held
  <2>4. items' = [items EXCEPT ![doing[r]] = NewEntry(d), ![Back(lru)] = None]
    BY <1>6, <1>a, <2>1, <2>3 DEF SetEvicting
  <2> QED BY <1>6, <2>1, <2>3, <2>4 DEF SetEvicting, Store!PutInPlaceOf, NewEntry, Store!Entry
<1>7. ASSUME NEW r \in Readers, Fails(r) PROVE UNCHANGED Store!vars
  BY <1>7 DEF Fails, Store!vars, cache
<1>8. CASE Flush
  BY <1>8 DEF Flush, Store!Clear, Store!Next
<1>9. CASE Tick
  BY <1>9 DEF Tick, Store!Tick, Store!Next, cache
<1>10. CASE UNCHANGED vars
  BY <1>10 DEF vars, cache, Store!vars
<1> QED BY <1>1, <1>2, <1>3, <1>4, <1>5, <1>6, <1>7, <1>8, <1>9, <1>10 DEF Next, Store!Next

(* cache.go implements the bounded store with a time to live.              *)
THEOREM Refinement == Spec => ImplementsStore
<1>1. Init => Store!Init
  BY DEF Init, Store!Init
<1> QED BY <1>1, StoreStep, Inductive, PTL DEF Spec, ImplementsStore, Store!Spec
=============================================================================
