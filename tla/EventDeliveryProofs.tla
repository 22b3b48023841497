------------------------ MODULE EventDeliveryProofs ------------------------
(***************************************************************************)
(* What a node tells its program.                                          *)
(*                                                                         *)
(* EventDelivery: its invariants, for any number of channels, authors,     *)
(* records and publishers and for any bounds.  Together they are           *)
(* inductive.                                                              *)
(***************************************************************************)
EXTENDS EventDelivery, FiniteSetTheorems, TLAPS

-----------------------------------------------------------------------------
(* What KeepAt returns, for every sequence and every set of positions      *)

(* Ranks are positive, at most the number of positions, and strictly       *)
(* increasing.                                                             *)
LEMMA RankProperties ==
  ASSUME NEW n \in Nat, NEW I \in SUBSET (1..n)
  PROVE  /\ IsFiniteSet(I)
         /\ Cardinality(I) \in 0..n
         /\ \A i \in I : Rank(I, i) \in 1..Cardinality(I)
         /\ \A i, j \in I : i < j => Rank(I, i) < Rank(I, j)
<1>1. /\ IsFiniteSet(1..n)
      /\ Cardinality(1..n) = n
  BY FS_Interval
<1>2. /\ IsFiniteSet(I)
      /\ Cardinality(I) \in 0..n
  <2>1. IsFiniteSet(I) /\ Cardinality(I) <= n
    BY <1>1, FS_Subset
  <2>2. Cardinality(I) \in Nat
    BY <2>1, FS_CardinalityType
  <2> QED
    BY <2>1, <2>2
<1> DEFINE upTo(i) == {j \in I : j <= i}
<1>3. ASSUME NEW i \in I
      PROVE  /\ IsFiniteSet(upTo(i))
             /\ Cardinality(upTo(i)) \in 1..Cardinality(I)
  <2>1. upTo(i) \in SUBSET I /\ i \in upTo(i)
    OBVIOUS
  <2>2. /\ IsFiniteSet(upTo(i))
        /\ Cardinality(upTo(i)) <= Cardinality(I)
    BY <1>2, <2>1, FS_Subset
  <2>3. Cardinality(upTo(i)) \in Nat /\ Cardinality(upTo(i)) # 0
    BY <2>1, <2>2, FS_CardinalityType, FS_EmptySet
  <2> QED
    BY <1>2, <2>2, <2>3
<1>4. ASSUME NEW i \in I, NEW j \in I, i < j
      PROVE  Cardinality(upTo(i)) < Cardinality(upTo(j))
  <2>1. upTo(i) \in SUBSET upTo(j) /\ j \in upTo(j) /\ j \notin upTo(i)
    <3>1. \A m \in I : m \in Int
      OBVIOUS
    <3>2. \A m \in I : m <= i => m <= j
      BY <1>4, <3>1
    <3>3. j <= j /\ ~(j <= i)
      BY <1>4, <3>1
    <3> QED
      BY <3>2, <3>3
  <2>2. /\ Cardinality(upTo(i)) <= Cardinality(upTo(j))
        /\ Cardinality(upTo(i)) # Cardinality(upTo(j))
    <3>1. IsFiniteSet(upTo(j))
      BY <1>3
    <3>2. upTo(i) # upTo(j)
      BY <2>1
    <3> HIDE DEF upTo
    <3> QED
      BY <2>1, <3>1, <3>2, FS_Subset
  <2> QED
    BY <1>2, <1>3, <2>2
<1> QED
  BY <1>2, <1>3, <1>4 DEF Rank

(* Every rank up to the number of positions belongs to exactly one         *)
(* position: ranks are an injection between sets of the same size.         *)
LEMMA PositionProperties ==
  ASSUME NEW n \in Nat, NEW I \in SUBSET (1..n)
  PROVE  /\ \A k \in 1..Cardinality(I) : Position(I, k) \in I /\ Rank(I, Position(I, k)) = k
         /\ \A i \in I : Position(I, Rank(I, i)) = i
<1> DEFINE rank == [i \in I |-> Rank(I, i)]
           N == Cardinality(I)
<1>1. N \in Nat /\ IsFiniteSet(I) /\ \A i \in I : Rank(I, i) \in 1..N
  BY RankProperties
<1>2. \A i, j \in I : i # j => Rank(I, i) # Rank(I, j)
  <2> SUFFICES ASSUME NEW i \in I, NEW j \in I, i # j
               PROVE  Rank(I, i) # Rank(I, j)
    OBVIOUS
  <2>1. Rank(I, i) < Rank(I, j) \/ Rank(I, j) < Rank(I, i)
    <3>1. i \in Int /\ j \in Int
      OBVIOUS
    <3>2. i < j \/ j < i
      BY <3>1
    <3> QED
      BY <3>2, RankProperties
  <2> QED
    BY <1>1, <2>1
<1>3. rank \in Injection(I, 1..N)
  <2>1. rank \in [I -> 1..N]
    BY <1>1
  <2> QED
    BY <1>2, <2>1 DEF Injection, IsInjective
<1>4. IsFiniteSet(1..N) /\ Cardinality(1..N) = N
  BY <1>1, FS_Interval
<1>5. rank \in Surjection(I, 1..N)
  BY <1>3, <1>4, FS_Injection
<1>6. \A k \in 1..N : \E i \in I : Rank(I, i) = k
  BY <1>5 DEF Surjection
<1> QED
  BY <1>1, <1>2, <1>6 DEF Position

(* A subsequence of a sequence over S is a sequence over S, no longer than *)
(* the original, whose elements are exactly those at the kept positions.   *)
THEOREM KeepAtProperties ==
  ASSUME NEW S, NEW q \in Seq(S), NEW I \in SUBSET (DOMAIN q)
  PROVE  /\ KeepAt(q, I) \in Seq(S)
         /\ Len(KeepAt(q, I)) = Cardinality(I)
         /\ Len(KeepAt(q, I)) \in 0..Len(q)
         /\ \A k \in 1..Len(KeepAt(q, I)) :
              /\ Position(I, k) \in I
              /\ KeepAt(q, I)[k] = q[Position(I, k)]
         /\ \A i \in I : \E k \in 1..Len(KeepAt(q, I)) : Position(I, k) = i
<1>1. Len(q) \in Nat /\ DOMAIN q = 1..Len(q) /\ I \in SUBSET (1..Len(q))
  OBVIOUS
<1>2. Cardinality(I) \in 0..Len(q)
  BY <1>1, RankProperties
<1>3. \A k \in 1..Cardinality(I) : Position(I, k) \in I
  BY <1>1, PositionProperties
<1>4. KeepAt(q, I) \in Seq(S) /\ Len(KeepAt(q, I)) = Cardinality(I)
  BY <1>1, <1>2, <1>3 DEF KeepAt
<1>5. \A i \in I : Rank(I, i) \in 1..Cardinality(I) /\ Position(I, Rank(I, i)) = i
  BY <1>1, RankProperties, PositionProperties
<1> QED
  BY <1>2, <1>3, <1>4, <1>5 DEF KeepAt

(* Positions keep their order: the k-th kept position is before the l-th.  *)
LEMMA PositionMonotonic ==
  ASSUME NEW n \in Nat, NEW I \in SUBSET (1..n),
         NEW k \in 1..Cardinality(I), NEW l \in 1..Cardinality(I), k < l
  PROVE  Position(I, k) < Position(I, l)
<1>1. /\ Position(I, k) \in I /\ Rank(I, Position(I, k)) = k
      /\ Position(I, l) \in I /\ Rank(I, Position(I, l)) = l
  BY PositionProperties
<1>2. \A i, j \in I : i < j => Rank(I, i) < Rank(I, j)
  BY RankProperties
<1>3. Position(I, k) \in Int /\ Position(I, l) \in Int /\ k \in Int /\ l \in Int
  <2>1. Cardinality(I) \in 0..n
    BY RankProperties
  <2>2. Cardinality(I) \in Int /\ k \in Int /\ l \in Int
    BY <2>1
  <2>3. \A i \in I : i \in Int
    OBVIOUS
  <2> QED
    BY <1>1, <2>2, <2>3
<1>4. CASE Position(I, l) = Position(I, k)
  BY <1>1, <1>4
<1>5. CASE Position(I, l) < Position(I, k)
  <2>1. Rank(I, Position(I, l)) < Rank(I, Position(I, k))
    BY <1>1, <1>2, <1>5
  <2> QED
    BY <1>1, <1>3, <2>1
<1> QED
  BY <1>3, <1>4, <1>5

(* A kept first element stays first.                                       *)
THEOREM KeepAtHead ==
  ASSUME NEW S, NEW q \in Seq(S), NEW I \in SUBSET (DOMAIN q), 1 \in I
  PROVE  /\ Len(KeepAt(q, I)) >= 1
         /\ Position(I, 1) = 1
         /\ KeepAt(q, I)[1] = q[1]
<1>1. Len(q) \in Nat /\ I \in SUBSET (1..Len(q))
  OBVIOUS
<1>2. \E k \in 1..Len(KeepAt(q, I)) : Position(I, k) = 1
  BY KeepAtProperties
<1>3. PICK k \in 1..Len(KeepAt(q, I)) : Position(I, k) = 1
  BY <1>2
<1>4. Len(KeepAt(q, I)) = Cardinality(I) /\ Cardinality(I) \in Nat
  BY <1>1, KeepAtProperties, RankProperties
<1>5. Position(I, 1) \in I
  <2>1. 1 \in 1..Cardinality(I)
    BY <1>4
  <2> QED
    BY <1>1, <2>1, PositionProperties
<1>6. ~(1 < k)
  <2> SUFFICES ASSUME 1 < k PROVE FALSE
    OBVIOUS
  <2>1. 1 \in 1..Cardinality(I) /\ k \in 1..Cardinality(I)
    BY <1>3, <1>4
  <2>2. Position(I, 1) < Position(I, k)
    BY <1>1, <2>1, PositionMonotonic
  <2> QED
    BY <1>1, <1>3, <1>5, <2>2
<1> QED
  BY <1>3, <1>4, <1>6, KeepAtProperties

-----------------------------------------------------------------------------
(* Queues of events                                                        *)

(* An acknowledgement can only be first, so the records of a queue are all *)
(* of it or all but its head.                                              *)
LEMMA RecordCount ==
  ASSUME NEW q \in Seq(Events), \A i \in DOMAIN q : q[i] = Cleared => i = 1
  PROVE  /\ Cardinality(RecordsAt(q)) \in Nat
         /\ q # << >> /\ q[1] = Cleared =>
              RecordsAt(q) = 2..Len(q) /\ Cardinality(RecordsAt(q)) = Len(q) - 1
         /\ q = << >> \/ q[1] # Cleared =>
              RecordsAt(q) = 1..Len(q) /\ Cardinality(RecordsAt(q)) = Len(q)
<1>1. Len(q) \in Nat /\ DOMAIN q = 1..Len(q)
  OBVIOUS
<1>2. CASE q # << >> /\ q[1] = Cleared
  <2>1. RecordsAt(q) = 2..Len(q) /\ Len(q) >= 1
    BY <1>1, <1>2 DEF RecordsAt
  <2>2. Cardinality(2..Len(q)) = Len(q) - 1
    BY <1>1, <2>1, FS_Interval
  <2> QED
    BY <1>1, <1>2, <2>1, <2>2
<1>3. CASE q = << >> \/ q[1] # Cleared
  <2>1. RecordsAt(q) = 1..Len(q)
    BY <1>1, <1>3 DEF RecordsAt
  <2>2. \A n \in Nat : Cardinality(1..n) = n
    BY FS_Interval
  <2>3. Cardinality(RecordsAt(q)) = Len(q)
    BY <1>1, <2>1, <2>2
  <2> QED
    BY <1>1, <1>3, <2>1, <2>3
<1> QED
  BY <1>2, <1>3

(* A subsequence of a well-formed queue is well-formed: the distinctness   *)
(* and the place of the acknowledgement carry over.                        *)
LEMMA KeepAtShape ==
  ASSUME NEW q \in Seq(Events), WellFormed(q), NEW I \in SUBSET (DOMAIN q)
  PROVE  /\ KeepAt(q, I) \in Seq(Events)
         /\ \A i, j \in DOMAIN KeepAt(q, I) : KeepAt(q, I)[i] = KeepAt(q, I)[j] => i = j
         /\ \A i \in DOMAIN KeepAt(q, I) : KeepAt(q, I)[i] = Cleared => i = 1
         /\ Range(KeepAt(q, I)) = {q[i] : i \in I}
<1> DEFINE k == KeepAt(q, I)
<1>1. /\ k \in Seq(Events)
      /\ Len(k) = Cardinality(I)
      /\ \A i \in 1..Len(k) : Position(I, i) \in I /\ k[i] = q[Position(I, i)]
      /\ \A i \in I : \E j \in 1..Len(k) : Position(I, j) = i
  BY KeepAtProperties
<1>2. DOMAIN k = 1..Len(k) /\ Len(k) \in Nat
  BY <1>1
<1>3. Len(q) \in Nat /\ DOMAIN q = 1..Len(q) /\ I \in SUBSET (1..Len(q))
  OBVIOUS
<1>4. \A i, j \in 1..Len(k) : i < j => Position(I, i) < Position(I, j)
  BY <1>1, <1>3, PositionMonotonic
<1>5. \A i \in 1..Len(k) : Position(I, i) \in 1..Len(q)
  BY <1>1, <1>3
<1> HIDE DEF k
<1>6. ASSUME NEW i \in 1..Len(k), NEW j \in 1..Len(k), k[i] = k[j]
      PROVE  i = j
  <2>1. Position(I, i) = Position(I, j)
    BY <1>1, <1>3, <1>5, <1>6 DEF WellFormed
  <2> QED
    BY <1>2, <1>4, <1>5, <2>1
<1>7. ASSUME NEW i \in 1..Len(k), k[i] = Cleared
      PROVE  i = 1
  <2>1. Position(I, i) = 1
    BY <1>1, <1>3, <1>5, <1>7 DEF WellFormed
  <2>2. 1 \in 1..Len(k) /\ Position(I, 1) \in 1..Len(q)
    BY <1>2, <1>5
  <2>3. ~(1 < i)
    BY <1>4, <2>1, <2>2
  <2> QED
    BY <1>2, <2>3
<1>8. Range(k) = {q[i] : i \in I}
  BY <1>1, <1>2 DEF Range
<1> QED
  BY <1>1, <1>2, <1>6, <1>7, <1>8 DEF k

(* Dropping the oldest record leaves one record less and the               *)
(* acknowledgement, if any.                                                *)
LEMMA DropOldest ==
  ASSUME NEW q \in Seq(Events), WellFormed(q), RecordsAt(q) # {}
  PROVE  /\ DropAt(q, OldestRecord(q)) \in Seq(Events)
         /\ WellFormed(DropAt(q, OldestRecord(q)))
         /\ Cardinality(RecordsAt(DropAt(q, OldestRecord(q)))) = Cardinality(RecordsAt(q)) - 1
         /\ Range(DropAt(q, OldestRecord(q))) \subseteq Range(q)
         /\ Cleared \in Range(q) => Cleared \in Range(DropAt(q, OldestRecord(q)))
<1> DEFINE o == OldestRecord(q)
           I == DOMAIN q \ {o}
           k == KeepAt(q, I)
<1>1. Len(q) \in Nat /\ DOMAIN q = 1..Len(q)
  OBVIOUS
<1>2. \A i \in DOMAIN q : q[i] = Cleared => i = 1
  BY DEF WellFormed
<1>3. /\ Cardinality(RecordsAt(q)) \in Nat
      /\ q # << >> /\ q[1] = Cleared =>
           RecordsAt(q) = 2..Len(q) /\ Cardinality(RecordsAt(q)) = Len(q) - 1
      /\ q = << >> \/ q[1] # Cleared =>
           RecordsAt(q) = 1..Len(q) /\ Cardinality(RecordsAt(q)) = Len(q)
  BY <1>2, RecordCount
<1>4. q # << >> /\ Len(q) >= 1
  BY <1>1 DEF RecordsAt
<1>5. o = IF q[1] = Cleared THEN 2 ELSE 1
  <2>1. o \in RecordsAt(q) /\ \A j \in RecordsAt(q) : o <= j
    <3>1. CASE q[1] = Cleared
      <4>1. 2 \in RecordsAt(q) /\ \A j \in RecordsAt(q) : 2 <= j
        BY <1>1, <1>3, <1>4, <3>1
      <4> QED
        BY <4>1 DEF OldestRecord
    <3>2. CASE q[1] # Cleared
      <4>1. 1 \in RecordsAt(q) /\ \A j \in RecordsAt(q) : 1 <= j
        BY <1>1, <1>3, <1>4, <3>2
      <4> QED
        BY <4>1 DEF OldestRecord
    <3> QED
      BY <3>1, <3>2
  <2>2. CASE q[1] = Cleared
    <3>1. 2 \in RecordsAt(q) /\ RecordsAt(q) = 2..Len(q)
      BY <1>1, <1>3, <1>4, <2>2
    <3> HIDE DEF o
    <3> QED
      BY <1>1, <2>1, <2>2, <3>1
  <2>3. CASE q[1] # Cleared
    <3>1. 1 \in RecordsAt(q) /\ RecordsAt(q) = 1..Len(q)
      BY <1>1, <1>3, <1>4, <2>3
    <3> HIDE DEF o
    <3> QED
      BY <1>1, <2>1, <2>3, <3>1
  <2> QED
    BY <2>2, <2>3
<1>6. o \in DOMAIN q
  BY <1>1, <1>3, <1>4, <1>5
<1>7. Cardinality(I) = Len(q) - 1
  <2>1. IsFiniteSet(DOMAIN q) /\ Cardinality(DOMAIN q) = Len(q)
    <3>1. \A n \in Nat : IsFiniteSet(1..n) /\ Cardinality(1..n) = n
      BY FS_Interval
    <3> QED
      BY <1>1, <3>1
  <2> HIDE DEF o
  <2> QED
    BY <1>6, <2>1, FS_RemoveElement
<1>8. /\ k \in Seq(Events)
      /\ \A i, j \in DOMAIN k : k[i] = k[j] => i = j
      /\ \A i \in DOMAIN k : k[i] = Cleared => i = 1
      /\ Range(k) = {q[i] : i \in I}
  BY KeepAtShape
<1>9. Len(k) = Len(q) - 1
  BY <1>7, KeepAtProperties
<1>10. q[1] = Cleared => k # << >> /\ k[1] = Cleared
  <2> SUFFICES ASSUME q[1] = Cleared
               PROVE  k # << >> /\ k[1] = Cleared
    OBVIOUS
  <2>1. 1 \in I
    BY <1>1, <1>4, <1>5
  <2>2. Len(k) >= 1 /\ k[1] = q[1]
    BY <2>1, KeepAtHead
  <2> QED
    BY <1>8, <2>2
<1>11. q[1] # Cleared => k = << >> \/ k[1] # Cleared
  <2> SUFFICES ASSUME q[1] # Cleared, k # << >>
               PROVE  k[1] # Cleared
    OBVIOUS
  <2>1. k[1] \in Range(k)
    <3>1. k \in Seq(Events) /\ k # << >>
      BY <1>8
    <3> HIDE DEF k
    <3>2. 1 \in DOMAIN k
      BY <3>1
    <3> QED
      BY <3>2 DEF Range
  <2>2. \A i \in I : q[i] # Cleared
    BY <1>1, <1>2
  <2> HIDE DEF k
  <2> QED
    BY <1>8, <2>1, <2>2
<1>12. Cardinality(RecordsAt(k)) = Cardinality(RecordsAt(q)) - 1
  <2>1. /\ k # << >> /\ k[1] = Cleared => Cardinality(RecordsAt(k)) = Len(k) - 1
        /\ k = << >> \/ k[1] # Cleared => Cardinality(RecordsAt(k)) = Len(k)
    BY <1>8, RecordCount
  <2> HIDE DEF k
  <2> QED
    BY <1>1, <1>3, <1>4, <1>9, <1>10, <1>11, <2>1
<1>13. Range(k) \subseteq Range(q)
  BY <1>8 DEF Range
<1>14. Cleared \in Range(q) => Cleared \in Range(k)
  <2> SUFFICES ASSUME Cleared \in Range(q) PROVE Cleared \in Range(k)
    OBVIOUS
  <2>1. q[1] = Cleared
    BY <1>2 DEF Range
  <2>2. k # << >> /\ k[1] = Cleared
    BY <1>10, <2>1
  <2>3. 1 \in DOMAIN k
    BY <1>8, <2>2
  <2> QED
    BY <2>2, <2>3 DEF Range
<1>15. WellFormed(k)
  <2>1. Cardinality(RecordsAt(k)) <= MaxRecords
    BY <1>3, <1>12, BoundAssumption DEF WellFormed
  <2> QED
    BY <1>8, <2>1 DEF WellFormed
<1>16. DropAt(q, o) = k
  BY DEF DropAt
<1> HIDE DEF o, k, I
<1> QED
  BY <1>8, <1>12, <1>13, <1>14, <1>15, <1>16 DEF o

(* A push keeps a queue well-formed, adds at most the pushed event, and    *)
(* keeps the acknowledgement.                                              *)
LEMMA EnqueueShape ==
  ASSUME NEW q \in Seq(Events), WellFormed(q), NEW e \in Events
  PROVE  /\ Enqueue(q, e) \in Seq(Events)
         /\ Enqueue(q, e) # << >>
         /\ WellFormed(Enqueue(q, e))
         /\ Range(Enqueue(q, e)) \subseteq Range(q) \cup {e}
         /\ Cleared \in Range(q) => Cleared \in Range(Enqueue(q, e))
<1>1. CASE e = Cleared
  <2> DEFINE ack == <<Cleared>>
  <2>1. Enqueue(q, e) = ack
    BY <1>1 DEF Enqueue
  <2>2. /\ ack \in Seq(Events) /\ ack # << >> /\ DOMAIN ack = {1} /\ ack[1] = Cleared
        /\ Len(ack) = 1
    BY DEF Events
  <2> HIDE DEF ack
  <2>3. Cardinality(RecordsAt(ack)) = 0
    <3>1. \A i \in DOMAIN ack : ack[i] = Cleared => i = 1
      BY <2>2
    <3>2. Cardinality(RecordsAt(ack)) = Len(ack) - 1
      BY <2>2, <3>1, RecordCount
    <3> QED
      BY <2>2, <3>2
  <2>4. WellFormed(ack)
    BY <2>2, <2>3, BoundAssumption DEF WellFormed
  <2>5. Range(ack) = {Cleared}
    BY <2>2 DEF Range
  <2> QED
    BY <1>1, <2>1, <2>2, <2>4, <2>5
<1>2. CASE e # Cleared /\ \E i \in DOMAIN q : q[i] = e
  <2>1. Enqueue(q, e) = q
    BY <1>2 DEF Enqueue
  <2> QED
    BY <1>2, <2>1
<1>3. CASE e # Cleared /\ ~(\E i \in DOMAIN q : q[i] = e)
  <2> DEFINE b == EvictOldest(q)
             k == Append(b, e)
  <2>1. /\ b \in Seq(Events)
        /\ WellFormed(b)
        /\ Cardinality(RecordsAt(b)) <= MaxRecords - 1
        /\ Range(b) \subseteq Range(q)
        /\ Cleared \in Range(q) => Cleared \in Range(b)
    <3>1. Cardinality(RecordsAt(q)) \in Nat /\ Cardinality(RecordsAt(q)) <= MaxRecords
      BY RecordCount DEF WellFormed
    <3>2. CASE Cardinality(RecordsAt(q)) >= MaxRecords
      <4>1. RecordsAt(q) # {}
        <5>1. Cardinality({}) = 0
          BY FS_EmptySet
        <5>2. Cardinality(RecordsAt(q)) # 0
          BY <3>1, <3>2, BoundAssumption
        <5> QED
          BY <5>1, <5>2
      <4>2. b = DropAt(q, OldestRecord(q))
        BY <3>2 DEF EvictOldest
      <4> HIDE DEF b
      <4> QED
        BY <3>1, <3>2, <4>1, <4>2, BoundAssumption, DropOldest
    <3>3. CASE ~(Cardinality(RecordsAt(q)) >= MaxRecords)
      <4>1. b = q
        BY <3>3 DEF EvictOldest
      <4> HIDE DEF b
      <4> QED
        BY <3>1, <3>3, <4>1, BoundAssumption
    <3> QED
      BY <3>2, <3>3
  <2>2. Enqueue(q, e) = k
    BY <1>3 DEF Enqueue
  <2> HIDE DEF b
  <2>3. /\ k \in Seq(Events) /\ Len(k) = Len(b) + 1 /\ Len(b) \in Nat
        /\ DOMAIN b = 1..Len(b) /\ DOMAIN k = 1..(Len(b) + 1)
        /\ \A i \in 1..Len(b) : k[i] = b[i]
        /\ k[Len(b) + 1] = e
    BY <2>1
  <2> HIDE DEF k
  <2>4. Range(k) = Range(b) \cup {e}
    <3>1. Range(k) = {k[i] : i \in 1..Len(b)} \cup {k[Len(b) + 1]}
      BY <2>3 DEF Range
    <3>2. {k[i] : i \in 1..Len(b)} = Range(b)
      BY <2>3 DEF Range
    <3> QED
      BY <2>3, <3>1, <3>2
  <2>5. e \notin Range(b)
    BY <1>3, <2>1 DEF Range
  <2>6. ASSUME NEW i \in DOMAIN k, NEW j \in DOMAIN k, k[i] = k[j]
        PROVE  i = j
    <3>1. CASE i \in 1..Len(b) /\ j \in 1..Len(b)
      BY <2>1, <2>3, <2>6, <3>1 DEF WellFormed
    <3>2. CASE i = Len(b) + 1 /\ j \in 1..Len(b)
      BY <2>3, <2>5, <2>6, <3>2 DEF Range
    <3>3. CASE i \in 1..Len(b) /\ j = Len(b) + 1
      BY <2>3, <2>5, <2>6, <3>3 DEF Range
    <3> QED
      BY <2>3, <3>1, <3>2, <3>3
  <2>7. ASSUME NEW i \in DOMAIN k, k[i] = Cleared
        PROVE  i = 1
    <3>1. i \in 1..Len(b)
      BY <1>3, <2>3, <2>7
    <3> QED
      BY <2>1, <2>3, <2>7, <3>1 DEF WellFormed
  <2>8. Cardinality(RecordsAt(k)) <= MaxRecords
    <3>1. /\ Cardinality(RecordsAt(k)) \in Nat
          /\ k # << >> /\ k[1] = Cleared => Cardinality(RecordsAt(k)) = Len(k) - 1
          /\ k = << >> \/ k[1] # Cleared => Cardinality(RecordsAt(k)) = Len(k)
      BY <2>3, <2>7, RecordCount
    <3>2. /\ Cardinality(RecordsAt(b)) \in Nat
          /\ b # << >> /\ b[1] = Cleared => Cardinality(RecordsAt(b)) = Len(b) - 1
          /\ b = << >> \/ b[1] # Cleared => Cardinality(RecordsAt(b)) = Len(b)
      BY <2>1, RecordCount DEF WellFormed
    <3>3. CASE b # << >> /\ b[1] = Cleared
      <4>1. Len(b) >= 1
        BY <2>1, <3>3
      <4>2. k[1] = Cleared /\ k # << >>
        BY <2>3, <3>3, <4>1
      <4>3. Cardinality(RecordsAt(k)) = Len(b)
        BY <2>3, <3>1, <4>2
      <4>4. Len(b) - 1 <= MaxRecords - 1
        BY <2>1, <3>2, <3>3
      <4> QED
        BY <2>3, <4>3, <4>4, BoundAssumption
    <3>4. CASE b = << >> \/ b[1] # Cleared
      <4>1. Cardinality(RecordsAt(b)) = Len(b)
        BY <3>2, <3>4
      <4>2. Cardinality(RecordsAt(k)) <= Len(b) + 1
        BY <2>3, <3>1
      <4> QED
        BY <2>1, <2>3, <3>1, <4>1, <4>2, BoundAssumption
    <3> QED
      BY <3>3, <3>4
  <2>9. WellFormed(k)
    BY <2>6, <2>7, <2>8 DEF WellFormed
  <2>10. k # << >>
    BY <2>3
  <2> QED
    BY <2>1, <2>2, <2>3, <2>4, <2>9, <2>10
<1> QED
  BY <1>1, <1>2, <1>3

(* A purge keeps a queue well-formed, unless it empties it, leaves no      *)
(* record of the author, and keeps the acknowledgement.                    *)
LEMMA WithoutShape ==
  ASSUME NEW q \in Seq(Events), WellFormed(q), NEW a \in Peers
  PROVE  /\ Without(q, a) \in Seq(Events)
         /\ WellFormed(Without(q, a))
         /\ Range(Without(q, a)) = {e \in Range(q) : e = Cleared \/ AuthorOf[e] # a}
<1> DEFINE I == {i \in DOMAIN q : q[i] = Cleared \/ AuthorOf[q[i]] # a}
           k == KeepAt(q, I)
<1>1. Without(q, a) = k
  BY DEF Without
<1>2. Len(q) \in Nat /\ DOMAIN q = 1..Len(q)
  OBVIOUS
<1>3. /\ k \in Seq(Events)
      /\ \A i, j \in DOMAIN k : k[i] = k[j] => i = j
      /\ \A i \in DOMAIN k : k[i] = Cleared => i = 1
      /\ Range(k) = {q[i] : i \in I}
  BY KeepAtShape
<1>4. Len(k) = Cardinality(I) /\ Len(k) \in 0..Len(q)
  BY KeepAtProperties
<1>5. Range(k) = {e \in Range(q) : e = Cleared \/ AuthorOf[e] # a}
  BY <1>3 DEF Range
<1>6. q # << >> /\ q[1] = Cleared => k # << >> /\ k[1] = Cleared
  <2> SUFFICES ASSUME q # << >>, q[1] = Cleared
               PROVE  k # << >> /\ k[1] = Cleared
    OBVIOUS
  <2>1. 1 \in I
    BY <1>2
  <2>2. Len(k) >= 1 /\ k[1] = q[1]
    BY <2>1, KeepAtHead
  <2> QED
    BY <1>3, <2>2
<1>7. Cardinality(RecordsAt(k)) <= MaxRecords
  <2>1. /\ Cardinality(RecordsAt(k)) \in Nat
        /\ k # << >> /\ k[1] = Cleared => Cardinality(RecordsAt(k)) = Len(k) - 1
        /\ k = << >> \/ k[1] # Cleared => Cardinality(RecordsAt(k)) = Len(k)
    BY <1>3, RecordCount
  <2>2. /\ Cardinality(RecordsAt(q)) \in Nat
        /\ q # << >> /\ q[1] = Cleared => Cardinality(RecordsAt(q)) = Len(q) - 1
        /\ q = << >> \/ q[1] # Cleared => Cardinality(RecordsAt(q)) = Len(q)
        /\ Cardinality(RecordsAt(q)) <= MaxRecords
    BY RecordCount DEF WellFormed
  <2>3. Len(k) \in Nat /\ Len(k) <= Len(q)
    BY <1>2, <1>4
  <2> HIDE DEF k
  <2>4. Cardinality(RecordsAt(k)) <= Cardinality(RecordsAt(q))
    BY <1>2, <1>6, <2>1, <2>2, <2>3
  <2> QED
    BY <2>1, <2>2, <2>4, BoundAssumption
<1> HIDE DEF k
<1> QED
  BY <1>1, <1>3, <1>5, <1>7 DEF WellFormed

(* Taking the first event leaves a well-formed queue.                      *)
LEMMA TailShape ==
  ASSUME NEW q \in Seq(Events), WellFormed(q), q # << >>
  PROVE  /\ Tail(q) \in Seq(Events)
         /\ WellFormed(Tail(q))
         /\ Range(Tail(q)) \subseteq Range(q)
         /\ Cleared \in Range(q) /\ Head(q) # Cleared => Cleared \in Range(Tail(q))
<1> DEFINE k == Tail(q)
<1>1. /\ Len(q) \in Nat /\ Len(q) >= 1 /\ DOMAIN q = 1..Len(q)
      /\ k \in Seq(Events) /\ Len(k) = Len(q) - 1 /\ DOMAIN k = 1..(Len(q) - 1)
      /\ \A i \in 1..(Len(q) - 1) : k[i] = q[i + 1]
      /\ Head(q) = q[1]
  OBVIOUS
<1> HIDE DEF k
<1>2. \A i \in DOMAIN k : k[i] # Cleared
  BY <1>1 DEF WellFormed
<1>3. \A i, j \in DOMAIN k : k[i] = k[j] => i = j
  <2> SUFFICES ASSUME NEW i \in DOMAIN k, NEW j \in DOMAIN k, k[i] = k[j]
               PROVE  i = j
    OBVIOUS
  <2>1. q[i + 1] = q[j + 1] /\ i + 1 \in DOMAIN q /\ j + 1 \in DOMAIN q
    BY <1>1
  <2>2. i + 1 = j + 1
    BY <2>1 DEF WellFormed
  <2> QED
    BY <1>1, <2>2
<1>4. Cardinality(RecordsAt(k)) = Len(q) - 1
  <2>1. \A i \in DOMAIN k : k[i] = Cleared => i = 1
    BY <1>2
  <2>2. k = << >> \/ k[1] # Cleared => Cardinality(RecordsAt(k)) = Len(k)
    BY <1>1, <2>1, RecordCount
  <2>3. k = << >> \/ k[1] # Cleared
    BY <1>1, <1>2
  <2> QED
    BY <1>1, <2>2, <2>3
<1>5. Len(q) - 1 <= MaxRecords
  <2>1. /\ q[1] = Cleared => Cardinality(RecordsAt(q)) = Len(q) - 1
        /\ q[1] # Cleared => Cardinality(RecordsAt(q)) = Len(q)
        /\ Cardinality(RecordsAt(q)) <= MaxRecords
    BY RecordCount DEF WellFormed
  <2> QED
    BY <1>1, <2>1, BoundAssumption
<1>6. WellFormed(k)
  BY <1>2, <1>3, <1>4, <1>5 DEF WellFormed
<1>7. \A i \in DOMAIN k : k[i] \in Range(q)
  <2> SUFFICES ASSUME NEW i \in DOMAIN k PROVE k[i] \in Range(q)
    OBVIOUS
  <2>1. i + 1 \in DOMAIN q /\ k[i] = q[i + 1]
    BY <1>1
  <2> QED
    BY <2>1 DEF Range
<1>8. Cleared \in Range(q) => Head(q) = Cleared
  BY <1>1 DEF WellFormed, Range
<1> QED
  BY <1>1, <1>6, <1>7, <1>8 DEF k, Range

-----------------------------------------------------------------------------
(* Turns                                                                   *)

(* A newcomer's turn comes last.                                           *)
LEMMA AppendTurns ==
  ASSUME NEW S, NEW s \in Seq(S), NEW D, Turns(s, D), NEW r, r \notin D
  PROVE  Turns(Append(s, r), D \cup {r})
<1> DEFINE t == Append(s, r)
<1>1. /\ Len(s) \in Nat /\ DOMAIN s = 1..Len(s) /\ DOMAIN t = 1..(Len(s) + 1)
      /\ \A i \in 1..Len(s) : t[i] = s[i]
      /\ t[Len(s) + 1] = r
  <2>1. s \in Seq(S \cup {r})
    OBVIOUS
  <2> QED
    BY <2>1
<1> HIDE DEF t
<1>2. \A i \in 1..Len(s) : s[i] \in D
  BY <1>1 DEF Turns
<1>3. ASSUME NEW i \in DOMAIN t, NEW j \in DOMAIN t, t[i] = t[j]
      PROVE  i = j
  <2>1. CASE i \in 1..Len(s) /\ j \in 1..Len(s)
    BY <1>1, <1>3, <2>1 DEF Turns
  <2>2. CASE i = Len(s) + 1 /\ j \in 1..Len(s)
    BY <1>1, <1>2, <1>3, <2>2
  <2>3. CASE i \in 1..Len(s) /\ j = Len(s) + 1
    BY <1>1, <1>2, <1>3, <2>3
  <2> QED
    BY <1>1, <2>1, <2>2, <2>3
<1>4. {t[i] : i \in DOMAIN t} = D \cup {r}
  <2>1. {t[i] : i \in DOMAIN t} = {t[i] : i \in 1..Len(s)} \cup {t[Len(s) + 1]}
    BY <1>1
  <2>2. {t[i] : i \in 1..Len(s)} = D
    BY <1>1 DEF Turns
  <2> QED
    BY <1>1, <2>1, <2>2
<1> QED
  BY <1>3, <1>4 DEF Turns, t

(* The turns of those that remain.                                         *)
LEMMA KeepTurns ==
  ASSUME NEW S, NEW s \in Seq(S), NEW D, Turns(s, D), NEW L \in SUBSET D
  PROVE  LET t == KeepAt(s, {i \in DOMAIN s : s[i] \in L})
         IN  t \in Seq(S) /\ Turns(t, L)
<1> DEFINE I == {i \in DOMAIN s : s[i] \in L}
           t == KeepAt(s, I)
<1>1. /\ t \in Seq(S)
      /\ Len(t) = Cardinality(I)
      /\ Len(t) \in 0..Len(s)
      /\ \A i \in 1..Len(t) : Position(I, i) \in I /\ t[i] = s[Position(I, i)]
      /\ \A i \in I : \E j \in 1..Len(t) : Position(I, j) = i
  <2>1. I \in SUBSET (DOMAIN s)
    OBVIOUS
  <2> HIDE DEF I
  <2> QED
    BY <2>1, KeepAtProperties
<1>2. Len(s) \in Nat /\ DOMAIN s = 1..Len(s) /\ DOMAIN t = 1..Len(t) /\ Len(t) \in Nat
  BY <1>1
<1>3. I \in SUBSET (1..Len(s))
  BY <1>2
<1>4. \A i, j \in 1..Len(t) : i < j => Position(I, i) < Position(I, j)
  BY <1>1, <1>2, <1>3, PositionMonotonic
<1>5. \A i \in I : i \in 1..Len(s) /\ s[i] \in L
  BY <1>2
<1>6. \A x \in L : \E i \in I : s[i] = x
  BY DEF Turns
<1> HIDE DEF t, I
<1>7. ASSUME NEW i \in DOMAIN t, NEW j \in DOMAIN t, t[i] = t[j]
      PROVE  i = j
  <2>1. Position(I, i) \in 1..Len(s) /\ Position(I, j) \in 1..Len(s)
    BY <1>1, <1>2, <1>5
  <2>2. Position(I, i) = Position(I, j)
    BY <1>1, <1>2, <1>7, <2>1 DEF Turns
  <2> QED
    BY <1>2, <1>4, <2>1, <2>2
<1>8. {t[i] : i \in DOMAIN t} = L
  <2>1. \A i \in DOMAIN t : t[i] \in L
    BY <1>1, <1>2, <1>5
  <2>2. \A x \in L : \E i \in DOMAIN t : t[i] = x
    BY <1>1, <1>2, <1>6
  <2> QED
    BY <2>1, <2>2
<1> QED
  BY <1>1, <1>7, <1>8 DEF Turns, t, I

(* The turns after the first one was taken.                                *)
LEMMA TailTurns ==
  ASSUME NEW S, NEW s \in Seq(S), NEW D, Turns(s, D), s # << >>
  PROVE  /\ Tail(s) \in Seq(S)
         /\ Head(s) \in D
         /\ Turns(Tail(s), D \ {Head(s)})
<1> DEFINE t == Tail(s)
<1>1. /\ Len(s) \in Nat /\ Len(s) >= 1 /\ DOMAIN s = 1..Len(s)
      /\ t \in Seq(S) /\ DOMAIN t = 1..(Len(s) - 1)
      /\ \A i \in 1..(Len(s) - 1) : t[i] = s[i + 1]
      /\ Head(s) = s[1]
  OBVIOUS
<1> HIDE DEF t
<1>2. Head(s) \in D
  BY <1>1 DEF Turns
<1>3. ASSUME NEW i \in DOMAIN t, NEW j \in DOMAIN t, t[i] = t[j]
      PROVE  i = j
  <2>1. i + 1 \in DOMAIN s /\ j + 1 \in DOMAIN s /\ s[i + 1] = s[j + 1]
    BY <1>1, <1>3
  <2>2. i + 1 = j + 1
    BY <2>1 DEF Turns
  <2> QED
    BY <1>1, <2>2
<1>4. \A i \in DOMAIN t : t[i] \in D \ {Head(s)}
  <2> SUFFICES ASSUME NEW i \in DOMAIN t PROVE t[i] \in D \ {Head(s)}
    OBVIOUS
  <2>1. i + 1 \in DOMAIN s /\ t[i] = s[i + 1] /\ i + 1 # 1 /\ 1 \in DOMAIN s
    BY <1>1
  <2> QED
    BY <1>1, <2>1 DEF Turns
<1>5. \A x \in D \ {Head(s)} : \E i \in DOMAIN t : t[i] = x
  <2> SUFFICES ASSUME NEW x \in D \ {Head(s)} PROVE \E i \in DOMAIN t : t[i] = x
    OBVIOUS
  <2>1. PICK j \in DOMAIN s : s[j] = x
    BY DEF Turns
  <2>2. j # 1
    BY <1>1, <2>1
  <2>3. j - 1 \in DOMAIN t /\ t[j - 1] = s[j]
    BY <1>1, <2>2
  <2> QED
    BY <2>1, <2>3
<1>6. {t[i] : i \in DOMAIN t} = D \ {Head(s)}
  BY <1>4, <1>5
<1> QED
  BY <1>1, <1>2, <1>3, <1>6 DEF Turns, t

-----------------------------------------------------------------------------
(* Delivery's operations                                                   *)

QueuesType ==
    /\ DOMAIN rooms \in SUBSET Rooms
    /\ \A r \in DOMAIN rooms : rooms[r] \in Seq(Events)
    /\ rooms = [r \in DOMAIN rooms |-> rooms[r]]
    /\ ready \in Seq(Rooms)

Queues == QueuesType /\ ReadyMatchesRooms /\ PendingShape

(* A push touches only the channel's own queue, and only if it is active.  *)
LEMMA PushQueues ==
  ASSUME Queues, NEW r \in Rooms, NEW e \in Events, Push(r, e)
  PROVE  /\ Queues'
         /\ DOMAIN rooms' \subseteq DOMAIN rooms \cup (active \cap {r})
         /\ \A s \in DOMAIN rooms' :
              IF s \in DOMAIN rooms
              THEN /\ Range(rooms'[s]) \subseteq Range(rooms[s]) \cup {e}
                   /\ Cleared \in Range(rooms[s]) => Cleared \in Range(rooms'[s])
              ELSE Range(rooms'[s]) \subseteq {e}
         /\ DOMAIN rooms \subseteq DOMAIN rooms'
<1>1. CASE r \notin active
  <2>1. rooms' = rooms /\ ready' = ready
    BY <1>1 DEF Push
  <2> QED
    BY <2>1 DEF Queues, QueuesType, ReadyMatchesRooms, PendingShape
<1>2. CASE r \in active
  <2> DEFINE q == Pending(r)
             k == Enqueue(q, e)
  <2>1. /\ rooms' = [s \in DOMAIN rooms \cup {r} |-> IF s = r THEN k ELSE rooms[s]]
        /\ ready' = IF r \in DOMAIN rooms THEN ready ELSE Append(ready, r)
    BY <1>2 DEF Push, SetPending
  <2>2. q \in Seq(Events) /\ WellFormed(q)
    <3>1. CASE r \in DOMAIN rooms
      BY <3>1 DEF Pending, Queues, QueuesType, PendingShape
    <3>2. CASE r \notin DOMAIN rooms
      <4> DEFINE empty == << >>
      <4>1. q = empty
        BY <3>2 DEF Pending
      <4>2. empty \in Seq(Events) /\ DOMAIN empty = {} /\ Len(empty) = 0
        OBVIOUS
      <4>3. empty = << >> /\ \A i \in DOMAIN empty : empty[i] = Cleared => i = 1
        BY <4>2
      <4> HIDE DEF empty, q
      <4>4. Cardinality(RecordsAt(empty)) = Len(empty)
        BY <4>2, <4>3, RecordCount
      <4> QED
        BY <4>1, <4>2, <4>4, BoundAssumption DEF WellFormed
    <3> QED
      BY <3>1, <3>2
  <2>3. /\ k \in Seq(Events) /\ k # << >> /\ WellFormed(k)
        /\ Range(k) \subseteq Range(q) \cup {e}
        /\ Cleared \in Range(q) => Cleared \in Range(k)
    <3> HIDE DEF q
    <3> QED
      BY <2>2, EnqueueShape
  <2>4. r \in DOMAIN rooms => q = rooms[r]
    BY DEF Pending
  <2>5. r \notin DOMAIN rooms => Range(q) = {}
    BY DEF Pending, Range
  <2> HIDE DEF q, k
  <2>6. /\ DOMAIN rooms' = DOMAIN rooms \cup {r}
        /\ \A s \in DOMAIN rooms' : rooms'[s] = IF s = r THEN k ELSE rooms[s]
    BY <2>1
  <2>7. DOMAIN rooms' \in SUBSET Rooms
    BY <2>6 DEF Queues, QueuesType
  <2>8. \A s \in DOMAIN rooms' : rooms'[s] \in Seq(Events) /\ rooms'[s] # << >> /\ WellFormed(rooms'[s])
    BY <2>3, <2>6 DEF Queues, QueuesType, PendingShape
  <2>9. rooms' = [s \in DOMAIN rooms' |-> rooms'[s]]
    BY <2>1
  <2>10. ready' \in Seq(Rooms) /\ Turns(ready', DOMAIN rooms')
    <3>1. ready \in Seq(Rooms) /\ Turns(ready, DOMAIN rooms)
      BY DEF Queues, QueuesType, ReadyMatchesRooms
    <3>2. CASE r \in DOMAIN rooms
      <4>1. ready' = ready /\ DOMAIN rooms' = DOMAIN rooms
        BY <2>1, <2>6, <3>2
      <4> QED
        BY <3>1, <4>1
    <3>3. CASE r \notin DOMAIN rooms
      <4>1. Turns(Append(ready, r), DOMAIN rooms \cup {r})
        BY <3>1, <3>3, AppendTurns
      <4>2. Append(ready, r) \in Seq(Rooms)
        BY <3>1
      <4> QED
        BY <2>1, <2>6, <3>3, <4>1, <4>2
    <3> QED
      BY <3>2, <3>3
  <2>11. PendingShape'
    BY <2>8 DEF PendingShape, WellFormed, RecordsAt
  <2>12. Queues'
    BY <2>7, <2>8, <2>9, <2>10, <2>11 DEF Queues, QueuesType, ReadyMatchesRooms, Turns
  <2> QED
    BY <1>2, <2>3, <2>4, <2>5, <2>6, <2>12
<1> QED
  BY <1>1, <1>2

(* A pop takes the head of one queue, and its turn with it if it was all.  *)
LEMMA PopQueues ==
  ASSUME Queues, NEW r \in Rooms, Pop(r)
  PROVE  /\ r \in DOMAIN rooms
         /\ Head(rooms[r]) \in Events
         /\ Queues'
         /\ DOMAIN rooms' \subseteq DOMAIN rooms
         /\ \A s \in DOMAIN rooms' : Range(rooms'[s]) \subseteq Range(rooms[s])
         /\ \A s \in DOMAIN rooms :
              /\ Cleared \in Range(rooms[s])
              /\ s # r \/ Head(rooms[s]) # Cleared
              => s \in DOMAIN rooms' /\ Cleared \in Range(rooms'[s])
<1>1. ready \in Seq(Rooms) /\ Turns(ready, DOMAIN rooms) /\ ready # << >> /\ r = Head(ready)
  BY DEF Pop, Queues, QueuesType, ReadyMatchesRooms
<1>2. /\ Tail(ready) \in Seq(Rooms)
      /\ r \in DOMAIN rooms
      /\ Turns(Tail(ready), DOMAIN rooms \ {r})
  BY <1>1, TailTurns
<1>3. \A s \in DOMAIN rooms : rooms[s] \in Seq(Events) /\ rooms[s] # << >> /\ WellFormed(rooms[s])
  BY DEF Queues, QueuesType, PendingShape
<1> DEFINE k == Tail(rooms[r])
<1>4. /\ k \in Seq(Events) /\ WellFormed(k)
      /\ Range(k) \subseteq Range(rooms[r])
      /\ Cleared \in Range(rooms[r]) /\ Head(rooms[r]) # Cleared => Cleared \in Range(k)
  BY <1>2, <1>3, TailShape
<1>5. Head(rooms[r]) \in Events
  BY <1>2, <1>3
<1> HIDE DEF k
<1>6. CASE k = << >>
  <2>1. /\ rooms' = [s \in DOMAIN rooms \ {r} |-> rooms[s]]
        /\ ready' = Tail(ready)
    BY <1>6 DEF Pop, Restrict, k
  <2>2. /\ DOMAIN rooms' = DOMAIN rooms \ {r}
        /\ \A s \in DOMAIN rooms' : rooms'[s] = rooms[s]
    BY <2>1
  <2>3. rooms' = [s \in DOMAIN rooms' |-> rooms'[s]]
    BY <2>1
  <2>4. Queues'
    <3>1. DOMAIN rooms' \in SUBSET Rooms
      BY <2>2 DEF Queues, QueuesType
    <3>2. \A s \in DOMAIN rooms' :
            rooms'[s] \in Seq(Events) /\ rooms'[s] # << >> /\ WellFormed(rooms'[s])
      BY <1>3, <2>2
    <3>3. ready' \in Seq(Rooms) /\ Turns(ready', DOMAIN rooms')
      BY <1>2, <2>1, <2>2
    <3>4. PendingShape'
      BY <3>2 DEF PendingShape, WellFormed, RecordsAt
    <3> QED
      BY <2>3, <3>1, <3>2, <3>3, <3>4 DEF Queues, QueuesType, ReadyMatchesRooms, Turns
  <2>5. Range(k) = {}
    BY <1>6 DEF Range
  <2> QED
    BY <1>2, <1>4, <1>5, <2>2, <2>4, <2>5
<1>7. CASE k # << >>
  <2>1. /\ rooms' = [rooms EXCEPT ![r] = k]
        /\ ready' = Append(Tail(ready), r)
    BY <1>7 DEF Pop, k
  <2>2. /\ DOMAIN rooms' = DOMAIN rooms
        /\ \A s \in DOMAIN rooms' : rooms'[s] = IF s = r THEN k ELSE rooms[s]
        /\ rooms' = [s \in DOMAIN rooms' |-> rooms'[s]]
    BY <2>1
  <2>3. Turns(Append(Tail(ready), r), (DOMAIN rooms \ {r}) \cup {r})
    BY <1>2, AppendTurns
  <2>4. Append(Tail(ready), r) \in Seq(Rooms)
    BY <1>2
  <2>5. (DOMAIN rooms \ {r}) \cup {r} = DOMAIN rooms'
    BY <1>2, <2>2
  <2>6. Turns(ready', DOMAIN rooms')
    BY <2>1, <2>3, <2>5
  <2>7. \A s \in DOMAIN rooms' :
          rooms'[s] \in Seq(Events) /\ rooms'[s] # << >> /\ WellFormed(rooms'[s])
    BY <1>3, <1>4, <1>7, <2>2
  <2>8. Queues'
    <3>1. PendingShape'
      BY <2>7 DEF PendingShape, WellFormed, RecordsAt
    <3> QED
      BY <2>1, <2>2, <2>4, <2>6, <2>7, <3>1 DEF Queues, QueuesType, ReadyMatchesRooms, Turns
  <2> QED
    BY <1>2, <1>4, <1>5, <2>2, <2>8
<1> QED
  BY <1>6, <1>7

(* Forgetting a channel removes its queue and its turn.                    *)
LEMMA ForgetQueues ==
  ASSUME Queues, NEW r \in Rooms, Forget(r)
  PROVE  /\ Queues'
         /\ DOMAIN rooms' = DOMAIN rooms \ {r}
         /\ \A s \in DOMAIN rooms' : rooms'[s] = rooms[s]
<1>1. /\ rooms' = [s \in DOMAIN rooms \ {r} |-> rooms[s]]
      /\ ready' = KeepAt(ready, {i \in DOMAIN ready : ready[i] \in DOMAIN rooms \ {r}})
  BY DEF Forget, ReadyOnly, Restrict
<1>2. /\ DOMAIN rooms' = DOMAIN rooms \ {r}
      /\ \A s \in DOMAIN rooms' : rooms'[s] = rooms[s]
      /\ rooms' = [s \in DOMAIN rooms' |-> rooms'[s]]
  BY <1>1
<1>3. ready' \in Seq(Rooms) /\ Turns(ready', DOMAIN rooms')
  <2>1. ready \in Seq(Rooms) /\ Turns(ready, DOMAIN rooms)
    BY DEF Queues, QueuesType, ReadyMatchesRooms
  <2>2. DOMAIN rooms \ {r} \in SUBSET DOMAIN rooms
    OBVIOUS
  <2> QED
    BY <1>1, <1>2, <2>1, <2>2, KeepTurns
<1>4. \A s \in DOMAIN rooms' :
        rooms'[s] \in Seq(Events) /\ rooms'[s] # << >> /\ WellFormed(rooms'[s])
  BY <1>2 DEF Queues, QueuesType, PendingShape
<1>5. PendingShape'
  BY <1>4 DEF PendingShape, WellFormed, RecordsAt
<1>6. DOMAIN rooms' \in SUBSET Rooms
  BY <1>2 DEF Queues, QueuesType
<1> QED
  BY <1>2, <1>3, <1>4, <1>5, <1>6 DEF Queues, QueuesType, ReadyMatchesRooms, Turns

(* Blocking an author keeps exactly the other authors' records and the     *)
(* acknowledgements.                                                       *)
LEMMA BlockQueues ==
  ASSUME Queues, NEW a \in Peers, BlockAuthor(a)
  PROVE  /\ Queues'
         /\ DOMAIN rooms' \subseteq DOMAIN rooms
         /\ \A s \in DOMAIN rooms' :
              Range(rooms'[s]) = {e \in Range(rooms[s]) : e = Cleared \/ AuthorOf[e] # a}
         /\ \A s \in DOMAIN rooms : (\E e \in Range(rooms[s]) : e = Cleared \/ AuthorOf[e] # a)
                                    => s \in DOMAIN rooms'
<1> DEFINE left == {r \in DOMAIN rooms : Without(rooms[r], a) # << >>}
<1>1. /\ rooms' = [r \in left |-> Without(rooms[r], a)]
      /\ ready' = KeepAt(ready, {i \in DOMAIN ready : ready[i] \in left})
  BY DEF BlockAuthor, ReadyOnly
<1>2. left \in SUBSET DOMAIN rooms
  OBVIOUS
<1>3. \A r \in DOMAIN rooms : rooms[r] \in Seq(Events) /\ WellFormed(rooms[r])
  BY DEF Queues, QueuesType, PendingShape
<1>4. \A r \in DOMAIN rooms :
        /\ Without(rooms[r], a) \in Seq(Events)
        /\ WellFormed(Without(rooms[r], a))
        /\ Range(Without(rooms[r], a)) = {e \in Range(rooms[r]) : e = Cleared \/ AuthorOf[e] # a}
  BY <1>3, WithoutShape
<1>5. \A r \in left : Without(rooms[r], a) # << >>
  OBVIOUS
<1>6. \A r \in DOMAIN rooms : (\E e \in Range(rooms[r]) : e = Cleared \/ AuthorOf[e] # a) => r \in left
  <2> SUFFICES ASSUME NEW r \in DOMAIN rooms, NEW e \in Range(rooms[r]), e = Cleared \/ AuthorOf[e] # a
               PROVE  Without(rooms[r], a) # << >>
    OBVIOUS
  <2>1. e \in Range(Without(rooms[r], a))
    BY <1>4
  <2>2. Range(<< >>) = {}
    BY DEF Range
  <2> QED
    BY <2>1, <2>2
<1> HIDE DEF left
<1>7. /\ DOMAIN rooms' = left
      /\ \A s \in left : rooms'[s] = Without(rooms[s], a)
      /\ rooms' = [s \in DOMAIN rooms' |-> rooms'[s]]
  BY <1>1
<1>8. ready' \in Seq(Rooms) /\ Turns(ready', DOMAIN rooms')
  <2>1. ready \in Seq(Rooms) /\ Turns(ready, DOMAIN rooms)
    BY DEF Queues, QueuesType, ReadyMatchesRooms
  <2> QED
    BY <1>1, <1>2, <1>7, <2>1, KeepTurns
<1>9. \A s \in DOMAIN rooms' :
        rooms'[s] \in Seq(Events) /\ rooms'[s] # << >> /\ WellFormed(rooms'[s])
  BY <1>2, <1>4, <1>5, <1>7
<1>10. PendingShape'
  BY <1>9 DEF PendingShape, WellFormed, RecordsAt
<1>11. DOMAIN rooms' \in SUBSET Rooms
  BY <1>2, <1>7 DEF Queues, QueuesType
<1>12. Queues'
  BY <1>7, <1>8, <1>9, <1>10, <1>11 DEF Queues, QueuesType, ReadyMatchesRooms, Turns
<1> QED
  BY <1>2, <1>4, <1>6, <1>7, <1>12

-----------------------------------------------------------------------------
(* The specification                                                       *)

(* No record in the queue is a blocked author's.                           *)
Purged == \A r \in DOMAIN rooms : \A e \in Range(rooms[r]) : e # Cleared => AuthorOf[e] \notin blocked

HeldAllowed == \A p \in Publishers : holding[p] # None => AuthorOf[holding[p][2]] \notin blocked

(* The variables beside the queues.                                        *)
RestType ==
    /\ used \in SUBSET Rooms
    /\ active \in SUBSET used
    /\ blocked \in SUBSET Peers
    /\ holding \in [Publishers -> (Rooms \X Records) \cup {None}]
    /\ general \in 0..Capacity
    /\ turn \in BOOLEAN
    /\ poll \in PollType
    /\ closed \in BOOLEAN

EventInv == RestType /\ Queues /\ Purged /\ HeldAllowed /\ LeftRoomsSilent

(* The inductive invariant is the conjunction of the checked invariants.   *)
LEMMA InvImplies ==
  EventInv => TypeOK /\ ReadyMatchesRooms /\ PendingShape /\ NoBlockedPending /\ LeftRoomsSilent
<1> SUFFICES ASSUME EventInv
             PROVE  TypeOK /\ ReadyMatchesRooms /\ PendingShape /\ NoBlockedPending /\ LeftRoomsSilent
  OBVIOUS
<1>1. TypeOK
  BY DEF EventInv, RestType, Queues, QueuesType, TypeOK
<1>2. NoBlockedPending
  BY DEF EventInv, Purged, HeldAllowed, NoBlockedPending, RecordsAt, Range
<1> QED
  BY <1>1, <1>2 DEF EventInv, Queues

LEMMA InitInv == Init => EventInv
<1> SUFFICES ASSUME Init PROVE EventInv
  OBVIOUS
<1> USE DEF Init
<1>1. RestType
  <2>1. NoPoll \in PollType
    BY BoundAssumption DEF NoPoll, PollType
  <2>2. holding \in [Publishers -> (Rooms \X Records) \cup {None}]
    OBVIOUS
  <2>3. general \in 0..Capacity
    BY BoundAssumption
  <2>4. used \in SUBSET Rooms /\ active \in SUBSET used /\ blocked \in SUBSET Peers
    OBVIOUS
  <2>5. poll \in PollType /\ turn \in BOOLEAN /\ closed \in BOOLEAN
    BY <2>1
  <2> QED
    BY <2>2, <2>3, <2>4, <2>5 DEF RestType
<1>2. DOMAIN rooms = {} /\ DOMAIN ready = {}
  OBVIOUS
<1>3. Queues
  <2>1. rooms = [r \in DOMAIN rooms |-> rooms[r]]
    OBVIOUS
  <2>2. ready \in Seq(Rooms)
    OBVIOUS
  <2> QED
    BY <1>2, <2>1, <2>2 DEF Queues, QueuesType, ReadyMatchesRooms, Turns, PendingShape
<1>4. Purged /\ LeftRoomsSilent /\ HeldAllowed
  BY <1>2 DEF Purged, LeftRoomsSilent, HeldAllowed
<1> QED
  BY <1>1, <1>3, <1>4 DEF EventInv

(* A step that leaves both queues alone.                                   *)
LEMMA QueuesUnchanged ==
  ASSUME Queues, Purged, UNCHANGED <<rooms, ready>>, blocked' \subseteq blocked
  PROVE  Queues' /\ Purged'
<1>1. rooms' = rooms /\ ready' = ready
  OBVIOUS
<1>2. QueuesType' /\ ReadyMatchesRooms'
  BY <1>1 DEF Queues, QueuesType, ReadyMatchesRooms, Turns
<1>3. PendingShape'
  BY <1>1 DEF Queues, PendingShape, WellFormed, RecordsAt
<1>4. Purged'
  BY <1>1 DEF Purged, Range
<1> QED
  BY <1>2, <1>3, <1>4 DEF Queues

(* The polling steps, whose queue is popped or left alone.                 *)
LEMMA PollKeeps ==
  ASSUME EventInv, PollFirst \/ PollSecond
  PROVE  EventInv'
<1> USE DEF EventInv
<1>1. /\ UNCHANGED <<used, active, blocked, holding, turn, closed>>
      /\ poll.pc \in {"first", "second"}
  BY DEF PollFirst, PollSecond
<1>2. ASSUME NEW e \in (Rooms \X Events) \cup {None}, Got(e)
      PROVE  poll' \in PollType
  <2>1. Append(poll.out, e) \in Seq((Rooms \X Events) \cup {None})
    BY DEF RestType, PollType
  <2> QED
    BY <1>2, <2>1 DEF RestType, PollType, Got
<1>3. [poll EXCEPT !.pc = "second"] \in PollType /\ NoPoll \in PollType
  <2>1. NoPoll \in PollType
    BY BoundAssumption DEF NoPoll, PollType
  <2> QED
    BY <2>1 DEF RestType, PollType
<1>4. ASSUME NEW r \in Rooms, TakeRoom(r)
      PROVE  EventInv'
  <2>1. /\ r \in DOMAIN rooms /\ Head(rooms[r]) \in Events
        /\ Queues' /\ DOMAIN rooms' \subseteq DOMAIN rooms
        /\ \A s \in DOMAIN rooms' : Range(rooms'[s]) \subseteq Range(rooms[s])
    BY <1>4, PopQueues DEF TakeRoom
  <2>2. poll' \in PollType
    BY <1>2, <1>4, <2>1 DEF TakeRoom
  <2>3. Purged'
    BY <1>1, <2>1 DEF Purged
  <2> QED
    BY <1>1, <1>4, <2>1, <2>2, <2>3 DEF TakeRoom, RestType, HeldAllowed, LeftRoomsSilent
<1>5. ASSUME NEW next \in PollType, poll' = next, UNCHANGED <<rooms, ready, general>>
      PROVE  EventInv'
  <2>1. Queues' /\ Purged'
    BY <1>1, <1>5, QueuesUnchanged
  <2> QED
    BY <1>1, <1>5, <2>1 DEF RestType, HeldAllowed, LeftRoomsSilent
<1>6. ASSUME TakeGeneral
      PROVE  EventInv'
  <2>1. Queues' /\ Purged'
    BY <1>1, <1>6, QueuesUnchanged DEF TakeGeneral
  <2>2. poll' \in PollType
    BY <1>2, <1>6 DEF TakeGeneral
  <2>3. general' \in 0..Capacity
    BY <1>6, BoundAssumption DEF TakeGeneral, RestType
  <2>4. RestType'
    BY <1>1, <2>2, <2>3 DEF RestType
  <2> QED
    BY <1>1, <1>6, <2>1, <2>4 DEF TakeGeneral, HeldAllowed, LeftRoomsSilent
<1>7. ASSUME NEW next \in PollType, TryHistory(next) \/ TryGeneral(next)
      PROVE  EventInv'
  BY <1>4, <1>5, <1>6, <1>7 DEF TryHistory, TryGeneral
<1> QED
  BY <1>3, <1>7 DEF PollFirst, PollSecond

LEMMA NextInv == EventInv /\ [Next]_vars => EventInv'
<1> SUFFICES ASSUME EventInv, [Next]_vars PROVE EventInv'
  OBVIOUS
<1> USE DEF EventInv
<1>1. ASSUME NEW r \in Rooms, Join(r) PROVE EventInv'
  <2>1. Queues' /\ Purged'
    BY <1>1, QueuesUnchanged DEF Join
  <2> QED
    BY <1>1, <2>1 DEF Join, RestType, HeldAllowed, LeftRoomsSilent
<1>2. ASSUME NEW r \in Rooms, Leave(r) PROVE EventInv'
  <2>1. /\ Queues' /\ DOMAIN rooms' = DOMAIN rooms \ {r}
        /\ \A s \in DOMAIN rooms' : rooms'[s] = rooms[s]
    BY <1>2, ForgetQueues DEF Leave
  <2>2. Purged'
    BY <1>2, <2>1 DEF Leave, Purged
  <2>3. active' = active \ {r}
    BY <1>2 DEF Leave, Forget
  <2> QED
    BY <1>2, <2>1, <2>2, <2>3 DEF Leave, RestType, HeldAllowed, LeftRoomsSilent
<1>3. ASSUME NEW r \in Rooms, EmitCleared(r) PROVE EventInv'
  <2>1. /\ Queues' /\ DOMAIN rooms' \subseteq DOMAIN rooms \cup (active \cap {r})
        /\ \A s \in DOMAIN rooms' :
             IF s \in DOMAIN rooms
             THEN Range(rooms'[s]) \subseteq Range(rooms[s]) \cup {Cleared}
             ELSE Range(rooms'[s]) \subseteq {Cleared}
    BY <1>3, PushQueues DEF EmitCleared, Events
  <2>2. Purged'
    BY <1>3, <2>1 DEF EmitCleared, Purged
  <2> QED
    BY <1>3, <2>1, <2>2 DEF EmitCleared, RestType, HeldAllowed, LeftRoomsSilent
<1>4. ASSUME NEW p \in Publishers, EmitPush(p) PROVE EventInv'
  <2>1. holding[p] \in Rooms \X Records /\ AuthorOf[holding[p][2]] \notin blocked
    BY <1>4 DEF EmitPush, RestType, HeldAllowed
  <2> DEFINE r == holding[p][1]
             e == holding[p][2]
  <2>2. r \in Rooms /\ e \in Events /\ AuthorOf[e] \notin blocked
    BY <2>1 DEF Events
  <2>3. Push(r, e)
    BY <1>4 DEF EmitPush
  <2> HIDE DEF r, e
  <2>4. /\ Queues' /\ DOMAIN rooms' \subseteq DOMAIN rooms \cup (active \cap {r})
        /\ \A s \in DOMAIN rooms' :
             IF s \in DOMAIN rooms
             THEN Range(rooms'[s]) \subseteq Range(rooms[s]) \cup {e}
             ELSE Range(rooms'[s]) \subseteq {e}
    BY <2>2, <2>3, PushQueues
  <2>5. Purged'
    BY <1>4, <2>2, <2>4 DEF EmitPush, Purged
  <2>6. RestType' /\ HeldAllowed'
    BY <1>4 DEF EmitPush, RestType, HeldAllowed
  <2> QED
    BY <1>4, <2>4, <2>5, <2>6 DEF EmitPush, LeftRoomsSilent
<1>5. ASSUME NEW p \in Publishers, NEW r \in Rooms, NEW rec \in Records, EmitCheck(p, r, rec)
      PROVE  EventInv'
  <2>1. Queues' /\ Purged'
    BY <1>5, QueuesUnchanged DEF EmitCheck
  <2>2. holding' \in [Publishers -> (Rooms \X Records) \cup {None}]
    BY <1>5 DEF EmitCheck, RestType
  <2>3. HeldAllowed'
    BY <1>5 DEF EmitCheck, RestType, HeldAllowed
  <2> QED
    BY <1>5, <2>1, <2>2, <2>3 DEF EmitCheck, RestType, LeftRoomsSilent
<1>6. ASSUME NEW a \in Peers, Block(a) PROVE EventInv'
  <2>1. /\ Queues' /\ DOMAIN rooms' \subseteq DOMAIN rooms
        /\ \A s \in DOMAIN rooms' :
             Range(rooms'[s]) = {e \in Range(rooms[s]) : e = Cleared \/ AuthorOf[e] # a}
    BY <1>6, BlockQueues DEF Block
  <2>2. blocked' = blocked \cup {a} /\ \A p \in Publishers : holding'[p] = None
    BY <1>6 DEF Block
  <2>3. Purged'
    BY <2>1, <2>2 DEF Purged
  <2>4. HeldAllowed'
    BY <2>2 DEF HeldAllowed
  <2> QED
    BY <1>6, <2>1, <2>2, <2>3, <2>4 DEF Block, RestType, LeftRoomsSilent
<1>7. ASSUME NEW a \in Peers, Unblock(a) PROVE EventInv'
  <2>1. Queues' /\ Purged'
    BY <1>7, QueuesUnchanged DEF Unblock
  <2> QED
    BY <1>7, <2>1 DEF Unblock, RestType, HeldAllowed, LeftRoomsSilent
<1>8. ASSUME NEW n \in 1..MaxPoll, PollBegin(n) PROVE EventInv'
  <2>1. Queues' /\ Purged'
    BY <1>8, QueuesUnchanged DEF PollBegin, StartPoll
  <2>2. poll' \in PollType
    <3>1. n \in 0..MaxPoll /\ << >> \in Seq((Rooms \X Events) \cup {None}) /\ turn \in BOOLEAN
      BY BoundAssumption DEF RestType
    <3> QED
      BY <1>8, <3>1 DEF PollBegin, StartPoll, PollType
  <2>3. turn' \in BOOLEAN
    BY <1>8 DEF PollBegin
  <2> QED
    BY <1>8, <2>1, <2>2, <2>3 DEF PollBegin, StartPoll, RestType, HeldAllowed, LeftRoomsSilent
<1>9. ASSUME EmitGeneral PROVE EventInv'
  <2>1. Queues' /\ Purged'
    BY <1>9, QueuesUnchanged DEF EmitGeneral
  <2>2. general' \in 0..Capacity
    BY <1>9, BoundAssumption DEF EmitGeneral, RestType
  <2> QED
    BY <1>9, <2>1, <2>2 DEF EmitGeneral, RestType, HeldAllowed, LeftRoomsSilent
<1>10. ASSUME Close PROVE EventInv'
  <2>1. /\ DOMAIN rooms' = {} /\ DOMAIN ready' = {} /\ ready' \in Seq(Rooms)
        /\ rooms' = [r \in DOMAIN rooms' |-> rooms'[r]]
    BY <1>10 DEF Close
  <2>2. Queues' /\ Purged'
    BY <2>1 DEF Queues, QueuesType, ReadyMatchesRooms, Turns, PendingShape, Purged
  <2> QED
    BY <1>10, <2>1, <2>2 DEF Close, RestType, HeldAllowed, LeftRoomsSilent
<1>11. CASE PollReturn
  <2>1. Queues' /\ Purged'
    BY <1>11, QueuesUnchanged DEF PollReturn
  <2>2. poll' \in PollType
    BY <1>11, BoundAssumption DEF PollReturn, NoPoll, PollType
  <2> QED
    BY <1>11, <2>1, <2>2 DEF PollReturn, RestType, HeldAllowed, LeftRoomsSilent
<1>12. CASE UNCHANGED vars
  <2>1. Queues' /\ Purged'
    BY <1>12, QueuesUnchanged DEF vars
  <2> QED
    BY <1>12, <2>1 DEF vars, RestType, HeldAllowed, LeftRoomsSilent
<1> QED
  BY <1>1, <1>2, <1>3, <1>4, <1>5, <1>6, <1>7, <1>8, <1>9, <1>10, <1>11, <1>12, PollKeeps
     DEF Next, PollStep

(* Every reachable state of a node satisfies the invariants, whatever the  *)
(* number of channels, authors and publishers and the bounds.              *)
THEOREM DeliverySafe ==
  Spec => [](TypeOK /\ ReadyMatchesRooms /\ PendingShape /\ NoBlockedPending /\ LeftRoomsSilent)
<1>1. Init => EventInv
  BY InitInv
<1>2. EventInv /\ [Next]_vars => EventInv'
  BY NextInv
<1>3. EventInv => TypeOK /\ ReadyMatchesRooms /\ PendingShape /\ NoBlockedPending /\ LeftRoomsSilent
  BY InvImplies
<1> QED
  BY <1>1, <1>2, <1>3, PTL DEF Spec

-----------------------------------------------------------------------------
(* An acknowledgement waits until the program receives it, leaves the      *)
(* channel or closes the node.                                             *)

(* Whether the acknowledgement is pending, as the queue's range.           *)
LEMMA AckPendingRange ==
  \A r : AckPending(r) <=> r \in DOMAIN rooms /\ Cleared \in Range(rooms[r])
BY DEF AckPending, Pending, Range

(* The events of a pop, in the order the program receives them.            *)
LEMMA GotLast ==
  ASSUME RestType, NEW e \in (Rooms \X Events) \cup {None}, Got(e)
  PROVE  poll'.out # << >> /\ poll'.out[Len(poll'.out)] = e
<1>1. poll'.out = Append(poll.out, e) /\ poll.out \in Seq((Rooms \X Events) \cup {None})
  BY DEF RestType, PollType, Got
<1> QED
  BY <1>1

(* The steps that leave the queues alone.                                  *)
LEMMA QuietSteps ==
  ASSUME rooms' # rooms
  PROVE  /\ \A s \in Rooms : ~Join(s)
         /\ \A p \in Publishers, s \in Rooms, rec \in Records : ~EmitCheck(p, s, rec)
         /\ \A a \in Peers : ~Unblock(a)
         /\ \A n \in 1..MaxPoll : ~PollBegin(n)
         /\ ~EmitGeneral /\ ~PollReturn /\ ~(UNCHANGED vars)
<1>1. \A s \in Rooms : ~Join(s)
  BY DEF Join
<1>2. \A p \in Publishers, s \in Rooms, rec \in Records : ~EmitCheck(p, s, rec)
  BY DEF EmitCheck
<1>3. \A a \in Peers : ~Unblock(a)
  BY DEF Unblock
<1>4. \A n \in 1..MaxPoll : ~PollBegin(n)
  BY DEF PollBegin, StartPoll
<1>5. ~EmitGeneral /\ ~PollReturn /\ ~(UNCHANGED vars)
  BY DEF EmitGeneral, PollReturn, vars
<1> QED
  BY <1>1, <1>2, <1>3, <1>4, <1>5

LEMMA NextKeepsAck == EventInv /\ [Next]_vars => KeepsAck
<1> SUFFICES ASSUME EventInv, [Next]_vars, NEW r \in Rooms, AckPending(r), ~AckPending(r)'
             PROVE  \/ r \notin active'
                    \/ poll'.out # << >> /\ poll'.out[Len(poll'.out)] = <<r, Cleared>>
  BY DEF KeepsAck
<1> DEFINE Goal == \/ r \notin active'
                   \/ poll'.out # << >> /\ poll'.out[Len(poll'.out)] = <<r, Cleared>>
<1>1. r \in DOMAIN rooms /\ Cleared \in Range(rooms[r])
  BY AckPendingRange
<1>2. ~(r \in DOMAIN rooms' /\ Cleared \in Range(rooms'[r]))
  BY AckPendingRange DEF AckPending, Pending, Range
<1>3. Queues /\ RestType
  BY DEF EventInv
<1>4. rooms' # rooms
  BY <1>1, <1>2
<1>5. ASSUME NEW s \in Rooms, NEW e \in Events, Push(s, e) PROVE FALSE
  BY <1>1, <1>2, <1>3, <1>5, PushQueues
<1>6. ASSUME NEW s \in Rooms, Leave(s) PROVE Goal
  <2>1. DOMAIN rooms' = DOMAIN rooms \ {s} /\ \A t \in DOMAIN rooms' : rooms'[t] = rooms[t]
    BY <1>3, <1>6, ForgetQueues DEF Leave
  <2>2. r = s
    BY <1>1, <1>2, <2>1
  <2> QED
    BY <1>6, <2>2 DEF Leave, Forget
<1>7. ASSUME NEW a \in Peers, Block(a) PROVE FALSE
  <2>1. /\ \A s \in DOMAIN rooms' :
             Range(rooms'[s]) = {e \in Range(rooms[s]) : e = Cleared \/ AuthorOf[e] # a}
        /\ \A s \in DOMAIN rooms : Cleared \in Range(rooms[s]) => s \in DOMAIN rooms'
    BY <1>3, <1>7, BlockQueues DEF Block
  <2> QED
    BY <1>1, <1>2, <2>1
<1>8. ASSUME NEW s \in Rooms, TakeRoom(s) PROVE Goal
  <2>1. /\ s \in DOMAIN rooms /\ Head(rooms[s]) \in Events
        /\ \A t \in DOMAIN rooms :
             /\ Cleared \in Range(rooms[t])
             /\ t # s \/ Head(rooms[t]) # Cleared
             => t \in DOMAIN rooms' /\ Cleared \in Range(rooms'[t])
    BY <1>3, <1>8, PopQueues DEF TakeRoom
  <2>2. r = s /\ Head(rooms[s]) = Cleared
    BY <1>1, <1>2, <2>1
  <2>3. Got(<<r, Cleared>>)
    BY <1>8, <2>2 DEF TakeRoom
  <2>4. <<r, Cleared>> \in (Rooms \X Events) \cup {None}
    BY DEF Events
  <2> QED
    BY <1>3, <2>3, <2>4, GotLast
<1>9. ASSUME Close PROVE Goal
  BY <1>9 DEF Close
<1>10. ASSUME NEW s \in Rooms, EmitCleared(s) PROVE FALSE
  BY <1>5, <1>10 DEF EmitCleared, Events
<1>11. ASSUME NEW p \in Publishers, EmitPush(p) PROVE FALSE
  <2>1. holding[p] \in Rooms \X Records
    BY <1>3, <1>11 DEF EmitPush, RestType
  <2>2. holding[p][1] \in Rooms /\ holding[p][2] \in Events
    BY <2>1 DEF Events
  <2> QED
    BY <1>5, <1>11, <2>2 DEF EmitPush
<1>12. CASE PollFirst \/ PollSecond
  BY <1>4, <1>8, <1>12 DEF PollFirst, PollSecond, TryHistory, TryGeneral, TakeGeneral
<1>13. /\ \A s \in Rooms : ~Join(s)
       /\ \A p \in Publishers, s \in Rooms, rec \in Records : ~EmitCheck(p, s, rec)
       /\ \A a \in Peers : ~Unblock(a)
       /\ \A n \in 1..MaxPoll : ~PollBegin(n)
       /\ ~EmitGeneral /\ ~PollReturn /\ ~(UNCHANGED vars)
  BY <1>4, QuietSteps
<1>14. Next
  BY <1>13
<1>15. \/ \E s \in Rooms : Leave(s) \/ EmitCleared(s)
       \/ \E p \in Publishers : EmitPush(p)
       \/ \E a \in Peers : Block(a)
       \/ Close \/ PollFirst \/ PollSecond
  BY <1>13, <1>14 DEF Next, PollStep
<1>16. CASE \E s \in Rooms : Leave(s) \/ EmitCleared(s)
  BY <1>6, <1>10, <1>16
<1>17. CASE \E p \in Publishers : EmitPush(p)
  BY <1>11, <1>17
<1>18. CASE \E a \in Peers : Block(a)
  BY <1>7, <1>18
<1> QED
  BY <1>9, <1>12, <1>15, <1>16, <1>17, <1>18

-----------------------------------------------------------------------------
(* What a full channel gives up.                                           *)

(* A record a push has pushed out was the oldest of a full queue.          *)
LEMMA PushedOut ==
  ASSUME NEW q \in Seq(Events), WellFormed(q), NEW e \in Records,
         NEW i \in RecordsAt(q), q[i] \notin Range(Enqueue(q, e))
  PROVE  Cardinality(RecordsAt(q)) = MaxRecords /\ \A j \in RecordsAt(q) : i <= j
<1>1. Len(q) \in Nat /\ DOMAIN q = 1..Len(q) /\ i \in DOMAIN q /\ e # Cleared
  BY ClearedAssumption DEF RecordsAt
<1>2. Enqueue(q, e) # q
  BY <1>1 DEF Range
<1>3. Enqueue(q, e) = Append(EvictOldest(q), e)
  BY <1>1, <1>2 DEF Enqueue
<1>4. ASSUME NEW k \in Seq(Events), NEW j \in DOMAIN k
      PROVE  k[j] \in Range(Append(k, e))
  <2>1. j \in DOMAIN Append(k, e) /\ Append(k, e)[j] = k[j]
    BY <1>1, <1>4 DEF Events
  <2> QED
    BY <2>1 DEF Range
<1>5. Cardinality(RecordsAt(q)) >= MaxRecords
  <2> SUFFICES ASSUME ~(Cardinality(RecordsAt(q)) >= MaxRecords) PROVE FALSE
    OBVIOUS
  <2>1. EvictOldest(q) = q
    BY DEF EvictOldest
  <2> QED
    BY <1>1, <1>3, <1>4, <2>1
<1>6. \A a \in DOMAIN q : q[a] = Cleared => a = 1
  BY DEF WellFormed
<1>7. Cardinality(RecordsAt(q)) \in Nat /\ Cardinality(RecordsAt(q)) <= MaxRecords
  BY <1>6, RecordCount DEF WellFormed
<1> DEFINE o == OldestRecord(q)
           I == DOMAIN q \ {o}
<1>8. o \in RecordsAt(q) /\ \A j \in RecordsAt(q) : o <= j
  <2>1. PICK m \in RecordsAt(q) : \A j \in RecordsAt(q) : m <= j
    <3>1. RecordsAt(q) = 1..Len(q) \/ RecordsAt(q) = 2..Len(q)
      BY <1>1, <1>6, RecordCount
    <3>2. i \in Int
      BY <1>1
    <3>3. CASE RecordsAt(q) = 1..Len(q)
      BY <1>1, <3>3
    <3>4. CASE RecordsAt(q) = 2..Len(q)
      BY <1>1, <3>4
    <3> QED
      BY <3>1, <3>3, <3>4
  <2> QED
    BY <2>1 DEF OldestRecord
<1>9. KeepAt(q, I) \in Seq(Events) /\ Range(KeepAt(q, I)) = {q[j] : j \in I}
  <2>1. I \in SUBSET (DOMAIN q)
    OBVIOUS
  <2> QED
    BY <2>1, KeepAtShape
<1>10. Enqueue(q, e) = Append(KeepAt(q, I), e)
  BY <1>3, <1>5 DEF EvictOldest, DropAt
<1>11. i = o
  <2> SUFFICES ASSUME i # o PROVE FALSE
    OBVIOUS
  <2>1. q[i] \in Range(KeepAt(q, I))
    BY <1>1, <1>9
  <2>2. PICK j \in DOMAIN KeepAt(q, I) : KeepAt(q, I)[j] = q[i]
    BY <2>1 DEF Range
  <2> HIDE DEF I, o
  <2> QED
    BY <1>4, <1>9, <1>10, <2>2
<1> HIDE DEF o
<1> QED
  BY <1>5, <1>7, <1>8, <1>11, BoundAssumption

(* The records that leave a queue whose channel stays, while nothing is    *)
(* polled, blocked or cleared.                                             *)
LEMMA NextEvictsOldest ==
  ASSUME EventInv, [Next]_vars, NEW r \in Rooms, r \in active', blocked' = blocked, poll' = poll,
         Pending(r)' # <<Cleared>>, NEW i \in RecordsAt(Pending(r)),
         Pending(r)[i] \notin Range(Pending(r)')
  PROVE  /\ Cardinality(RecordsAt(Pending(r))) = MaxRecords
         /\ \A j \in RecordsAt(Pending(r)) : i <= j
<1>1. Queues /\ RestType /\ Purged
  BY DEF EventInv
<1>2. r \in DOMAIN rooms /\ Pending(r) = rooms[r] /\ rooms[r] \in Seq(Events) /\ WellFormed(rooms[r])
  BY <1>1 DEF Pending, RecordsAt, Queues, QueuesType, PendingShape
<1>3. i \in RecordsAt(rooms[r]) /\ rooms[r][i] \in Range(rooms[r])
  BY <1>2 DEF RecordsAt, Range
<1>4. ~(r \in DOMAIN rooms' /\ Range(rooms'[r]) = Range(rooms[r]))
  BY <1>2, <1>3 DEF Pending
<1>5. ~(r \in DOMAIN rooms' /\ rooms'[r] = rooms[r])
  BY <1>4
<1>6. rooms' # rooms
  BY <1>2, <1>5
<1> DEFINE Goal == /\ Cardinality(RecordsAt(rooms[r])) = MaxRecords
                   /\ \A j \in RecordsAt(rooms[r]) : i <= j
<1>7. ASSUME NEW s \in Rooms, NEW e \in Events, Push(s, e) PROVE Goal
  <2>1. s \in active
    BY <1>6, <1>7 DEF Push
  <2>2. rooms' = [t \in DOMAIN rooms \cup {s} |-> IF t = s THEN Enqueue(Pending(s), e) ELSE rooms[t]]
    BY <1>7, <2>1 DEF Push, SetPending
  <2>3. r = s
    BY <1>2, <1>5, <2>2
  <2>4. Pending(r)' = Enqueue(rooms[r], e)
    BY <1>2, <2>2, <2>3 DEF Pending
  <2>5. e \in Records
    BY <2>4 DEF Enqueue, Events
  <2>6. rooms[r][i] \notin Range(Enqueue(rooms[r], e))
    BY <1>2, <2>4
  <2> QED
    BY <1>2, <1>3, <2>5, <2>6, PushedOut
<1>8. ASSUME NEW s \in Rooms, Leave(s) PROVE FALSE
  <2>1. DOMAIN rooms' = DOMAIN rooms \ {s} /\ \A t \in DOMAIN rooms' : rooms'[t] = rooms[t]
    BY <1>1, <1>8, ForgetQueues DEF Leave
  <2>2. r # s
    BY <1>8 DEF Leave, Forget
  <2> QED
    BY <1>2, <1>5, <2>1, <2>2
<1>9. ASSUME NEW a \in Peers, Block(a) PROVE FALSE
  <2>1. /\ \A s \in DOMAIN rooms' :
             Range(rooms'[s]) = {e \in Range(rooms[s]) : e = Cleared \/ AuthorOf[e] # a}
        /\ \A s \in DOMAIN rooms : (\E e \in Range(rooms[s]) : e = Cleared \/ AuthorOf[e] # a)
                                   => s \in DOMAIN rooms'
    BY <1>1, <1>9, BlockQueues DEF Block
  <2>2. a \in blocked
    BY <1>9 DEF Block
  <2>3. \A e \in Range(rooms[r]) : e = Cleared \/ AuthorOf[e] # a
    BY <1>1, <1>2, <2>2 DEF Purged
  <2>4. Range(rooms'[r]) = Range(rooms[r]) /\ r \in DOMAIN rooms'
    BY <1>2, <1>3, <2>1, <2>3
  <2> QED
    BY <1>4, <2>4
<1>10. ASSUME NEW s \in Rooms, TakeRoom(s) PROVE FALSE
  <2>1. poll'.out = Append(poll.out, <<s, Head(rooms[s])>>)
    BY <1>1, <1>10 DEF TakeRoom, Got, RestType, PollType
  <2>2. poll.out \in Seq((Rooms \X Events) \cup {None})
    BY <1>1 DEF RestType, PollType
  <2>3. \A k \in Seq((Rooms \X Events) \cup {None}) : \A x : Append(k, x) # k
    OBVIOUS
  <2> QED
    BY <2>1, <2>2, <2>3
<1>11. ASSUME NEW s \in Rooms, EmitCleared(s) PROVE Goal
  BY <1>7, <1>11 DEF EmitCleared, Events
<1>12. ASSUME NEW p \in Publishers, EmitPush(p) PROVE Goal
  <2>1. holding[p] \in Rooms \X Records
    BY <1>1, <1>12 DEF EmitPush, RestType
  <2>2. holding[p][1] \in Rooms /\ holding[p][2] \in Events
    BY <2>1 DEF Events
  <2> QED
    BY <1>7, <1>12, <2>2 DEF EmitPush
<1>13. ~(PollFirst \/ PollSecond)
  BY <1>6, <1>10 DEF PollFirst, PollSecond, TryHistory, TryGeneral, TakeGeneral
<1>14. ~Close
  BY DEF Close
<1>15. /\ \A s \in Rooms : ~Join(s)
       /\ \A p \in Publishers, s \in Rooms, rec \in Records : ~EmitCheck(p, s, rec)
       /\ \A a \in Peers : ~Unblock(a)
       /\ \A n \in 1..MaxPoll : ~PollBegin(n)
       /\ ~EmitGeneral /\ ~PollReturn /\ ~(UNCHANGED vars)
  BY <1>6, QuietSteps
<1>16. \/ \E s \in Rooms : EmitCleared(s)
       \/ \E p \in Publishers : EmitPush(p)
  BY <1>8, <1>9, <1>13, <1>14, <1>15 DEF Next, PollStep
<1> QED
  BY <1>2, <1>11, <1>12, <1>16

(* In particular turns and queues agree, so that pop finds an event...     *)
COROLLARY QueuesAlwaysAgree == Spec => []QueuesAgree
<1>1. TypeOK /\ ReadyMatchesRooms /\ PendingShape /\ NoBlockedPending /\ LeftRoomsSilent => QueuesAgree
  BY DEF QueuesAgree
<1> QED
  BY <1>1, DeliverySafe, PTL

(* ...and nothing is pending of a blocked author or of a channel that was  *)
(* left, whatever the publishers were doing when block or leave was called.*)
COROLLARY NothingUnwantedPending == Spec => []NothingUnwanted
<1>1. TypeOK /\ ReadyMatchesRooms /\ PendingShape /\ NoBlockedPending /\ LeftRoomsSilent => NothingUnwanted
  BY DEF NothingUnwanted
<1> QED
  BY <1>1, DeliverySafe, PTL

(* The checked action property, for every number of records a channel may  *)
(* hold: no step loses a pending acknowledgement but by handing it over,   *)
(* and what neither a poll nor a block, a clear or a leave took away was   *)
(* the oldest of as many records as the channel may hold.                  *)
THEOREM OldestGoesFirst == Spec => LosesOldestOnly
<1>1. Init => EventInv
  BY InitInv
<1>2. EventInv /\ [Next]_vars => EventInv'
  BY NextInv
<1>3. EventInv /\ [Next]_vars => KeepsAck
  BY NextKeepsAck
<1>4. EventInv /\ [Next]_vars => EvictsOldest
  BY NextEvictsOldest DEF EvictsOldest
<1>5. EventInv /\ [Next]_vars => [KeepsAck /\ EvictsOldest]_vars
  BY <1>3, <1>4
<1> QED
  BY <1>1, <1>2, <1>5, PTL DEF Spec, LosesOldestOnly
=============================================================================
