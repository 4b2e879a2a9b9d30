----------------------------- MODULE PlaceProofs ------------------------------
(***************************************************************************)
(* Facts about places of a sequence and extrema of sets of numbers that the *)
(* proofs about several components need.                                    *)
(***************************************************************************)
EXTENDS Places, FiniteSetsExt, TLAPS, WellFoundedInduction, FiniteSetTheorems, SequenceTheorems

-----------------------------------------------------------------------------
(* Extrema *)

LEMMA LeastExists ==
    ASSUME NEW T, T \subseteq Nat, T # {}
    PROVE  \E x \in T : \A y \in T : x <= y
<1>1. PICK x \in T : \A y \in T : ~(<<y, x>> \in OpToRel(<, Nat))
  BY NatLessThanWellFounded, WFMin
<1>2. \A y \in T : ~(y < x)
  BY <1>1 DEF OpToRel
<1>3. QED
  BY <1>2

LEMMA GreatestExists ==
    ASSUME NEW T, T \subseteq Nat, T # {}, NEW n \in Nat, \A x \in T : x <= n
    PROVE  \E x \in T : \A y \in T : y <= x
<1> DEFINE below == {n - x : x \in T}
<1>1. below \subseteq Nat /\ below # {}
  <2>1. \A x \in T : n - x \in Nat
    OBVIOUS
  <2>2. QED
    BY <2>1
<1>2. PICK m \in below : \A y \in below : m <= y
  BY <1>1, LeastExists
<1>3. PICK x \in T : m = n - x
  OBVIOUS
<1>4. \A y \in T : n - x <= n - y
  BY <1>2, <1>3
<1>5. QED
  BY <1>4

(* A finite set of numbers has a greatest: the one that the fewest exceed. *)
LEMMA GreatestOfFinite ==
    ASSUME NEW S \in SUBSET Int, IsFiniteSet(S), S # {}
    PROVE  \E x \in S : \A y \in S : y <= x
<1> DEFINE Above(x) == {y \in S : y > x}
           counts == {Cardinality(Above(x)) : x \in S}
<1>1. \A x \in S : IsFiniteSet(Above(x)) /\ Cardinality(Above(x)) \in Nat
  BY FS_Subset, FS_CardinalityType
<1>2. counts \subseteq Nat /\ counts # {}
  BY <1>1
<1>3. PICK least \in counts : \A c \in counts : least <= c
  BY <1>2, LeastExists
<1>4. PICK x \in S : least = Cardinality(Above(x))
  BY <1>3
<1>5. ASSUME NEW z \in S, z > x
      PROVE  FALSE
  <2>1. \A y \in S : y > z => y > x
    BY <1>5
  <2>2. Above(z) \subseteq Above(x)
    BY <2>1
  <2>3. z \in Above(x) /\ ~(z > z)
    BY <1>5
  <2>4. Above(z) # Above(x)
    BY <2>3
  <2>5. Cardinality(Above(z)) < Cardinality(Above(x))
    <3>1. IsFiniteSet(Above(x)) /\ Cardinality(Above(x)) \in Nat /\ Cardinality(Above(z)) \in Nat
      BY <1>1
    <3> HIDE DEF Above
    <3>2. Cardinality(Above(z)) <= Cardinality(Above(x)) /\ Cardinality(Above(z)) # Cardinality(Above(x))
      BY <2>2, <2>4, <3>1, FS_Subset
    <3>3. QED
      BY <3>1, <3>2
  <2>6. Cardinality(Above(x)) <= Cardinality(Above(z))
    BY <1>3, <1>4
  <2>7. QED
    BY <1>1, <2>5, <2>6
<1>6. QED
  BY <1>5

LEMMA LeastOfFinite ==
    ASSUME NEW S \in SUBSET Int, IsFiniteSet(S), S # {}
    PROVE  \E x \in S : \A y \in S : x <= y
<1> DEFINE Below(x) == {y \in S : y < x}
           counts == {Cardinality(Below(x)) : x \in S}
<1>1. \A x \in S : IsFiniteSet(Below(x)) /\ Cardinality(Below(x)) \in Nat
  BY FS_Subset, FS_CardinalityType
<1>2. counts \subseteq Nat /\ counts # {}
  BY <1>1
<1>3. PICK least \in counts : \A c \in counts : least <= c
  BY <1>2, LeastExists
<1>4. PICK x \in S : least = Cardinality(Below(x))
  BY <1>3
<1>5. ASSUME NEW z \in S, z < x
      PROVE  FALSE
  <2>1. \A y \in S : y < z => y < x
    BY <1>5
  <2>2. Below(z) \subseteq Below(x)
    BY <2>1
  <2>3. z \in Below(x) /\ ~(z < z)
    BY <1>5
  <2>4. Below(z) # Below(x)
    BY <2>3
  <2>5. Cardinality(Below(z)) < Cardinality(Below(x))
    <3>1. IsFiniteSet(Below(x)) /\ Cardinality(Below(x)) \in Nat /\ Cardinality(Below(z)) \in Nat
      BY <1>1
    <3> HIDE DEF Below
    <3>2. Cardinality(Below(z)) <= Cardinality(Below(x)) /\ Cardinality(Below(z)) # Cardinality(Below(x))
      BY <2>2, <2>4, <3>1, FS_Subset
    <3>3. QED
      BY <3>1, <3>2
  <2>6. Cardinality(Below(x)) <= Cardinality(Below(z))
    BY <1>3, <1>4
  <2>7. QED
    BY <1>1, <2>5, <2>6
<1>6. QED
  BY <1>5

LEMMA MaxOfFinite ==
    ASSUME NEW S \in SUBSET Int, IsFiniteSet(S), S # {}
    PROVE  Max(S) \in S /\ \A y \in S : y <= Max(S)
<1>1. \E x \in S : \A y \in S : x >= y
  BY GreatestOfFinite
<1>2. QED
  BY <1>1 DEF Max

LEMMA MinOfFinite ==
    ASSUME NEW S \in SUBSET Int, IsFiniteSet(S), S # {}
    PROVE  Min(S) \in S /\ \A y \in S : Min(S) <= y
<1>1. \E x \in S : \A y \in S : x =< y
  BY LeastOfFinite
<1>2. QED
  BY <1>1 DEF Min

-----------------------------------------------------------------------------
(* The items at some places *)

(* The ranks tell the places apart, and each place is picked. *)
LEMMA RankOfPlaces ==
    ASSUME NEW places \in SUBSET Nat, IsFiniteSet(places)
    PROVE  /\ \A i \in places : Rank(places, i) \in 1..Cardinality(places)
           /\ \A i, k \in places : i < k => Rank(places, i) < Rank(places, k)
<1> DEFINE UpTo(i) == {j \in places : j <= i}
<1>0. \A i \in places : Rank(places, i) = Cardinality(UpTo(i))
  BY DEF Rank
<1>1. Cardinality(places) \in Nat
  BY FS_CardinalityType
<1>2. ASSUME NEW i \in places
      PROVE  IsFiniteSet(UpTo(i)) /\ Cardinality(UpTo(i)) \in 1..Cardinality(places)
  <2>1. IsFiniteSet(UpTo(i)) /\ Cardinality(UpTo(i)) <= Cardinality(places)
    BY FS_Subset
  <2>2. i \in UpTo(i)
    OBVIOUS
  <2>3. Cardinality(UpTo(i)) \in Nat /\ Cardinality(UpTo(i)) # 0
    BY <2>1, <2>2, FS_EmptySet, FS_CardinalityType
  <2>4. QED
    BY <1>1, <2>1, <2>3
<1>3. ASSUME NEW i \in places, NEW k \in places, i < k
      PROVE  Cardinality(UpTo(i)) < Cardinality(UpTo(k))
  <2>1. i \in Nat /\ k \in Nat /\ \A j \in places : j \in Nat
    OBVIOUS
  <2>2. \A j \in places : j <= i => j <= k
    BY <1>3, <2>1
  <2>3. UpTo(i) \subseteq UpTo(k)
    BY <2>2
  <2>4. k <= k /\ ~(k <= i)
    BY <1>3, <2>1
  <2>5. k \in UpTo(k) /\ k \notin UpTo(i)
    BY <2>4
  <2>6. QED
    BY <1>2, <2>3, <2>5, FS_Subset
<1>4. QED
  BY <1>0, <1>2, <1>3

(* Of finitely many places one is the n-th. *)
LEMMA NthExists ==
    ASSUME NEW places \in SUBSET Nat, IsFiniteSet(places), NEW n \in 1..Cardinality(places)
    PROVE  \E i \in places : Rank(places, i) = n
<1> DEFINE rank == [i \in places |-> Rank(places, i)]
<1>1. Cardinality(places) \in Nat
  BY FS_CardinalityType
<1>2. rank \in Injection(places, 1..Cardinality(places))
  <2>1. rank \in [places -> 1..Cardinality(places)]
    BY RankOfPlaces
  <2>2. ASSUME NEW i \in places, NEW k \in places, rank[i] = rank[k]
        PROVE  i = k
    <3>1. rank[i] \in Nat /\ rank[k] \in Nat /\ i \in Nat /\ k \in Nat
      BY <1>1, <2>1
    <3>2. ~(i < k) /\ ~(k < i)
      BY <2>2, <3>1, RankOfPlaces
    <3>3. QED
      BY <3>1, <3>2
  <2>3. QED
    BY <2>1, <2>2 DEF Injection, IsInjective
<1>3. IsFiniteSet(1..Cardinality(places)) /\ Cardinality(1..Cardinality(places)) = Cardinality(places)
  BY <1>1, FS_Interval
<1>4. rank \in Surjection(places, 1..Cardinality(places))
  BY <1>2, <1>3, FS_Injection
<1>5. QED
  BY <1>4 DEF Surjection

(* Picked takes the items at the places, each once. *)
LEMMA PickedItems ==
    ASSUME NEW S, NEW seq \in Seq(S), NEW places \in SUBSET (DOMAIN seq)
    PROVE  /\ Picked(seq, places) \in Seq(S)
           /\ IsFiniteSet(places) /\ Len(Picked(seq, places)) = Cardinality(places)
           /\ \A n \in 1..Cardinality(places) :
                 \E i \in places : /\ Rank(places, i) = n
                                   /\ Picked(seq, places)[n] = seq[i]
<1> DEFINE Nth(n) == CHOOSE i \in places : Rank(places, i) = n
<1>1. DOMAIN seq = 1..Len(seq) /\ Len(seq) \in Nat /\ \A i \in DOMAIN seq : seq[i] \in S
  OBVIOUS
<1>2. IsFiniteSet(places) /\ Cardinality(places) \in Nat
  <2>1. IsFiniteSet(1..Len(seq)) /\ places \in SUBSET (1..Len(seq))
    BY <1>1, FS_Interval
  <2>2. QED
    BY <2>1, FS_Subset, FS_CardinalityType
<1>3. \A n \in 1..Cardinality(places) :
          Nth(n) \in places /\ Rank(places, Nth(n)) = n
  <2>1. places \in SUBSET Nat
    BY <1>1
  <2>2. QED
    BY <1>2, <2>1, NthExists
<1>4. Picked(seq, places) = [n \in 1..Cardinality(places) |-> seq[Nth(n)]]
  BY DEF Picked
<1> HIDE DEF Nth
<1>5. \A n \in 1..Cardinality(places) : seq[Nth(n)] \in S
  BY <1>1, <1>3
<1>6. Picked(seq, places) \in Seq(S) /\ Len(Picked(seq, places)) = Cardinality(places)
  BY <1>2, <1>4, <1>5
<1>7. QED
  BY <1>2, <1>3, <1>4, <1>6

(* Every place is picked. *)
LEMMA PickedAll ==
    ASSUME NEW S, NEW seq \in Seq(S), NEW places \in SUBSET (DOMAIN seq), NEW i \in places
    PROVE  \E n \in 1..Cardinality(places) : n = Rank(places, i) /\ Picked(seq, places)[n] = seq[i]
<1>1. places \in SUBSET Nat /\ IsFiniteSet(places)
  BY PickedItems
<1>2. Rank(places, i) \in 1..Cardinality(places)
  BY <1>1, RankOfPlaces
<1>3. PICK k \in places : /\ Rank(places, k) = Rank(places, i)
                          /\ Picked(seq, places)[Rank(places, i)] = seq[k]
  BY <1>2, PickedItems
<1>4. k = i
  <2>1. Rank(places, i) \in Nat /\ i \in Nat /\ k \in Nat
    BY <1>1, <1>2, FS_CardinalityType
  <2>2. ~(i < k) /\ ~(k < i)
    BY <1>1, <1>3, <2>1, RankOfPlaces
  <2>3. QED
    BY <2>1, <2>2
<1>5. QED
  BY <1>2, <1>3, <1>4

(* The item at the greatest place comes last. *)
LEMMA PickedLast ==
    ASSUME NEW S, NEW seq \in Seq(S), NEW places \in SUBSET (DOMAIN seq),
           NEW i \in places, \A j \in places : j <= i
    PROVE  /\ Len(Picked(seq, places)) \in Nat \ {0}
           /\ Picked(seq, places)[Len(Picked(seq, places))] = seq[i]
<1>1. IsFiniteSet(places) /\ Len(Picked(seq, places)) = Cardinality(places)
  BY PickedItems
<1>2. Rank(places, i) = Cardinality(places)
  <2>1. {j \in places : j <= i} = places
    OBVIOUS
  <2>2. QED
    BY <2>1 DEF Rank
<1>3. Cardinality(places) \in Nat
  BY <1>1, FS_CardinalityType
<1>4. QED
  BY <1>1, <1>2, <1>3, PickedAll

-----------------------------------------------------------------------------
(* One sequence behind another *)

(* n items that stand behind m others. *)
Follows(whole, first, m, then, n) ==
    /\ Len(whole) = m + n
    /\ \A i \in 1..m : whole[i] = first[i]
    /\ \A i \in 1..n : whole[m + i] = then[i]

LEMMA ConcatFollows ==
    ASSUME NEW S, NEW s \in Seq(S), NEW t \in Seq(S)
    PROVE  s \o t \in Seq(S) /\ Follows(s \o t, s, Len(s), t, Len(t))
<1>1. Len(s \o t) = Len(s) + Len(t) /\ s \o t \in Seq(S)
  OBVIOUS
<1>2. \A i \in 1..Len(s) : (s \o t)[i] = s[i]
  OBVIOUS
<1>3. \A i \in 1..Len(t) : (s \o t)[Len(s) + i] = t[i]
  OBVIOUS
<1>4. QED
  BY <1>1, <1>2, <1>3 DEF Follows
=============================================================================
