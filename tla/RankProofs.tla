------------------------------ MODULE RankProofs ------------------------------
(***************************************************************************)
(* Ascending of Ranks has every member of the set, once and in order.      *)
(***************************************************************************)
EXTENDS Ranks, NaturalsInduction, WellFoundedInduction, FiniteSetTheorems, TLAPS

LEMMA MinimalIsLeast ==
  ASSUME NEW T \in SUBSET Nat, NEW R,
         \E x \in T : \A y \in T : ~ (<<y, x>> \in R),
         \A x, y \in Nat : y < x => <<y, x>> \in R
  PROVE  \E x \in T : \A y \in T : x <= y
<1>1. PICK x \in T : \A y \in T : ~ (<<y, x>> \in R)
  OBVIOUS
<1>2. ASSUME NEW y \in T
      PROVE  x <= y
  <2>1. x \in Nat /\ y \in Nat
    OBVIOUS
  <2>2. ~ (y < x)
    BY <1>1, <2>1
  <2>3. QED
    BY <2>1, <2>2
<1>3. QED
  BY <1>2

\* A set of numbers has a least one.
LEMMA LeastNumber ==
  ASSUME NEW T \in SUBSET Nat, T # {}
  PROVE  \E x \in T : \A y \in T : x <= y
<1>1. \E x \in T : \A y \in T : ~ (<<y, x>> \in OpToRel(<, Nat))
  BY NatLessThanWellFounded, WFMin
<1>2. \A x, y \in Nat : y < x => <<y, x>> \in OpToRel(<, Nat)
  BY DEF OpToRel
<1>3. QED
  BY <1>1, <1>2, MinimalIsLeast

LEMMA UpToStep ==
  ASSUME NEW R, \A j \in R : j \in Nat /\ j >= 1, NEW m \in Nat
  PROVE  /\ UpTo(R, 0) = {}
         /\ m \notin R => UpTo(R, m) = UpTo(R, m - 1)
         /\ m \in R => UpTo(R, m) = UpTo(R, m - 1) \cup {m} /\ m \notin UpTo(R, m - 1)
<1>1. \A x : x \in UpTo(R, m) <=> x \in R /\ x <= m
  BY DEF UpTo
<1>2. \A x : x \in UpTo(R, m - 1) <=> x \in R /\ x <= m - 1
  BY DEF UpTo
<1>3. UpTo(R, 0) = {}
  <2>1. \A x \in R : ~ (x <= 0)
    OBVIOUS
  <2>2. QED
    BY <2>1 DEF UpTo
<1>4. \A x \in R : x # m => (x <= m <=> x <= m - 1)
  OBVIOUS
<1>5. m \notin R => UpTo(R, m) = UpTo(R, m - 1)
  BY <1>1, <1>2, <1>4
<1>6. m \in R => m <= m /\ ~ (m <= m - 1)
  OBVIOUS
<1>7. ASSUME m \in R
      PROVE  UpTo(R, m) = UpTo(R, m - 1) \cup {m} /\ m \notin UpTo(R, m - 1)
  BY <1>1, <1>2, <1>4, <1>6, <1>7
<1>8. QED
  BY <1>3, <1>5, <1>7

\* Every rank up to the number of members is the rank of a member.
LEMMA Ranked ==
  ASSUME NEW n \in Nat, NEW R \in SUBSET (1..n), NEW k \in 1..Cardinality(R)
  PROVE  \E i \in R : Cardinality(UpTo(R, i)) = k
<1> DEFINE T == {m \in Nat : Cardinality(UpTo(R, m)) >= k}
<1>0. \A j \in R : j \in Nat /\ j >= 1 /\ j <= n
  OBVIOUS
<1>1. IsFiniteSet(R) /\ Cardinality(R) \in Nat
  <2>1. IsFiniteSet(1..n)
    BY FS_Interval
  <2>2. QED
    BY <2>1, FS_Subset, FS_CardinalityType
<1>2. \A m : IsFiniteSet(UpTo(R, m)) /\ Cardinality(UpTo(R, m)) \in Nat
  <2>1. \A m : UpTo(R, m) \in SUBSET R
    BY DEF UpTo
  <2>2. QED
    BY <1>1, <2>1, FS_Subset, FS_CardinalityType
<1>3. n \in T
  <2>1. UpTo(R, n) = R
    BY <1>0 DEF UpTo
  <2>2. QED
    BY <1>1, <2>1
<1>4. PICK m \in T : \A y \in T : m <= y
  <2>1. T \in SUBSET Nat /\ T # {}
    BY <1>3
  <2> HIDE DEF T
  <2>2. QED
    BY <2>1, LeastNumber
<1>5. m # 0
  <2>1. UpTo(R, 0) = {}
    BY <1>0, UpToStep
  <2>2. Cardinality(UpTo(R, 0)) = 0
    BY <2>1, FS_EmptySet
  <2>3. 0 \notin T
    BY <1>1, <2>2
  <2>4. QED
    BY <2>3
<1>6. m - 1 \in Nat /\ Cardinality(UpTo(R, m - 1)) < k
  <2>1. m - 1 \in Nat /\ m - 1 \notin T
    BY <1>4, <1>5
  <2>2. QED
    BY <1>1, <1>2, <2>1
<1>7. Cardinality(UpTo(R, m)) >= k /\ k \in Nat
  BY <1>1, <1>4
<1>8. m \in R
  <2>1. m \notin R => UpTo(R, m) = UpTo(R, m - 1)
    BY <1>0, <1>4, UpToStep
  <2>2. QED
    BY <1>2, <1>6, <1>7, <2>1
<1>9. Cardinality(UpTo(R, m)) = Cardinality(UpTo(R, m - 1)) + 1
  <2>1. UpTo(R, m) = UpTo(R, m - 1) \cup {m} /\ m \notin UpTo(R, m - 1)
    BY <1>0, <1>4, <1>8, UpToStep
  <2>2. QED
    BY <1>2, <2>1, FS_AddElement
<1>10. QED
  BY <1>2, <1>6, <1>7, <1>8, <1>9

LEMMA RanksFinite ==
  ASSUME NEW n \in Nat, NEW R \in SUBSET (1..n)
  PROVE  /\ IsFiniteSet(R) /\ Cardinality(R) \in Nat
         /\ \A m : IsFiniteSet(UpTo(R, m)) /\ Cardinality(UpTo(R, m)) \in Nat
                   /\ Cardinality(UpTo(R, m)) <= Cardinality(R)
<1>1. IsFiniteSet(1..n)
  BY FS_Interval
<1>2. IsFiniteSet(R) /\ Cardinality(R) \in Nat
  BY <1>1, FS_Subset, FS_CardinalityType
<1>3. \A m : UpTo(R, m) \in SUBSET R
  BY DEF UpTo
<1>4. QED
  BY <1>2, <1>3, FS_Subset, FS_CardinalityType

\* A later member has a higher rank.
LEMMA RanksGrow ==
  ASSUME NEW n \in Nat, NEW R \in SUBSET (1..n), NEW i \in R, NEW j \in R, i < j
  PROVE  Cardinality(UpTo(R, i)) < Cardinality(UpTo(R, j))
<1>0. \A x \in R : x \in Nat
  OBVIOUS
<1>1. UpTo(R, i) \cup {j} \in SUBSET UpTo(R, j) /\ j \notin UpTo(R, i)
  <2>1. \A x : x \in UpTo(R, i) => x \in R /\ x <= i
    BY DEF UpTo
  <2>2. \A x : x \in R /\ x <= j => x \in UpTo(R, j)
    BY DEF UpTo
  <2>3. i \in Nat /\ j \in Nat /\ j <= j /\ ~ (j <= i)
    BY <1>0
  <2>4. \A x \in R : x <= i => x <= j
    BY <1>0, <2>3
  <2>5. QED
    BY <2>1, <2>2, <2>3, <2>4
<1>2. /\ IsFiniteSet(UpTo(R, i)) /\ Cardinality(UpTo(R, i)) \in Nat
      /\ IsFiniteSet(UpTo(R, j)) /\ Cardinality(UpTo(R, j)) \in Nat
  BY RanksFinite
<1>3. Cardinality(UpTo(R, i) \cup {j}) = Cardinality(UpTo(R, i)) + 1
  BY <1>1, <1>2, FS_AddElement
<1>4. Cardinality(UpTo(R, i) \cup {j}) <= Cardinality(UpTo(R, j))
  BY <1>1, <1>2, FS_Subset
<1>5. QED
  BY <1>2, <1>3, <1>4

\* The kth member has rank k.
LEMMA AscendingRank ==
  ASSUME NEW n \in Nat, NEW R \in SUBSET (1..n), NEW k \in 1..Cardinality(R)
  PROVE  Ascending(R)[k] \in R /\ Cardinality(UpTo(R, Ascending(R)[k])) = k
<1>1. Ascending(R)[k] = CHOOSE i \in R : Cardinality(UpTo(R, i)) = k
  BY DEF Ascending
<1>2. \E i \in R : Cardinality(UpTo(R, i)) = k
  BY Ranked
<1>3. QED
  BY <1>1, <1>2

\* What Ascending returns: all members and nothing else, in ascending order.
THEOREM AscendingSorts ==
  ASSUME NEW n \in Nat, NEW R \in SUBSET (1..n)
  PROVE  /\ Cardinality(R) \in Nat
         /\ Ascending(R) \in [1..Cardinality(R) -> R]
         /\ \A i, j \in 1..Cardinality(R) : i < j => Ascending(R)[i] < Ascending(R)[j]
         /\ \A x \in R : \E k \in 1..Cardinality(R) : Ascending(R)[k] = x
<1> DEFINE f == Ascending(R)
           card(x) == Cardinality(UpTo(R, x))
<1>1. Cardinality(R) \in Nat /\ IsFiniteSet(R)
  BY RanksFinite
<1>2. \A k \in 1..Cardinality(R) : f[k] \in R /\ card(f[k]) = k
  BY AscendingRank
<1>3. f \in [1..Cardinality(R) -> R]
  <2> DEFINE nth(k) == CHOOSE i \in R : Cardinality(UpTo(R, i)) = k
  <2>1. f = [k \in 1..Cardinality(R) |-> nth(k)]
    BY DEF Ascending
  <2> HIDE DEF nth, f
  <2>2. \A k \in 1..Cardinality(R) : nth(k) \in R
    BY <1>2, <2>1
  <2>3. QED
    BY <2>1, <2>2
<1>4. \A x, y \in R : x < y => card(x) < card(y)
  BY RanksGrow
<1>5. \A x \in R : card(x) \in Nat /\ card(x) <= Cardinality(R) /\ x \in Nat
  <2>1. \A m : card(m) \in Nat /\ card(m) <= Cardinality(R)
    BY RanksFinite
  <2> HIDE DEF card
  <2>2. QED
    BY <2>1
<1> HIDE DEF f
<1>6. \A x \in R : card(x) >= 1
  <2>1. ASSUME NEW x \in R
        PROVE  card(x) # 0
    <3>1. x \in UpTo(R, x)
      BY <1>5 DEF UpTo
    <3>2. IsFiniteSet(UpTo(R, x))
      BY RanksFinite
    <3>3. QED
      BY <3>1, <3>2, FS_EmptySet
  <2> HIDE DEF card
  <2>2. QED
    BY <1>5, <2>1
<1> HIDE DEF card
<1>7. ASSUME NEW i \in 1..Cardinality(R), NEW j \in 1..Cardinality(R), i < j
      PROVE  f[i] < f[j]
  <2>1. /\ f[i] \in R /\ f[j] \in R /\ f[i] \in Nat /\ f[j] \in Nat
        /\ card(f[i]) = i /\ card(f[j]) = j
    BY <1>2, <1>5
  <2>2. SUFFICES ASSUME ~ (f[i] < f[j]) PROVE FALSE
    OBVIOUS
  <2>3. f[j] < f[i] \/ f[j] = f[i]
    BY <2>1, <2>2
  <2>4. j < i \/ j = i
    BY <1>4, <2>1, <2>3
  <2>5. QED
    BY <1>1, <1>7, <2>4
<1>8. ASSUME NEW x \in R
      PROVE  \E k \in 1..Cardinality(R) : f[k] = x
  <2>1. card(x) \in 1..Cardinality(R)
    BY <1>1, <1>5, <1>6
  <2>2. f[card(x)] \in R /\ card(f[card(x)]) = card(x)
    BY <1>2, <2>1
  <2>3. f[card(x)] = x
    <3>1. PICK y \in R : y = f[card(x)] /\ card(y) = card(x)
      BY <2>2
    <3>2. x \in Nat /\ y \in Nat /\ card(x) \in Nat /\ ~ (card(x) < card(x))
      BY <1>5
    <3>3. ~ (x < y) /\ ~ (y < x)
      BY <1>4, <3>1, <3>2
    <3>4. QED
      BY <3>1, <3>2, <3>3
  <2>4. QED
    BY <2>1, <2>3
<1>9. QED
  BY <1>1, <1>3, <1>7, <1>8 DEF f

=============================================================================
