--------------------------- MODULE SequenceLemmas ---------------------------
(***************************************************************************)
(* Facts about sequences and naturals that the proofs share.               *)
(***************************************************************************)
EXTENDS Integers, Sequences, SequencesExt, Subsequences, FiniteSetTheorems, TLAPS

(***************************************************************************)
(* A nonempty set of naturals has a least element.                         *)
(***************************************************************************)
LEMMA LeastNatural ==
    ASSUME NEW S, S \subseteq Nat, S # {}
    PROVE  \E i \in S : \A j \in S : i <= j
<1> DEFINE R == {ss \in Nat \X Nat : ss[1] < ss[2]}
<1>1. IsWellFoundedOn(R, Nat)
  BY NatLessThanWellFounded, Zenon DEF OpToRel
<1>2. PICK i \in S : \A j \in S : <<j, i>> \notin R
  <2> HIDE DEF R
  <2> QED BY <1>1, WFMin
<1>3. \A j \in S : i <= j
  <2> SUFFICES ASSUME NEW j \in S, j < i PROVE FALSE
    OBVIOUS
  <2>1. <<j, i>> \in R
    OBVIOUS
  <2> QED BY <1>2, <2>1
<1> QED
  BY <1>3

\* A nonempty set of naturals that stays below a bound has a greatest one.
LEMMA GreatestNatural ==
    ASSUME NEW S, S \subseteq Nat, S # {}, NEW n \in Nat, \A i \in S : i <= n
    PROVE  \E i \in S : \A j \in S : j <= i
<1> DEFINE above == {k \in Nat : \A i \in S : i <= k}
<1>1. above \subseteq Nat /\ n \in above
  OBVIOUS
<1>2. PICK k \in above : \A l \in above : k <= l
  <2> HIDE DEF above
  <2> QED BY <1>1, LeastNatural
<1>3. k \in S
  <2> SUFFICES ASSUME k \notin S PROVE FALSE
    OBVIOUS
  <2>1. \A i \in S : i \in Nat /\ i <= k /\ i # k
    BY <1>2
  <2>2. PICK i \in S : TRUE
    OBVIOUS
  <2>3. k \in Nat /\ k >= 1
    BY <1>2, <2>1, <2>2
  <2>4. k - 1 \in Nat /\ \A j \in S : j <= k - 1
    BY <2>1, <2>3
  <2>5. k - 1 \in above
    BY <2>4
  <2> QED BY <1>2, <2>3, <2>5
<1> QED BY <1>2, <1>3

\* The elements of the empty sequence, and of one that was appended to.
LEMMA ToSetEmpty == ToSet(<<>>) = {}
BY DEF ToSet

LEMMA ToSetAppend ==
    ASSUME NEW S, NEW q \in Seq(S), NEW t \in S
    PROVE  ToSet(Append(q, t)) = ToSet(q) \cup {t}
<1> DEFINE r == Append(q, t)
<1>1. /\ Len(q) \in Nat /\ DOMAIN q = 1..Len(q)
      /\ DOMAIN r = 1..(Len(q) + 1)
      /\ r[Len(q) + 1] = t /\ \A j \in 1..Len(q) : r[j] = q[j]
  OBVIOUS
<1> HIDE DEF r
<1>2. \A j \in 1..(Len(q) + 1) : j \in 1..Len(q) \/ j = Len(q) + 1
  BY <1>1
<1>3. Len(q) + 1 \in 1..(Len(q) + 1) /\ 1..Len(q) \subseteq 1..(Len(q) + 1)
  BY <1>1
<1>4. ToSet(r) = ToSet(q) \cup {t}
  BY <1>1, <1>2, <1>3 DEF ToSet
<1> QED
  BY <1>4 DEF r

\* RemoveAt leaves the other elements, in their order.
LEMMA RemoveAtType ==
    ASSUME NEW S, NEW q \in Seq(S), NEW i \in DOMAIN q
    PROVE  /\ RemoveAt(q, i) \in Seq(S)
           /\ Len(RemoveAt(q, i)) = Len(q) - 1
           /\ \A j \in 1..(Len(q) - 1) :
                 RemoveAt(q, i)[j] = IF j < i THEN q[j] ELSE q[j + 1]
<1> DEFINE a == SubSeq(q, 1, i - 1)
           b == SubSeq(q, i + 1, Len(q))
<1>1. i \in 1..Len(q) /\ Len(q) \in Nat
  OBVIOUS
<1>2. a \in Seq(S) /\ Len(a) = i - 1 /\ \A j \in 1..(i - 1) : a[j] = q[j]
  BY <1>1
<1>3. /\ b \in Seq(S) /\ Len(b) = Len(q) - i
      /\ \A j \in 1..(Len(q) - i) : b[j] = q[i + j]
  BY <1>1
<1>4. RemoveAt(q, i) = a \o b
  BY DEF RemoveAt
<1> HIDE DEF a, b
<1>5. a \o b \in Seq(S) /\ Len(a \o b) = Len(q) - 1
  BY <1>1, <1>2, <1>3
<1>6. ASSUME NEW j \in 1..(Len(q) - 1)
      PROVE  (a \o b)[j] = IF j < i THEN q[j] ELSE q[j + 1]
  <2>1. CASE j < i
    BY <1>1, <1>2, <1>3, <2>1
  <2>2. CASE ~(j < i)
    <3>1. (a \o b)[j] = b[j - (i - 1)]
      BY <1>1, <1>2, <1>3, <2>2
    <3>2. j - (i - 1) \in 1..(Len(q) - i) /\ i + (j - (i - 1)) = j + 1
      BY <1>1, <2>2
    <3> QED
      BY <1>3, <2>2, <3>1, <3>2
  <2> QED
    BY <2>1, <2>2
<1> QED
  BY <1>4, <1>5, <1>6

\* RemoveAt adds no element.
LEMMA RemoveAtElements ==
    ASSUME NEW S, NEW q \in Seq(S), NEW i \in DOMAIN q
    PROVE  ToSet(RemoveAt(q, i)) \subseteq ToSet(q)
<1> DEFINE r == RemoveAt(q, i)
<1>1. r \in Seq(S) /\ Len(r) = Len(q) - 1
  BY RemoveAtType
<1>2. ASSUME NEW j \in DOMAIN r PROVE \E k \in DOMAIN q : r[j] = q[k]
  <2>1. j \in 1..(Len(q) - 1)
    BY <1>1
  <2>2. r[j] = IF j < i THEN q[j] ELSE q[j + 1]
    BY <2>1, RemoveAtType
  <2>3. j \in DOMAIN q /\ j + 1 \in DOMAIN q
    BY <2>1
  <2> QED
    BY <2>2, <2>3
<1> QED
  BY <1>2 DEF ToSet

\* RemoveAt(q, i) keeps every element but the one at i.
LEMMA RemoveAtKeeps ==
    ASSUME NEW S, NEW q \in Seq(S), NEW i \in DOMAIN q,
           NEW k \in DOMAIN q, k # i
    PROVE  \E j \in DOMAIN RemoveAt(q, i) : RemoveAt(q, i)[j] = q[k]
<1> DEFINE r == RemoveAt(q, i)
<1>1. /\ r \in Seq(S) /\ Len(r) = Len(q) - 1
      /\ \A j \in 1..(Len(q) - 1) : r[j] = IF j < i THEN q[j] ELSE q[j + 1]
  BY RemoveAtType
<1>2. DOMAIN r = 1..(Len(q) - 1) /\ k \in 1..Len(q) /\ i \in 1..Len(q)
  BY <1>1
<1> HIDE DEF r
<1>3. CASE k < i
  <2>1. k \in 1..(Len(q) - 1) /\ r[k] = q[k]
    BY <1>1, <1>2, <1>3
  <2> QED
    BY <1>2, <2>1 DEF r
<1>4. CASE i < k
  <2>1. k - 1 \in 1..(Len(q) - 1) /\ ~(k - 1 < i) /\ (k - 1) + 1 = k
    BY <1>2, <1>4
  <2>2. r[k - 1] = q[k]
    BY <1>1, <2>1
  <2> QED
    BY <1>2, <2>1, <2>2 DEF r
<1> QED
  BY <1>2, <1>3, <1>4

(***************************************************************************)
(* Where the element at position j of RemoveAt(q, i) stood in q.           *)
(***************************************************************************)
Origin(j, i) == IF j < i THEN j ELSE j + 1

LEMMA RemoveAtOrigin ==
    ASSUME NEW S, NEW q \in Seq(S), NEW i \in DOMAIN q
    PROVE  /\ \A j \in DOMAIN RemoveAt(q, i) :
                 /\ Origin(j, i) \in DOMAIN q /\ Origin(j, i) # i
                 /\ RemoveAt(q, i)[j] = q[Origin(j, i)]
           /\ \A j, k \in DOMAIN RemoveAt(q, i) :
                 Origin(j, i) = Origin(k, i) => j = k
<1>1. /\ DOMAIN RemoveAt(q, i) = 1..(Len(q) - 1) /\ DOMAIN q = 1..Len(q)
      /\ i \in 1..Len(q) /\ Len(q) \in Nat
  BY RemoveAtType
<1>2. \A j \in 1..(Len(q) - 1) :
         RemoveAt(q, i)[j] = IF j < i THEN q[j] ELSE q[j + 1]
  BY RemoveAtType
<1> QED
  BY <1>1, <1>2 DEF Origin

(***************************************************************************)
(* What the operations on a queue do to its elements when no element       *)
(* occurs in it twice.                                                     *)
(***************************************************************************)
LEMMA AppendDistinct ==
    ASSUME NEW S, NEW q \in Seq(S), NEW t \in S, IsInjective(q),
           t \notin ToSet(q)
    PROVE  IsInjective(Append(q, t))
<1> DEFINE r == Append(q, t)
<1>1. /\ Len(q) \in Nat /\ DOMAIN q = 1..Len(q)
      /\ DOMAIN r = 1..(Len(q) + 1)
      /\ r[Len(q) + 1] = t /\ \A j \in 1..Len(q) : r[j] = q[j]
  OBVIOUS
<1>2. \A j \in 1..Len(q) : q[j] # t
  BY <1>1 DEF ToSet
<1>3. \A j \in 1..(Len(q) + 1) : j \in 1..Len(q) \/ j = Len(q) + 1
  BY <1>1
<1>4. ASSUME NEW j \in DOMAIN r, NEW k \in DOMAIN r, r[j] = r[k]
      PROVE  j = k
  <2> HIDE DEF r
  <2> QED BY <1>1, <1>2, <1>3, <1>4 DEF IsInjective
<1> QED
  BY <1>4 DEF IsInjective

LEMMA RemoveAtDistinct ==
    ASSUME NEW S, NEW q \in Seq(S), NEW i \in DOMAIN q, IsInjective(q)
    PROVE  /\ IsInjective(RemoveAt(q, i))
           /\ ToSet(RemoveAt(q, i)) = ToSet(q) \ {q[i]}
<1> DEFINE r == RemoveAt(q, i)
<1>1. /\ \A j \in DOMAIN r : /\ Origin(j, i) \in DOMAIN q /\ Origin(j, i) # i
                             /\ r[j] = q[Origin(j, i)]
      /\ \A j, k \in DOMAIN r : Origin(j, i) = Origin(k, i) => j = k
  BY RemoveAtOrigin
<1>2. IsInjective(r)
  <2> HIDE DEF r
  <2> QED BY <1>1 DEF IsInjective
<1>3. q[i] \notin ToSet(r)
  <2> HIDE DEF r
  <2> QED BY <1>1 DEF IsInjective, ToSet
<1>4. ToSet(q) \ {q[i]} \subseteq ToSet(r)
  <2> SUFFICES ASSUME NEW k \in DOMAIN q, k # i PROVE q[k] \in ToSet(r)
    BY DEF ToSet
  <2>1. \E j \in DOMAIN r : r[j] = q[k]
    BY RemoveAtKeeps
  <2> QED
    BY <2>1 DEF ToSet
<1>5. ToSet(r) \subseteq ToSet(q)
  BY RemoveAtElements
<1>6. ToSet(r) = ToSet(q) \ {q[i]}
  <2> HIDE DEF r
  <2> QED BY <1>3, <1>4, <1>5
<1> QED
  BY <1>2, <1>6

LEMMA TailDistinct ==
    ASSUME NEW S, NEW q \in Seq(S), q # <<>>, IsInjective(q)
    PROVE  /\ IsInjective(Tail(q))
           /\ ToSet(Tail(q)) = ToSet(q) \ {Head(q)}
           /\ Head(q) \in ToSet(q)
<1> DEFINE r == Tail(q)
<1>1. /\ Len(q) \in Nat /\ DOMAIN q = 1..Len(q) /\ 1 \in DOMAIN q
      /\ DOMAIN r = 1..(Len(q) - 1) /\ Head(q) = q[1]
      /\ \A j \in 1..(Len(q) - 1) : r[j] = q[j + 1]
  OBVIOUS
<1> HIDE DEF r
<1>2. \A j \in DOMAIN r : j + 1 \in DOMAIN q /\ j + 1 # 1
  BY <1>1
<1>3. \A k \in DOMAIN q : k # 1 => k - 1 \in DOMAIN r /\ (k - 1) + 1 = k
  BY <1>1
<1>4. \A j, k \in DOMAIN r : j + 1 = k + 1 => j = k
  BY <1>1
<1>5. IsInjective(r)
  BY <1>1, <1>2, <1>4 DEF IsInjective
<1>6. ToSet(r) = ToSet(q) \ {q[1]}
  <2>1. \A x \in ToSet(r) : x \in ToSet(q) /\ x # q[1]
    BY <1>1, <1>2 DEF IsInjective, ToSet
  <2>2. ASSUME NEW k \in DOMAIN q, q[k] # q[1] PROVE q[k] \in ToSet(r)
    <3>1. k - 1 \in DOMAIN r /\ r[k - 1] = q[k]
      BY <1>1, <1>3, <2>2
    <3> QED
      BY <3>1 DEF ToSet
  <2> QED
    BY <2>1, <2>2 DEF ToSet
<1> QED
  BY <1>1, <1>5, <1>6 DEF r, ToSet

-----------------------------------------------------------------------------
(* Subsequences.                                                           *)

\* Ordinal numbers the positions, in their order and without a gap.
LEMMA OrdinalOrders ==
    ASSUME NEW P \in SUBSET Nat, IsFiniteSet(P)
    PROVE  /\ \A i \in P : Ordinal(P, i) \in 1 .. Cardinality(P)
           /\ \A i, j \in P : i < j => Ordinal(P, i) < Ordinal(P, j)
<1>1. Cardinality(P) \in Nat
  BY FS_CardinalityType
<1>2. ASSUME NEW i \in P PROVE Ordinal(P, i) \in 1 .. Cardinality(P)
  <2> DEFINE below == {j \in P : j <= i}
  <2>1. below \in SUBSET P /\ i \in below
    OBVIOUS
  <2>2. IsFiniteSet(below) /\ Cardinality(below) <= Cardinality(P)
    BY <2>1, FS_Subset
  <2>3. Cardinality(below) \in Nat /\ Cardinality(below) # 0
    BY <2>1, <2>2, FS_EmptySet, FS_CardinalityType
  <2> QED BY <1>1, <2>2, <2>3 DEF Ordinal
<1>3. ASSUME NEW i \in P, NEW j \in P, i < j PROVE Ordinal(P, i) < Ordinal(P, j)
  <2> DEFINE less == {k \in P : k <= i}
             more == {k \in P : k <= j}
  <2>1. less \in SUBSET more /\ more \in SUBSET P /\ j \in more /\ j \notin less
    <3>1. i \in Nat /\ j \in Nat /\ \A k \in P : k \in Nat
      OBVIOUS
    <3>2. ~(j <= i) /\ j <= j /\ \A k \in P : k <= i => k <= j
      BY <1>3, <3>1
    <3> QED BY <3>2
  <2>2. IsFiniteSet(more)
    BY <2>1, FS_Subset
  <2>3. Cardinality(less) <= Cardinality(more) /\ Cardinality(less) # Cardinality(more)
    BY <2>1, <2>2, FS_Subset
  <2>4. IsFiniteSet(less)
    BY <2>1, <2>2, FS_Subset
  <2>5. Cardinality(less) \in Nat /\ Cardinality(more) \in Nat
    BY <2>2, <2>4, FS_CardinalityType
  <2> QED BY <2>3, <2>5 DEF Ordinal
<1> QED BY <1>2, <1>3

LEMMA OrdinalHits ==
    ASSUME NEW P \in SUBSET Nat, IsFiniteSet(P), NEW k \in 1 .. Cardinality(P)
    PROVE  \E i \in P : Ordinal(P, i) = k
<1> DEFINE n == Cardinality(P)
           r == [i \in P |-> Ordinal(P, i)]
<1>1. n \in Nat
  BY FS_CardinalityType
<1>2. IsFiniteSet(1 .. n) /\ Cardinality(1 .. n) = n
  BY <1>1, FS_Interval
<1>3. r \in [P -> 1 .. n]
  BY OrdinalOrders
<1>4. ASSUME NEW i \in P, NEW j \in P, r[i] = r[j] PROVE i = j
  <2>1. r[i] \in Nat /\ r[j] \in Nat
    BY <1>1, <1>3
  <2>2. i < j => r[i] < r[j]
    BY OrdinalOrders
  <2>3. j < i => r[j] < r[i]
    BY OrdinalOrders
  <2> HIDE DEF r
  <2> QED BY <1>4, <2>1, <2>2, <2>3
<1>5. r \in Injection(P, 1 .. n)
  BY <1>3, <1>4 DEF Injection, IsInjective
<1>6. r \in Surjection(P, 1 .. n)
  BY <1>2, <1>5, FS_Injection
<1> QED
  BY <1>6 DEF Surjection

(***************************************************************************)
(* A subsequence holds the elements at its positions, each once, in order. *)
(***************************************************************************)
LEMMA SubsequenceKeeps ==
    ASSUME NEW T, NEW s \in Seq(T), NEW P \in SUBSET DOMAIN s
    PROVE  /\ IsFiniteSet(P) /\ Cardinality(P) \in Nat
           /\ Subsequence(s, P) \in Seq(T)
           /\ Len(Subsequence(s, P)) = Cardinality(P)
           /\ \A k \in 1 .. Cardinality(P) :
                 Nth(P, k) \in P /\ Subsequence(s, P)[k] = s[Nth(P, k)]
           /\ \A k, l \in 1 .. Cardinality(P) : k < l => Nth(P, k) < Nth(P, l)
           /\ \A i \in P : \E k \in 1 .. Cardinality(P) : Nth(P, k) = i
<1> DEFINE n == Cardinality(P)
           r == Subsequence(s, P)
<1>1. Len(s) \in Nat /\ DOMAIN s = 1 .. Len(s) /\ P \in SUBSET Nat
  OBVIOUS
<1>2. IsFiniteSet(P) /\ n \in Nat
  <2>1. IsFiniteSet(1 .. Len(s))
    BY <1>1, FS_Interval
  <2>2. IsFiniteSet(P)
    BY <1>1, <2>1, FS_Subset
  <2> QED BY <2>2, FS_CardinalityType
<1>3. ASSUME NEW k \in 1 .. n PROVE Nth(P, k) \in P /\ Ordinal(P, Nth(P, k)) = k
  BY <1>1, <1>2, OrdinalHits DEF Nth
<1>4. ASSUME NEW k \in 1 .. n PROVE r[k] = s[Nth(P, k)]
  BY DEF Subsequence
<1>5. r \in Seq(T) /\ Len(r) = n
  <2>1. r = [k \in 1 .. n |-> s[Nth(P, k)]]
    BY DEF Subsequence
  <2>2. \A k \in 1 .. n : s[Nth(P, k)] \in T
    BY <1>3
  <2> QED BY <1>2, <2>1, <2>2
<1>6. ASSUME NEW k \in 1 .. n, NEW l \in 1 .. n, k < l PROVE Nth(P, k) < Nth(P, l)
  <2>1. Nth(P, k) \in P /\ Nth(P, l) \in P /\ Ordinal(P, Nth(P, k)) < Ordinal(P, Nth(P, l))
    BY <1>3, <1>6
  <2>2. Nth(P, k) # Nth(P, l)
    BY <1>3, <1>6
  <2>3. Ordinal(P, Nth(P, k)) \in Nat /\ Ordinal(P, Nth(P, l)) \in Nat
    BY <1>3
  <2>4. Nth(P, l) < Nth(P, k) => Ordinal(P, Nth(P, l)) < Ordinal(P, Nth(P, k))
    BY <1>1, <1>2, <2>1, OrdinalOrders
  <2>5. Nth(P, l) \in Nat /\ Nth(P, k) \in Nat
    BY <1>1, <2>1
  <2> QED BY <2>1, <2>2, <2>3, <2>4, <2>5
<1>7. ASSUME NEW i \in P PROVE \E k \in 1 .. n : Nth(P, k) = i
  <2>1. Ordinal(P, i) \in 1 .. n
    BY <1>1, <1>2, OrdinalOrders
  <2>2. Nth(P, Ordinal(P, i)) \in P /\ Ordinal(P, Nth(P, Ordinal(P, i))) = Ordinal(P, i)
    BY <1>3, <2>1
  <2>3. \A j \in P : j # i => Ordinal(P, j) # Ordinal(P, i)
    <3> SUFFICES ASSUME NEW j \in P, j # i PROVE Ordinal(P, j) # Ordinal(P, i)
      OBVIOUS
    <3>1. i \in Nat /\ j \in Nat /\ Ordinal(P, i) \in Nat /\ Ordinal(P, j) \in Nat
      BY <1>1, <1>2, OrdinalOrders
    <3>2. /\ i < j => Ordinal(P, i) < Ordinal(P, j)
          /\ j < i => Ordinal(P, j) < Ordinal(P, i)
      BY <1>1, <1>2, OrdinalOrders
    <3> QED BY <3>1, <3>2
  <2> QED BY <2>1, <2>2, <2>3
<1> QED BY <1>2, <1>3, <1>4, <1>5, <1>6, <1>7

LEMMA SubsequenceElements ==
    ASSUME NEW T, NEW s \in Seq(T), NEW P \in SUBSET DOMAIN s
    PROVE  ToSet(Subsequence(s, P)) = {s[i] : i \in P}
<1> DEFINE r == Subsequence(s, P)
           n == Cardinality(P)
<1>1. /\ n \in Nat /\ r \in Seq(T) /\ Len(r) = n
      /\ \A k \in 1 .. n : Nth(P, k) \in P /\ r[k] = s[Nth(P, k)]
      /\ \A i \in P : \E k \in 1 .. n : Nth(P, k) = i
  BY SubsequenceKeeps
<1>2. DOMAIN r = 1 .. n
  BY <1>1
<1> HIDE DEF r, n
<1>3. ToSet(r) = {s[i] : i \in P}
  BY <1>1, <1>2 DEF ToSet
<1> QED BY <1>3 DEF r

\* Distinct keeps every element, once.
LEMMA DistinctElements ==
    ASSUME NEW T, NEW s \in Seq(T)
    PROVE  /\ Distinct(s) \in Seq(T)
           /\ ToSet(Distinct(s)) = ToSet(s)
           /\ IsInjective(Distinct(s))
<1> DEFINE P == {i \in DOMAIN s : \A j \in 1 .. i - 1 : s[j] # s[i]}
           n == Cardinality(P)
           r == Subsequence(s, P)
<1>1. Distinct(s) = r /\ P \in SUBSET DOMAIN s
  BY DEF Distinct
<1>2. DOMAIN s = 1 .. Len(s) /\ Len(s) \in Nat
  OBVIOUS
<1>3. ASSUME NEW i \in DOMAIN s PROVE \E j \in P : s[j] = s[i]
  <2> DEFINE same == {j \in DOMAIN s : s[j] = s[i]}
  <2>1. same \subseteq Nat /\ same # {}
    BY <1>2
  <2>2. PICK j \in same : \A k \in same : j <= k
    BY <2>1, LeastNatural
  <2>3. ASSUME NEW k \in 1 .. j - 1 PROVE s[k] # s[j]
    <3>1. k \in DOMAIN s /\ ~(j <= k)
      BY <1>2
    <3> QED BY <2>2, <3>1
  <2> QED BY <2>2, <2>3
<1>9. \A i \in P : \A j \in 1 .. i - 1 : s[j] # s[i]
  OBVIOUS
<1> HIDE DEF P
<1>4. /\ n \in Nat /\ r \in Seq(T) /\ Len(r) = n
      /\ \A k \in 1 .. n : Nth(P, k) \in P /\ r[k] = s[Nth(P, k)]
      /\ \A k, l \in 1 .. n : k < l => Nth(P, k) < Nth(P, l)
  BY <1>1, SubsequenceKeeps
<1>5. ToSet(r) = {s[i] : i \in P}
  BY <1>1, SubsequenceElements
<1>6. ToSet(r) = ToSet(s)
  <2> HIDE DEF r
  <2> QED BY <1>1, <1>3, <1>5 DEF ToSet
<1>7. ASSUME NEW k \in 1 .. n, NEW l \in 1 .. n, k < l PROVE r[k] # r[l]
  <2>1. Nth(P, k) < Nth(P, l) /\ Nth(P, k) \in P /\ Nth(P, l) \in P
    BY <1>4, <1>7
  <2>2. Nth(P, k) \in 1 .. Nth(P, l) - 1
    BY <1>1, <1>2, <2>1
  <2>3. s[Nth(P, k)] # s[Nth(P, l)]
    BY <1>9, <2>1, <2>2
  <2> QED BY <1>4, <2>3
<1>8. IsInjective(r)
  <2>1. DOMAIN r = 1 .. n
    <3> HIDE DEF r, n
    <3> QED BY <1>4
  <2>2. \A k, l \in 1 .. n : k < l \/ l < k \/ k = l
    BY <1>4
  <2> HIDE DEF r, n
  <2> QED BY <1>7, <2>1, <2>2 DEF IsInjective
<1> QED BY <1>1, <1>4, <1>6, <1>8

-----------------------------------------------------------------------------
(* Concatenations.                                                         *)

LEMMA ToSetConcat ==
    ASSUME NEW T, NEW s \in Seq(T), NEW t \in Seq(T)
    PROVE  ToSet(s \o t) = ToSet(s) \cup ToSet(t)
<1> DEFINE r == s \o t
<1>1. /\ Len(s) \in Nat /\ Len(t) \in Nat
      /\ DOMAIN s = 1 .. Len(s) /\ DOMAIN t = 1 .. Len(t)
      /\ DOMAIN r = 1 .. (Len(s) + Len(t))
      /\ \A i \in 1 .. Len(s) : r[i] = s[i]
      /\ \A i \in 1 .. Len(t) : r[Len(s) + i] = t[i]
  OBVIOUS
<1> HIDE DEF r
<1>2. ASSUME NEW i \in DOMAIN r
      PROVE  r[i] \in ToSet(s) \cup ToSet(t)
  <2>1. CASE i <= Len(s)
    <3>1. i \in DOMAIN s
      BY <1>1, <2>1
    <3> QED BY <1>1, <3>1 DEF ToSet
  <2>2. CASE ~(i <= Len(s))
    <3>1. i - Len(s) \in DOMAIN t /\ Len(s) + (i - Len(s)) = i
      BY <1>1, <2>2
    <3>2. r[i] = t[i - Len(s)]
      BY <1>1, <3>1
    <3> QED BY <3>1, <3>2 DEF ToSet
  <2> QED BY <2>1, <2>2
<1>3. ASSUME NEW i \in DOMAIN s PROVE s[i] \in ToSet(r)
  <2>1. i \in DOMAIN r /\ r[i] = s[i]
    BY <1>1
  <2> QED BY <2>1 DEF ToSet
<1>4. ASSUME NEW i \in DOMAIN t PROVE t[i] \in ToSet(r)
  <2>1. Len(s) + i \in DOMAIN r /\ r[Len(s) + i] = t[i]
    BY <1>1
  <2> QED BY <2>1 DEF ToSet
<1>5. ToSet(r) \subseteq ToSet(s) \cup ToSet(t)
  BY <1>2 DEF ToSet
<1>6. ToSet(s) \subseteq ToSet(r) /\ ToSet(t) \subseteq ToSet(r)
  BY <1>3, <1>4 DEF ToSet
<1> QED BY <1>5, <1>6 DEF r

(***************************************************************************)
(* FlattenSeq is defined by recursion: the function it evaluates exists,   *)
(* because otherwise there would be a least length without one.            *)
(***************************************************************************)
Flattens(f, ss, n) ==
    f = [i \in 1 .. n |-> IF i = 1 THEN ss[i] ELSE f[i - 1] \o ss[i]]

LEMMA FlattenExists ==
    ASSUME NEW ss, NEW n \in Nat
    PROVE  \E f : Flattens(f, ss, n)
<1> DEFINE bad == {k \in Nat : ~ \E f : Flattens(f, ss, k)}
<1> SUFFICES ASSUME bad # {} PROVE FALSE
  OBVIOUS
<1>1. PICK k \in bad : \A l \in bad : k <= l
  <2>1. bad \subseteq Nat
    OBVIOUS
  <2> HIDE DEF bad
  <2> QED BY <2>1, LeastNatural
<1>2. k \in Nat /\ ~ \E f : Flattens(f, ss, k)
  BY <1>1
<1>3. k # 0
  <2> SUFFICES ASSUME k = 0 PROVE FALSE
    OBVIOUS
  <2> DEFINE g == [i \in 1 .. 0 |-> ss[i]]
  <2>1. Flattens(g, ss, 0)
    BY DEF Flattens
  <2> QED BY <1>2, <2>1
<1>4. k - 1 \in Nat /\ k - 1 \notin bad
  BY <1>1, <1>2, <1>3
<1>5. PICK f : Flattens(f, ss, k - 1)
  BY <1>4
<1> DEFINE g == [i \in 1 .. k |-> IF i = 1 THEN ss[i] ELSE f[i - 1] \o ss[i]]
<1>6. \A i \in 1 .. k - 1 : g[i] = f[i]
  <2> SUFFICES ASSUME NEW i \in 1 .. k - 1 PROVE g[i] = f[i]
    OBVIOUS
  <2>1. f[i] = IF i = 1 THEN ss[i] ELSE f[i - 1] \o ss[i]
    BY <1>5 DEF Flattens
  <2>2. i \in 1 .. k
    BY <1>2
  <2> QED BY <2>1, <2>2
<1>7. \A i \in 1 .. k : i # 1 => i - 1 \in 1 .. k - 1
  BY <1>2
<1>8. g = [i \in 1 .. k |-> IF i = 1 THEN ss[i] ELSE g[i - 1] \o ss[i]]
  BY <1>6, <1>7
<1> QED BY <1>2, <1>8 DEF Flattens

\* The elements of a flattened sequence are those of its parts.
LEMMA FlattenElements ==
    ASSUME NEW T, NEW ss \in Seq(Seq(T))
    PROVE  /\ FlattenSeq(ss) \in Seq(T)
           /\ ToSet(FlattenSeq(ss)) = UNION {ToSet(ss[i]) : i \in DOMAIN ss}
<1>1. Len(ss) \in Nat /\ DOMAIN ss = 1 .. Len(ss)
  OBVIOUS
<1>2. CASE Len(ss) = 0
  <2>1. ss = <<>> /\ FlattenSeq(ss) = ss
    BY <1>2 DEF FlattenSeq
  <2>2. ToSet(<<>>) = {} /\ <<>> \in Seq(T) /\ DOMAIN ss = {}
    BY <1>1, <1>2, ToSetEmpty
  <2> QED BY <2>1, <2>2
<1>3. CASE Len(ss) # 0
  <2> DEFINE f == CHOOSE g : Flattens(g, ss, Len(ss))
  <2>1. Flattens(f, ss, Len(ss))
    BY <1>1, FlattenExists
  <2>2. FlattenSeq(ss) = f[Len(ss)]
    BY <1>3 DEF FlattenSeq, Flattens
  <2>3. \A i \in 1 .. Len(ss) : f[i] = IF i = 1 THEN ss[i] ELSE f[i - 1] \o ss[i]
    BY <2>1 DEF Flattens
  <2> HIDE DEF f
  <2> DEFINE good(i) == /\ f[i] \in Seq(T)
                        /\ \A x : x \in ToSet(f[i]) <=> \E j \in 1 .. i : x \in ToSet(ss[j])
             bad == {i \in 1 .. Len(ss) : ~good(i)}
  <2>4. bad = {}
    <3> SUFFICES ASSUME bad # {} PROVE FALSE
      OBVIOUS
    <3>1. PICK k \in bad : \A l \in bad : k <= l
      <4>1. bad \subseteq Nat
        BY <1>1
      <4> HIDE DEF bad
      <4> QED BY <4>1, LeastNatural
    <3>2. k \in 1 .. Len(ss) /\ ~good(k)
      BY <3>1
    <3>3. CASE k = 1
      <4>1. f[1] = ss[1] /\ ss[1] \in Seq(T) /\ 1 .. 1 = {1}
        BY <1>1, <2>3, <3>2, <3>3
      <4> QED BY <3>2, <3>3, <4>1
    <3>4. CASE k # 1
      <4>1. k - 1 \in 1 .. Len(ss) /\ ~(k <= k - 1)
        BY <1>1, <3>2, <3>4
      <4>2. good(k - 1)
        <5>1. k - 1 \notin bad
          <6> HIDE DEF bad
          <6> QED BY <3>1, <4>1
        <5> QED BY <4>1, <5>1
      <4>3. f[k] = f[k - 1] \o ss[k] /\ ss[k] \in Seq(T)
        <5>1. k \in 1 .. Len(ss)
          BY <3>2
        <5>2. f[k] = f[k - 1] \o ss[k]
          <6> HIDE DEF bad
          <6> QED BY <2>3, <3>4, <5>1
        <5>3. ss[k] \in Seq(T)
          <6> HIDE DEF bad
          <6> QED BY <5>1
        <5> QED BY <5>2, <5>3
      <4>4. ToSet(f[k]) = ToSet(f[k - 1]) \cup ToSet(ss[k]) /\ f[k] \in Seq(T)
        BY <4>2, <4>3, ToSetConcat
      <4>5. 1 .. k = (1 .. k - 1) \cup {k}
        BY <1>1, <3>2, <3>4
      <4>6. good(k)
        BY <4>2, <4>4, <4>5
      <4> QED BY <3>2, <4>6
    <3> QED BY <3>3, <3>4
  <2>5. good(Len(ss))
    <3>1. Len(ss) \in 1 .. Len(ss) /\ Len(ss) \notin bad
      <4> HIDE DEF bad
      <4> QED BY <1>1, <1>3, <2>4
    <3> QED BY <3>1
  <2> HIDE DEF bad
  <2>6. \A x : x \in ToSet(f[Len(ss)]) <=> \E j \in DOMAIN ss : x \in ToSet(ss[j])
    BY <1>1, <2>5
  <2> QED BY <2>2, <2>5, <2>6
<1> QED BY <1>2, <1>3
=============================================================================
