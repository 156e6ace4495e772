-------------------------- MODULE Scheduler_proofs --------------------------
(***************************************************************************)
(* What the operators of Scheduler compute, for lists of any length: lists *)
(* without duplicates, sort_by_priority and list comprehensions (each      *)
(* place of the result is the rank of exactly one element, by counting),   *)
(* sums as sizes of sets, sequences, batches and chunks.  Used for both    *)
(* engines.                                                                *)
(***************************************************************************)
EXTENDS Scheduler, FiniteSetTheorems, WellFoundedInduction, TLAPS

(* From old to young. *)
Ascending(l) == \A i, j \in DOMAIN l : i < j => l[i] < l[j]

-----------------------------------------------------------------------------
(* Lists of sequences. *)

LEMMA RangeIsSubset ==
  ASSUME NEW S, NEW l \in Seq(S)
  PROVE  Range(l) \subseteq S /\ (\A i \in DOMAIN l : l[i] \in Range(l))
  BY DEF Range

LEMMA EmptyList ==
  ASSUME NEW S
  PROVE  <<>> \in Seq(S) /\ Len(<<>>) = 0 /\ Range(<<>>) = {} /\ IsInjective(<<>>)
  BY DEF Range, IsInjective

LEMMA EmptyRange ==
  ASSUME NEW S, NEW l \in Seq(S)
  PROVE  Range(l) = {} <=> l = <<>>
  <1>1. ASSUME l # <<>>  PROVE Range(l) # {}
    <2>1. 1 \in DOMAIN l
      BY <1>1
    <2>2. QED  BY <2>1 DEF Range
  <1>2. QED  BY <1>1, EmptyList

LEMMA AppendList ==
  ASSUME NEW S, NEW l \in Seq(S), NEW x \in S
  PROVE  /\ Append(l, x) \in Seq(S)
         /\ Append(l, x) # <<>>
         /\ Len(Append(l, x)) = Len(l) + 1
         /\ Range(Append(l, x)) = Range(l) \cup {x}
         /\ IsInjective(l) /\ x \notin Range(l) => IsInjective(Append(l, x))
  <1>1. /\ Append(l, x) \in Seq(S) /\ Len(Append(l, x)) = Len(l) + 1
        /\ Append(l, x) # <<>>
        /\ DOMAIN Append(l, x) = 1 .. Len(l) + 1
        /\ Append(l, x)[Len(l) + 1] = x
        /\ \A i \in DOMAIN l : Append(l, x)[i] = l[i]
        /\ DOMAIN l = 1 .. Len(l) /\ Len(l) \in Nat
    OBVIOUS
  <1> DEFINE m == Append(l, x)
  <1> HIDE DEF m
  <1>2. Range(m) = Range(l) \cup {x}
    BY <1>1 DEF Range, m
  <1>3. IsInjective(l) /\ x \notin Range(l) => IsInjective(m)
    BY <1>1 DEF IsInjective, Range, m
  <1>4. QED  BY <1>1, <1>2, <1>3 DEF m

LEMMA TailList ==
  ASSUME NEW S, NEW l \in Seq(S), l # <<>>
  PROVE  /\ Tail(l) \in Seq(S) /\ Head(l) \in S
         /\ Len(Tail(l)) = Len(l) - 1
         /\ Head(l) \in Range(l)
         /\ Range(l) = Range(Tail(l)) \cup {Head(l)}
         /\ IsInjective(l) => IsInjective(Tail(l)) /\ Head(l) \notin Range(Tail(l))
  <1>1. /\ Tail(l) \in Seq(S) /\ Len(Tail(l)) = Len(l) - 1
        /\ DOMAIN Tail(l) = 1 .. Len(l) - 1
        /\ Head(l) = l[1] /\ Head(l) \in S
        /\ \A i \in DOMAIN Tail(l) : Tail(l)[i] = l[i + 1]
        /\ DOMAIN l = 1 .. Len(l) /\ Len(l) \in Nat \ {0}
    OBVIOUS
  <1> DEFINE m == Tail(l)
  <1> HIDE DEF m
  <1>2. \A i \in DOMAIN l : i = 1 \/ (i - 1 \in DOMAIN m /\ m[i - 1] = l[i])
    BY <1>1 DEF m
  <1>3. \A i \in DOMAIN m : i + 1 \in DOMAIN l /\ m[i] = l[i + 1] /\ i + 1 # 1 /\ i \in Int
    BY <1>1 DEF m
  <1>4. 1 \in DOMAIN l
    BY <1>1
  <1>5. Range(l) = Range(m) \cup {l[1]}
    <2>1. \A i \in DOMAIN l : l[i] \in Range(m) \cup {l[1]}
      BY <1>2 DEF Range
    <2>2. \A i \in DOMAIN m : m[i] \in Range(l)
      BY <1>3 DEF Range
    <2>3. l[1] \in Range(l)
      BY <1>4 DEF Range
    <2>4. QED  BY <2>1, <2>2, <2>3 DEF Range
  <1>6. ASSUME IsInjective(l)  PROVE IsInjective(m) /\ l[1] \notin Range(m)
    <2>1. ASSUME NEW i \in DOMAIN m, NEW j \in DOMAIN m, m[i] = m[j]  PROVE i = j
      <3>1. i + 1 = j + 1
        BY <1>3, <1>6, <2>1 DEF IsInjective
      <3>2. QED  BY <1>3, <3>1
    <2>2. ASSUME NEW i \in DOMAIN m  PROVE m[i] # l[1]
      BY <1>3, <1>4, <1>6 DEF IsInjective
    <2>3. QED  BY <2>1, <2>2 DEF IsInjective, Range
  <1>7. QED  BY <1>1, <1>4, <1>5, <1>6 DEF m

LEMMA ConcatLists ==
  ASSUME NEW S, NEW k \in Seq(S), NEW l \in Seq(S)
  PROVE  /\ k \o l \in Seq(S)
         /\ Len(k \o l) = Len(k) + Len(l)
         /\ Range(k \o l) = Range(k) \cup Range(l)
         /\ IsInjective(k) /\ IsInjective(l) /\ Range(k) \cap Range(l) = {} => IsInjective(k \o l)
  <1>1. /\ k \o l \in Seq(S) /\ Len(k \o l) = Len(k) + Len(l)
        /\ DOMAIN (k \o l) = 1 .. Len(k) + Len(l)
        /\ \A i \in 1 .. Len(k) : (k \o l)[i] = k[i]
        /\ \A i \in Len(k) + 1 .. Len(k) + Len(l) : (k \o l)[i] = l[i - Len(k)]
        /\ DOMAIN k = 1 .. Len(k) /\ Len(k) \in Nat
        /\ DOMAIN l = 1 .. Len(l) /\ Len(l) \in Nat
    OBVIOUS
  <1> DEFINE m == k \o l
  <1> HIDE DEF m
  <1>2. \A i \in DOMAIN k : i \in DOMAIN m /\ m[i] = k[i]
    BY <1>1 DEF m
  <1>3. \A i \in DOMAIN l : i + Len(k) \in DOMAIN m /\ m[i + Len(k)] = l[i]
    <2> TAKE i \in DOMAIN l
    <2>1. i + Len(k) \in Len(k) + 1 .. Len(k) + Len(l) /\ (i + Len(k)) - Len(k) = i
      BY <1>1
    <2>2. QED  BY <1>1, <2>1 DEF m
  <1>4. \A i \in DOMAIN m : \/ i \in DOMAIN k /\ m[i] = k[i]
                            \/ i - Len(k) \in DOMAIN l /\ m[i] = l[i - Len(k)] /\ i \in Int
    BY <1>1 DEF m
  <1>5. Range(m) = Range(k) \cup Range(l)
    BY <1>2, <1>3, <1>4 DEF Range
  <1>6. ASSUME IsInjective(k), IsInjective(l), Range(k) \cap Range(l) = {}
        PROVE  IsInjective(m)
    <2> SUFFICES ASSUME NEW i \in DOMAIN m, NEW j \in DOMAIN m, m[i] = m[j]  PROVE i = j
      BY DEF IsInjective
    <2>1. \A a \in DOMAIN k, b \in DOMAIN l : k[a] # l[b]
      BY <1>6 DEF Range
    <2>2. CASE i \in DOMAIN k /\ m[i] = k[i] /\ j \in DOMAIN k /\ m[j] = k[j]
      BY <1>6, <2>2 DEF IsInjective
    <2>3. CASE /\ i - Len(k) \in DOMAIN l /\ m[i] = l[i - Len(k)] /\ i \in Int
               /\ j - Len(k) \in DOMAIN l /\ m[j] = l[j - Len(k)] /\ j \in Int
      <3>1. i - Len(k) = j - Len(k)
        BY <1>6, <2>3 DEF IsInjective
      <3>2. QED  BY <1>1, <2>3, <3>1
    <2>4. QED  BY <1>4, <2>1, <2>2, <2>3
  <1>7. QED  BY <1>1, <1>5, <1>6 DEF m

LEMMA ConsList ==
  ASSUME NEW S, NEW l \in Seq(S), NEW x \in S
  PROVE  /\ <<x>> \o l \in Seq(S)
         /\ <<x>> \o l # <<>>
         /\ Head(<<x>> \o l) = x
         /\ Range(<<x>> \o l) = Range(l) \cup {x}
         /\ IsInjective(l) /\ x \notin Range(l) => IsInjective(<<x>> \o l)
  <1> DEFINE k == <<x>>
  <1>1. k \in Seq(S) /\ Range(k) = {x} /\ IsInjective(k)
    BY DEF Range, IsInjective
  <1>2. /\ <<x>> \o l \in Seq(S)
        /\ Range(<<x>> \o l) = Range(l) \cup {x}
        /\ IsInjective(l) /\ x \notin Range(l) => IsInjective(<<x>> \o l)
    <2> HIDE DEF k
    <2>1. /\ k \o l \in Seq(S)
          /\ Range(k \o l) = Range(k) \cup Range(l)
          /\ IsInjective(k) /\ IsInjective(l) /\ Range(k) \cap Range(l) = {} => IsInjective(k \o l)
      BY <1>1, ConcatLists
    <2>2. QED  BY <1>1, <2>1 DEF k
  <1>3. <<x>> \o l # <<>> /\ Head(<<x>> \o l) = x
    OBVIOUS
  <1>4. QED  BY <1>2, <1>3

LEMMA RemoveLast ==
  ASSUME NEW S, NEW l \in Seq(S), l # <<>>
  PROVE  /\ RemoveAt(l, Len(l)) \in Seq(S)
         /\ Len(RemoveAt(l, Len(l))) = Len(l) - 1
         /\ \A i \in 1 .. Len(l) - 1 : RemoveAt(l, Len(l))[i] = l[i]
         /\ l[Len(l)] \in Range(l)
         /\ Range(l) = Range(RemoveAt(l, Len(l))) \cup {l[Len(l)]}
         /\ IsInjective(l) => /\ IsInjective(RemoveAt(l, Len(l)))
                              /\ l[Len(l)] \notin Range(RemoveAt(l, Len(l)))
  <1> DEFINE n == Len(l)
             m == RemoveAt(l, n)
             k == SubSeq(l, 1, n - 1)
  <1>1. n \in Nat \ {0} /\ DOMAIN l = 1 .. n
    OBVIOUS
  <1>2. /\ k \in Seq(S) /\ Len(k) = n - 1
        /\ \A i \in 1 .. n - 1 : k[i] = l[i]
    BY <1>1
  <1>3. SubSeq(l, n + 1, n) = <<>>
    BY <1>1
  <1>4. m = k
    BY <1>2, <1>3 DEF RemoveAt
  <1> HIDE DEF m, k, n
  <1>5. /\ m \in Seq(S) /\ Len(m) = n - 1 /\ DOMAIN m = 1 .. n - 1
        /\ \A i \in 1 .. n - 1 : m[i] = l[i]
    BY <1>2, <1>4
  <1>6. n \in DOMAIN l /\ l[n] \in Range(l)
    BY <1>1 DEF Range
  <1>7. Range(l) = Range(m) \cup {l[n]}
    <2>1. \A i \in DOMAIN l : l[i] \in Range(m) \cup {l[n]}
      BY <1>1, <1>5 DEF Range
    <2>2. \A i \in DOMAIN m : m[i] \in Range(l)
      BY <1>1, <1>5 DEF Range
    <2>3. QED  BY <1>6, <2>1, <2>2 DEF Range
  <1>8. IsInjective(l) => IsInjective(m) /\ l[n] \notin Range(m)
    BY <1>1, <1>5, <1>6 DEF IsInjective, Range
  <1>9. QED  BY <1>5, <1>6, <1>7, <1>8 DEF m, n

LEMMA AscendingLists ==
  ASSUME NEW l \in Seq(Int), l # <<>>, Ascending(l)
  PROVE  /\ Ascending(Tail(l)) /\ \A x \in Range(Tail(l)) : Head(l) < x
         /\ Ascending(RemoveAt(l, Len(l)))
         /\ \A x \in Range(RemoveAt(l, Len(l))) : x < l[Len(l)]
  <1>1. /\ DOMAIN Tail(l) = 1 .. Len(l) - 1 /\ Head(l) = l[1]
        /\ \A i \in DOMAIN Tail(l) : Tail(l)[i] = l[i + 1]
        /\ DOMAIN l = 1 .. Len(l) /\ Len(l) \in Nat \ {0}
    OBVIOUS
  <1> DEFINE m == Tail(l)
             k == RemoveAt(l, Len(l))
  <1> HIDE DEF m, k
  <1>2. Ascending(m) /\ \A x \in Range(m) : Head(l) < x
    <2>1. \A i \in DOMAIN m : i \in Int /\ i + 1 \in DOMAIN l /\ m[i] = l[i + 1] /\ 1 < i + 1
      BY <1>1 DEF m
    <2>2. \A i, j \in DOMAIN m : i < j => m[i] < m[j]
      BY <2>1 DEF Ascending
    <2>3. \A i \in DOMAIN m : l[1] < m[i]
      BY <1>1, <2>1 DEF Ascending
    <2>4. QED  BY <1>1, <2>2, <2>3 DEF Ascending, Range
  <1>3. DOMAIN k = 1 .. Len(l) - 1 /\ \A i \in 1 .. Len(l) - 1 : k[i] = l[i]
    <2>1. k \in Seq(Int) /\ Len(k) = Len(l) - 1 /\ \A i \in 1 .. Len(l) - 1 : k[i] = l[i]
      BY RemoveLast DEF k
    <2>2. QED  BY <1>1, <2>1
  <1>4. Ascending(k) /\ \A x \in Range(k) : x < l[Len(l)]
    <2>1. \A i \in DOMAIN k : i \in DOMAIN l /\ i < Len(l) /\ k[i] = l[i]
      BY <1>1, <1>3
    <2>2. \A i, j \in DOMAIN k : i < j => k[i] < k[j]
      BY <2>1 DEF Ascending
    <2>3. \A i \in DOMAIN k : k[i] < l[Len(l)]
      BY <1>1, <2>1 DEF Ascending
    <2>4. QED  BY <2>2, <2>3 DEF Ascending, Range
  <1>5. QED  BY <1>2, <1>4 DEF m, k

(* A number in front of larger ones, or behind smaller ones. *)
LEMMA AscendingAdded ==
  ASSUME NEW l \in Seq(Int), Ascending(l), NEW x \in Int
  PROVE  /\ (\A y \in Range(l) : x < y) => Ascending(<<x>> \o l)
         /\ (\A y \in Range(l) : y < x) => Ascending(Append(l, x))
  <1>1. /\ DOMAIN l = 1 .. Len(l) /\ Len(l) \in Nat
        /\ \A i \in DOMAIN l : l[i] \in Int /\ l[i] \in Range(l)
    BY DEF Range
  <1>2. ASSUME \A y \in Range(l) : x < y  PROVE Ascending(<<x>> \o l)
    <2> DEFINE m == <<x>> \o l
    <2>1. /\ DOMAIN m = 1 .. Len(l) + 1 /\ m[1] = x
          /\ \A i \in DOMAIN m : i # 1 => i - 1 \in DOMAIN l /\ m[i] = l[i - 1]
      BY <1>1
    <2> HIDE DEF m
    <2>2. \A i, j \in DOMAIN m : i < j => m[i] < m[j]
      <3> TAKE i \in DOMAIN m, j \in DOMAIN m
      <3>1. HAVE i < j
      <3>2. i \in Int /\ j \in Int /\ j # 1 /\ j - 1 \in DOMAIN l /\ m[j] = l[j - 1]
        BY <1>1, <2>1, <3>1
      <3>3. CASE i = 1
        BY <1>1, <1>2, <2>1, <3>2, <3>3
      <3>4. CASE i # 1
        <4>1. i - 1 \in DOMAIN l /\ m[i] = l[i - 1] /\ i - 1 < j - 1
          BY <2>1, <3>1, <3>2, <3>4
        <4>2. QED  BY <3>2, <4>1 DEF Ascending
      <3>5. QED  BY <3>3, <3>4
    <2>3. QED  BY <2>2 DEF Ascending, m
  <1>3. ASSUME \A y \in Range(l) : y < x  PROVE Ascending(Append(l, x))
    <2> DEFINE m == Append(l, x)
    <2>1. /\ DOMAIN m = 1 .. Len(l) + 1 /\ m[Len(l) + 1] = x
          /\ \A i \in DOMAIN l : m[i] = l[i]
      BY <1>1
    <2> HIDE DEF m
    <2>2. \A i, j \in DOMAIN m : i < j => m[i] < m[j]
      <3> TAKE i \in DOMAIN m, j \in DOMAIN m
      <3>1. HAVE i < j
      <3>2. i \in DOMAIN l /\ m[i] = l[i]
        BY <1>1, <2>1, <3>1
      <3>3. CASE j = Len(l) + 1
        BY <1>1, <1>3, <2>1, <3>2, <3>3
      <3>4. CASE j # Len(l) + 1
        <4>1. j \in DOMAIN l /\ m[j] = l[j]
          BY <1>1, <2>1, <3>4
        <4>2. QED  BY <3>1, <3>2, <4>1 DEF Ascending
      <3>5. QED  BY <3>3, <3>4
    <2>3. QED  BY <2>2 DEF Ascending, m
  <1>4. QED  BY <1>2, <1>3

-----------------------------------------------------------------------------
(* sort_by_priority. *)

LEMMA Interval ==
  ASSUME NEW n \in Nat
  PROVE  IsFiniteSet(1 .. n) /\ Cardinality(1 .. n) = n
  <1>1. 1 \in Int /\ n \in Int
    OBVIOUS
  <1>2. /\ IsFiniteSet(1 .. n)
        /\ Cardinality(1 .. n) = IF 1 > n THEN 0 ELSE n - 1 + 1
    BY <1>1, FS_Interval
  <1>3. QED  BY <1>2

(* The members of a list are no more than its places. *)
LEMMA RangeSize ==
  ASSUME NEW S, NEW l \in Seq(S)
  PROVE  /\ IsFiniteSet(Range(l)) /\ Cardinality(Range(l)) \in Nat
         /\ Cardinality(Range(l)) <= Len(l)
  <1>1. DOMAIN l = 1 .. Len(l) /\ Len(l) \in Nat
    OBVIOUS
  <1>2. IsFiniteSet(DOMAIN l) /\ Cardinality(DOMAIN l) = Len(l)
    BY <1>1, Interval
  <1>3. l \in [DOMAIN l -> Range(l)] /\ \A y \in Range(l) : \E i \in DOMAIN l : l[i] = y
    BY <1>1 DEF Range
  <1>4. l \in Surjection(DOMAIN l, Range(l))
    BY <1>3 DEF Surjection
  <1>5. IsFiniteSet(Range(l)) /\ Cardinality(Range(l)) <= Cardinality(DOMAIN l)
    BY <1>2, <1>4, FS_Surjection
  <1>6. QED  BY <1>2, <1>5, FS_CardinalityType

LEMMA RankType ==
  ASSUME NEW l \in Seq(Int), NEW i \in DOMAIN l
  PROVE  Rank(l, i) \in DOMAIN l
  <1> DEFINE B == {j \in DOMAIN l : l[j] < l[i] \/ (l[j] = l[i] /\ j <= i)}
  <1>1. DOMAIN l = 1 .. Len(l) /\ Len(l) \in Nat
    OBVIOUS
  <1>2. IsFiniteSet(1 .. Len(l)) /\ Cardinality(1 .. Len(l)) = Len(l)
    BY <1>1, Interval
  <1>3. B \in SUBSET (1 .. Len(l)) /\ i \in B
    BY <1>1
  <1>4. IsFiniteSet(B) /\ Cardinality(B) <= Len(l)
    BY <1>2, <1>3, FS_Subset
  <1>5. Cardinality(B) \in Nat /\ Cardinality(B) # 0
    BY <1>3, <1>4, FS_CardinalityType, FS_EmptySet
  <1>6. Rank(l, i) = Cardinality(B)
    BY DEF Rank
  <1>7. QED  BY <1>1, <1>4, <1>5, <1>6

(* An element with the smaller rank is not the younger one. *)
LEMMA RankOrder ==
  ASSUME NEW l \in Seq(Int), NEW i \in DOMAIN l, NEW j \in DOMAIN l,
         l[i] < l[j] \/ (l[i] = l[j] /\ i < j)
  PROVE  Rank(l, i) < Rank(l, j)
  <1> DEFINE B(k) == {m \in DOMAIN l : l[m] < l[k] \/ (l[m] = l[k] /\ m <= k)}
  <1>1. DOMAIN l = 1 .. Len(l) /\ Len(l) \in Nat
    OBVIOUS
  <1>2. /\ IsFiniteSet(1 .. Len(l))
        /\ B(i) \in SUBSET (1 .. Len(l)) /\ B(j) \in SUBSET (1 .. Len(l))
    BY <1>1, Interval
  <1>3. IsFiniteSet(B(j))
    BY <1>2, FS_Subset
  <1>4. \A m \in DOMAIN l : l[m] \in Int /\ m \in Int
    BY <1>1
  <1>5. B(i) \subseteq B(j)
    BY <1>4
  <1>6. j \in B(j) /\ j \notin B(i)
    BY <1>4
  <1>7. Rank(l, i) = Cardinality(B(i)) /\ Rank(l, j) = Cardinality(B(j))
    BY DEF Rank
  <1> HIDE DEF B
  <1>8. IsFiniteSet(B(i)) /\ Cardinality(B(i)) <= Cardinality(B(j))
    BY <1>3, <1>5, FS_Subset
  <1>9. Cardinality(B(i)) # Cardinality(B(j))
    BY <1>3, <1>5, <1>6, FS_Subset
  <1>10. Cardinality(B(i)) \in Nat /\ Cardinality(B(j)) \in Nat
    BY <1>3, <1>8, FS_CardinalityType
  <1>11. QED  BY <1>7, <1>8, <1>9, <1>10

(* Every place of the result is the rank of an element. *)
LEMMA RankOnto ==
  ASSUME NEW l \in Seq(Int), NEW k \in DOMAIN l
  PROVE  \E i \in DOMAIN l : Rank(l, i) = k
  <1> DEFINE D == DOMAIN l
             f == [i \in D |-> Rank(l, i)]
  <1>1. \A i \in D : l[i] \in Int /\ i \in Int
    OBVIOUS
  <1>2. f \in [D -> D]
    BY RankType
  <1>3. ASSUME NEW i \in D, NEW j \in D, i # j  PROVE f[i] # f[j]
    <2>1. \/ l[i] < l[j] \/ (l[i] = l[j] /\ i < j)
          \/ l[j] < l[i] \/ (l[j] = l[i] /\ j < i)
      BY <1>1, <1>3
    <2>2. Rank(l, i) < Rank(l, j) \/ Rank(l, j) < Rank(l, i)
      BY <2>1, RankOrder
    <2>3. Rank(l, i) \in Int /\ Rank(l, j) \in Int
      BY RankType
    <2>4. QED  BY <2>2, <2>3
  <1>4. f \in Injection(D, D)
    BY <1>2, <1>3 DEF Injection, IsInjective
  <1>5. IsFiniteSet(D)
    <2>1. D = 1 .. Len(l) /\ Len(l) \in Nat
      OBVIOUS
    <2>2. QED  BY <2>1, Interval
  <1>6. f \in Surjection(D, D)
    <2> HIDE DEF f, D
    <2> QED  BY <1>4, <1>5, FS_Injection
  <1>7. \E i \in D : f[i] = k
    <2>1. k \in D
      OBVIOUS
    <2> HIDE DEF f, D
    <2> QED  BY <1>6, <2>1 DEF Surjection
  <1>8. QED  BY <1>7

(* The element of rank k. *)
Ranked(l, k) == CHOOSE i \in DOMAIN l : Rank(l, i) = k

LEMMA RankedPlace ==
  ASSUME NEW l \in Seq(Int), NEW k \in DOMAIN l
  PROVE  Ranked(l, k) \in DOMAIN l /\ Rank(l, Ranked(l, k)) = k
  BY RankOnto, Zenon DEF Ranked

LEMMA SortedList ==
  ASSUME NEW S \in SUBSET Int, NEW l \in Seq(S)
  PROVE  /\ sort_by_priority(l) \in Seq(S)
         /\ Len(sort_by_priority(l)) = Len(l)
         /\ Range(sort_by_priority(l)) = Range(l)
         /\ IsInjective(l) =>
              /\ IsInjective(sort_by_priority(l))
              /\ Ascending(sort_by_priority(l))
  <1> DEFINE D == DOMAIN l
             p(k) == Ranked(l, k)
             m == [k \in D |-> l[p(k)]]
  <1>1. l \in Seq(Int) /\ D = 1 .. Len(l) /\ Len(l) \in Nat /\ \A i \in D : l[i] \in S
    <2>1. D = 1 .. Len(l) /\ Len(l) \in Nat /\ l = [i \in D |-> l[i]]
      OBVIOUS
    <2>2. \A i \in D : l[i] \in S /\ l[i] \in Int
      <3>1. \A i \in D : l[i] \in S
        OBVIOUS
      <3>2. S \subseteq Int
        OBVIOUS
      <3>3. QED  BY <3>1, <3>2
    <2>3. l \in Seq(Int)
      BY <2>1, <2>2
    <2>4. QED  BY <2>1, <2>2, <2>3
  <1>2. \A k \in D : p(k) \in D /\ Rank(l, p(k)) = k
    BY <1>1, RankedPlace
  <1>3. sort_by_priority(l) = m
    BY Zenon DEF sort_by_priority, Ranked
  <1> HIDE DEF p
  <1>4. m \in Seq(S) /\ DOMAIN m = D /\ \A k \in D : m[k] = l[p(k)]
    BY <1>1, <1>2
  <1>5. Len(m) = Len(l)
    BY <1>1, <1>4
  <1> HIDE DEF m, D
  <1>6. \A i \in D : Rank(l, i) \in D /\ p(Rank(l, i)) = i
    <2> TAKE i \in D
    <2>1. Rank(l, i) \in D
      BY <1>1, RankType DEF D
    <2>2. p(Rank(l, i)) \in D /\ Rank(l, p(Rank(l, i))) = Rank(l, i)
      BY <1>2, <2>1
    <2> DEFINE j == p(Rank(l, i))
    <2> HIDE DEF j
    <2>3. i \in Int /\ j \in Int /\ l[i] \in Int /\ l[j] \in Int /\ Rank(l, i) \in Int
      BY <1>1, <2>1, <2>2 DEF j
    <2>4. i = j \/ Rank(l, i) < Rank(l, j) \/ Rank(l, j) < Rank(l, i)
      <3>1. \/ i = j
            \/ l[i] < l[j] \/ (l[i] = l[j] /\ i < j)
            \/ l[j] < l[i] \/ (l[j] = l[i] /\ j < i)
        BY <2>3
      <3>2. QED  BY <1>1, <2>2, <3>1, RankOrder DEF j, D
    <2>5. QED  BY <2>1, <2>2, <2>3, <2>4 DEF j
  <1>7. Range(m) = Range(l)
    <2>1. \A k \in D : m[k] \in Range(l)
      BY <1>2, <1>4 DEF Range, D
    <2>2. \A i \in D : l[i] \in Range(m)
      <3> TAKE i \in D
      <3>1. Rank(l, i) \in DOMAIN m /\ m[Rank(l, i)] = l[i]
        BY <1>4, <1>6
      <3>2. QED  BY <3>1 DEF Range
    <2>3. QED  BY <1>4, <2>1, <2>2 DEF Range, D
  <1>8. ASSUME IsInjective(l), NEW a \in D, NEW b \in D, a < b  PROVE m[a] < m[b]
    <2>1. p(a) \in D /\ p(b) \in D /\ Rank(l, p(a)) = a /\ Rank(l, p(b)) = b
      BY <1>2
    <2>2. l[p(a)] \in Int /\ l[p(b)] \in Int /\ a \in Int /\ b \in Int
      BY <1>1, <2>1
    <2>3. ~(l[p(b)] < l[p(a)])
      <3>1. l[p(b)] < l[p(a)] => b < a
        BY <1>1, <2>1, RankOrder DEF D
      <3>2. QED  BY <1>8, <2>2, <3>1
    <2>4. l[p(a)] # l[p(b)]
      <3>1. p(a) # p(b)
        BY <1>8, <2>1, <2>2
      <3>2. QED  BY <1>8, <2>1, <3>1 DEF IsInjective, D
    <2>5. QED  BY <1>4, <2>2, <2>3, <2>4
  <1>9. IsInjective(l) => IsInjective(m)
    <2> SUFFICES ASSUME IsInjective(l), NEW a \in D, NEW b \in D, m[a] = m[b]  PROVE a = b
      BY <1>4, Zenon DEF IsInjective
    <2>1. a \in Int /\ b \in Int /\ m[a] \in Int /\ m[b] \in Int
      <3>1. l[p(a)] \in Int /\ l[p(b)] \in Int
        BY <1>1, <1>2
      <3>2. QED  BY <1>1, <1>4, <3>1
    <2>2. ~(a < b) /\ ~(b < a)
      BY <1>8, <2>1
    <2>3. QED  BY <2>1, <2>2
  <1>10. IsInjective(l) => Ascending(m)
    BY <1>4, <1>8 DEF Ascending
  <1>11. QED  BY <1>3, <1>4, <1>5, <1>7, <1>9, <1>10

-----------------------------------------------------------------------------
(* Lists without the elements outside a set. *)

(* How many of the places P come up to i, and the place where they are k. *)
UpTo(P, i) == Cardinality({j \in P : j <= i})

PlaceOf(P, k) == CHOOSE i \in P : UpTo(P, i) = k

LEMMA UpToType ==
  ASSUME NEW n \in Nat, NEW P \in SUBSET (1 .. n), NEW i \in P
  PROVE  UpTo(P, i) \in 1 .. Cardinality(P)
  <1> DEFINE B == {j \in P : j <= i}
  <1>1. IsFiniteSet(P)
    BY Interval, FS_Subset
  <1>2. B \in SUBSET P /\ i \in B
    OBVIOUS
  <1>3. IsFiniteSet(B) /\ Cardinality(B) <= Cardinality(P)
    BY <1>1, <1>2, FS_Subset
  <1>4. Cardinality(B) \in Nat /\ Cardinality(B) # 0 /\ Cardinality(P) \in Nat
    BY <1>1, <1>2, <1>3, FS_CardinalityType, FS_EmptySet
  <1>5. QED  BY <1>3, <1>4 DEF UpTo

LEMMA UpToOrder ==
  ASSUME NEW n \in Nat, NEW P \in SUBSET (1 .. n), NEW i \in P, NEW j \in P, i < j
  PROVE  UpTo(P, i) < UpTo(P, j)
  <1> DEFINE B(k) == {m \in P : m <= k}
  <1>1. IsFiniteSet(P)
    BY Interval, FS_Subset
  <1>2. B(j) \in SUBSET P /\ B(i) \subseteq B(j) /\ j \in B(j) /\ j \notin B(i)
    <2>1. \A m \in P : m \in Int
      OBVIOUS
    <2>2. \A m \in P : m <= i => m <= j
      BY <2>1
    <2>3. j <= j /\ ~(j <= i)
      BY <2>1
    <2>4. QED  BY <2>2, <2>3
  <1>3. UpTo(P, i) = Cardinality(B(i)) /\ UpTo(P, j) = Cardinality(B(j))
    BY DEF UpTo
  <1> HIDE DEF B
  <1>4. IsFiniteSet(B(j))
    BY <1>1, <1>2, FS_Subset
  <1>5. IsFiniteSet(B(i)) /\ Cardinality(B(i)) <= Cardinality(B(j))
    BY <1>2, <1>4, FS_Subset
  <1>6. Cardinality(B(i)) # Cardinality(B(j))
    BY <1>2, <1>4, FS_Subset
  <1>7. Cardinality(B(i)) \in Nat /\ Cardinality(B(j)) \in Nat
    BY <1>4, <1>5, FS_CardinalityType
  <1>8. QED  BY <1>3, <1>5, <1>6, <1>7

LEMMA PlaceOfOnto ==
  ASSUME NEW n \in Nat, NEW P \in SUBSET (1 .. n), NEW k \in 1 .. Cardinality(P)
  PROVE  PlaceOf(P, k) \in P /\ UpTo(P, PlaceOf(P, k)) = k
  <1> DEFINE D == 1 .. Cardinality(P)
             f == [i \in P |-> UpTo(P, i)]
  <1>1. IsFiniteSet(P) /\ Cardinality(P) \in Nat
    BY Interval, FS_Subset, FS_CardinalityType
  <1>2. f \in [P -> D]
    BY UpToType
  <1>3. ASSUME NEW i \in P, NEW j \in P, i # j  PROVE f[i] # f[j]
    <2>1. i < j \/ j < i
      BY <1>3
    <2>2. UpTo(P, i) < UpTo(P, j) \/ UpTo(P, j) < UpTo(P, i)
      BY <2>1, UpToOrder
    <2>3. UpTo(P, i) \in Int /\ UpTo(P, j) \in Int
      <3>1. UpTo(P, i) \in D /\ UpTo(P, j) \in D
        BY UpToType
      <3>2. QED  BY <1>1, <3>1
    <2>4. QED  BY <2>2, <2>3
  <1>4. f \in Injection(P, D)
    BY <1>2, <1>3 DEF Injection, IsInjective
  <1>5. IsFiniteSet(D) /\ Cardinality(D) = Cardinality(P)
    BY <1>1, Interval
  <1>6. f \in Surjection(P, D)
    <2> HIDE DEF f, D
    <2> QED  BY <1>4, <1>5, FS_Injection
  <1>7. \E i \in P : f[i] = k
    <2>1. k \in D
      OBVIOUS
    <2> HIDE DEF f, D
    <2> QED  BY <1>6, <2>1 DEF Surjection
  <1>8. \E i \in P : UpTo(P, i) = k
    BY <1>7
  <1>9. QED  BY <1>8, Zenon DEF PlaceOf

LEMMA ThoseList ==
  ASSUME NEW T, NEW l \in Seq(T), NEW S
  PROVE  /\ Those(l, S) \in Seq(T)
         /\ Len(Those(l, S)) <= Len(l)
         /\ Range(Those(l, S)) = Range(l) \cap S
         /\ IsInjective(l) => IsInjective(Those(l, S))
  <1> DEFINE n == Len(l)
             P == {i \in DOMAIN l : l[i] \in S}
             D == 1 .. Cardinality(P)
             m == [k \in D |-> l[PlaceOf(P, k)]]
  <1>1. n \in Nat /\ DOMAIN l = 1 .. n /\ P \in SUBSET (1 .. n)
    OBVIOUS
  <1>2. Those(l, S) = m
    BY Zenon DEF Those, PlaceOf, UpTo
  <1>3. \A i \in P : i \in DOMAIN l /\ l[i] \in T /\ l[i] \in S /\ i \in Int
    OBVIOUS
  <1>4. \A i \in DOMAIN l : l[i] \in S => i \in P
    OBVIOUS
  <1> HIDE DEF P, n
  <1>5. Cardinality(P) \in Nat /\ Cardinality(P) <= n
    <2>1. IsFiniteSet(1 .. n) /\ Cardinality(1 .. n) = n
      BY <1>1, Interval
    <2>2. IsFiniteSet(P) /\ Cardinality(P) <= n
      <3> DEFINE I == 1 .. n
      <3>1. IsFiniteSet(I) /\ Cardinality(I) = n /\ P \in SUBSET I
        BY <1>1, <2>1
      <3> HIDE DEF I
      <3>2. IsFiniteSet(P) /\ Cardinality(P) <= Cardinality(I)
        BY <3>1, FS_Subset
      <3>3. QED  BY <3>1, <3>2
    <2>3. QED  BY <2>2, FS_CardinalityType
  <1>6. \A k \in D : PlaceOf(P, k) \in P /\ UpTo(P, PlaceOf(P, k)) = k
    BY <1>1, PlaceOfOnto
  <1>7. m \in Seq(T) /\ Len(m) = Cardinality(P) /\ DOMAIN m = D
    BY <1>3, <1>5, <1>6
  <1> HIDE DEF D
  <1>8. \A k \in D : m[k] = l[PlaceOf(P, k)]
    OBVIOUS
  <1> HIDE DEF m
  <1>9. \A i \in P : UpTo(P, i) \in D /\ PlaceOf(P, UpTo(P, i)) = i
    <2> TAKE i \in P
    <2>1. UpTo(P, i) \in D
      BY <1>1, UpToType DEF D
    <2> DEFINE j == PlaceOf(P, UpTo(P, i))
    <2>2. j \in P /\ UpTo(P, j) = UpTo(P, i)
      BY <1>6, <2>1
    <2> HIDE DEF j
    <2>3. ~(i < j) /\ ~(j < i)
      <3>1. (i < j => UpTo(P, i) < UpTo(P, j)) /\ (j < i => UpTo(P, j) < UpTo(P, i))
        BY <1>1, <2>2, UpToOrder
      <3>2. UpTo(P, i) \in Int
        BY <1>5, <2>1 DEF D
      <3>3. QED  BY <2>2, <3>1, <3>2
    <2>4. QED  BY <1>3, <2>1, <2>2, <2>3 DEF j
  <1>10. Range(m) = Range(l) \cap S
    <2>1. \A k \in D : m[k] \in Range(l) \cap S
      BY <1>3, <1>6, <1>8 DEF Range
    <2>2. \A i \in DOMAIN l : l[i] \in S => l[i] \in Range(m)
      <3> SUFFICES ASSUME NEW i \in DOMAIN l, l[i] \in S  PROVE l[i] \in Range(m)
        OBVIOUS
      <3>1. UpTo(P, i) \in DOMAIN m /\ m[UpTo(P, i)] = l[i]
        BY <1>4, <1>7, <1>8, <1>9
      <3>2. QED  BY <3>1 DEF Range
    <2>3. QED  BY <1>7, <2>1, <2>2 DEF Range
  <1>11. ASSUME IsInjective(l)  PROVE IsInjective(m)
    <2> SUFFICES ASSUME NEW a \in D, NEW b \in D, m[a] = m[b]  PROVE a = b
      BY <1>7, Zenon DEF IsInjective
    <2>1. PlaceOf(P, a) = PlaceOf(P, b)
      BY <1>3, <1>6, <1>8, <1>11 DEF IsInjective
    <2>2. QED  BY <1>6, <2>1
  <1>12. QED  BY <1>2, <1>5, <1>7, <1>10, <1>11 DEF n

-----------------------------------------------------------------------------
(* Sums. *)

LEMMA SumFinite ==
  ASSUME NEW S, IsFiniteSet(S), NEW n, \A s \in S : n[s] \in Nat
  PROVE  /\ IsFiniteSet(UNION {{s} \X (1 .. n[s]) : s \in S})
         /\ SumOver(n, S) \in Nat
  <1> DEFINE U == {{s} \X (1 .. n[s]) : s \in S}
  <1>1. IsFiniteSet(U)
    <2> DEFINE f == [s \in S |-> {s} \X (1 .. n[s])]
    <2>1. f \in Surjection(S, U)
      BY DEF Surjection
    <2> HIDE DEF f, U
    <2>2. QED  BY <2>1, FS_Surjection
  <1>2. \A V \in U : IsFiniteSet(V)
    <2>1. ASSUME NEW s \in S  PROVE IsFiniteSet({s} \X (1 .. n[s]))
      BY Interval, FS_Singleton, FS_Product
    <2>2. QED  BY <2>1
  <1> HIDE DEF U
  <1>3. IsFiniteSet(UNION U)
    BY <1>1, <1>2, FS_UNION
  <1>4. QED  BY <1>3, FS_CardinalityType DEF SumOver, U

LEMMA SumIsNat ==
  ASSUME NEW n \in [Requests -> Nat], NEW S \in SUBSET Requests
  PROVE  /\ IsFiniteSet(UNION {{s} \X (1 .. n[s]) : s \in S})
         /\ SumOver(n, S) \in Nat
  <1>1. NumRequests \in Nat
    BY RequestsAssumption
  <1>2. IsFiniteSet(S)
    BY <1>1, Interval, FS_Subset DEF Requests
  <1>3. QED  BY <1>2, SumFinite

LEMMA EmptySum ==
  ASSUME NEW n  PROVE SumOver(n, {}) = 0
  <1>1. UNION {{i} \X (1 .. n[i]) : i \in {}} = {}
    OBVIOUS
  <1>2. QED  BY <1>1, FS_EmptySet DEF SumOver

(* A sum over one more place. *)
LEMMA SumAppend ==
  ASSUME NEW k \in Nat, NEW m, NEW n, \A i \in 1 .. k : m[i] \in Nat /\ n[i] = m[i],
         n[k + 1] \in Nat
  PROVE  SumOver(n, 1 .. (k + 1)) = SumOver(m, 1 .. k) + n[k + 1]
  <1> DEFINE A == UNION {{i} \X (1 .. m[i]) : i \in 1 .. k}
             B == {k + 1} \X (1 .. n[k + 1])
             C == UNION {{i} \X (1 .. n[i]) : i \in 1 .. (k + 1)}
  <1>1. IsFiniteSet(A) /\ Cardinality(A) \in Nat
    <2>1. IsFiniteSet(1 .. k)
      BY Interval
    <2>2. IsFiniteSet(A)
      BY <2>1, SumFinite
    <2> HIDE DEF A
    <2>3. QED  BY <2>2, FS_CardinalityType
  <1>2. IsFiniteSet(B) /\ Cardinality(B) = n[k + 1]
    <2>1. IsFiniteSet({k + 1}) /\ Cardinality({k + 1}) = 1
      BY FS_Singleton
    <2>2. IsFiniteSet(1 .. n[k + 1]) /\ Cardinality(1 .. n[k + 1]) = n[k + 1]
      BY Interval
    <2>3. \A S, T : IsFiniteSet(S) /\ IsFiniteSet(T) =>
            IsFiniteSet(S \X T) /\ Cardinality(S \X T) = Cardinality(S) * Cardinality(T)
      BY FS_Product
    <2>4. IsFiniteSet(B) /\ Cardinality(B) = Cardinality({k + 1}) * Cardinality(1 .. n[k + 1])
      BY <2>1, <2>2, <2>3
    <2>5. QED  BY <2>1, <2>2, <2>4
  <1>3. C = A \cup B
    <2>1. 1 .. (k + 1) = (1 .. k) \cup {k + 1}
      OBVIOUS
    <2>2. \A i \in 1 .. k : {i} \X (1 .. n[i]) = {i} \X (1 .. m[i])
      OBVIOUS
    <2>3. QED  BY <2>1, <2>2
  <1>4. A \cap B = {}
    <2>1. k + 1 \notin 1 .. k
      OBVIOUS
    <2>2. QED  BY <2>1
  <1> HIDE DEF A, B, C
  <1>5. Cardinality(C) = Cardinality(A) + Cardinality(B) - Cardinality({})
    BY <1>1, <1>2, <1>3, <1>4, FS_Union
  <1>6. Cardinality(C) = Cardinality(A) + n[k + 1]
    BY <1>1, <1>2, <1>5, FS_EmptySet
  <1>7. QED  BY <1>6 DEF SumOver, A, C

LEMMA SumMonotone ==
  ASSUME NEW n \in [Requests -> Nat], NEW m \in [Requests -> Nat],
         \A s \in Requests : n[s] <= m[s]
  PROVE  SumOver(n, Requests) <= SumOver(m, Requests)
  <1> DEFINE U(f) == UNION {{s} \X (1 .. f[s]) : s \in Requests}
  <1>1. IsFiniteSet(U(m))
    BY SumIsNat
  <1>2. \A s \in Requests : 1 .. n[s] \subseteq 1 .. m[s]
    <2> TAKE s \in Requests
    <2>1. n[s] \in Nat /\ m[s] \in Nat /\ n[s] <= m[s]
      OBVIOUS
    <2>2. QED  BY <2>1
  <1>3. U(n) \subseteq U(m)
    BY <1>2
  <1>4. Cardinality(U(n)) <= Cardinality(U(m))
    <2> HIDE DEF U
    <2> QED  BY <1>1, <1>3, FS_Subset
  <1>5. QED  BY <1>4 DEF SumOver

LEMMA RequestsAreNumbers == Requests \subseteq Int /\ Requests \subseteq Nat /\ NumRequests \in Nat
  BY RequestsAssumption DEF Requests

(* The sum when one member changes. *)
LEMMA SumUpdate ==
  ASSUME NEW n \in [Requests -> Nat], NEW s \in Requests, NEW x \in Nat
  PROVE  SumOver([n EXCEPT ![s] = x], Requests) + n[s] = SumOver(n, Requests) + x
  <1> DEFINE R == Requests \ {s}
             U(f, S) == UNION {{r} \X (1 .. f[r]) : r \in S}
             B(k) == {s} \X (1 .. k)
             m == [n EXCEPT ![s] = x]
  <1>1. m \in [Requests -> Nat] /\ m[s] = x /\ n[s] \in Nat /\ \A r \in R : m[r] = n[r]
    OBVIOUS
  <1>2. IsFiniteSet(U(n, R)) /\ Cardinality(U(n, R)) \in Nat
    <2>1. IsFiniteSet(U(n, R))
      BY SumIsNat
    <2> HIDE DEF U
    <2>2. QED  BY <2>1, FS_CardinalityType
  <1>3. \A k \in Nat : IsFiniteSet(B(k)) /\ Cardinality(B(k)) = k
    <2> TAKE k \in Nat
    <2>1. IsFiniteSet({s}) /\ Cardinality({s}) = 1
      BY FS_Singleton
    <2>2. IsFiniteSet(1 .. k) /\ Cardinality(1 .. k) = k
      BY Interval
    <2>3. \A S, T : IsFiniteSet(S) /\ IsFiniteSet(T) =>
            IsFiniteSet(S \X T) /\ Cardinality(S \X T) = Cardinality(S) * Cardinality(T)
      BY FS_Product
    <2>4. IsFiniteSet(B(k)) /\ Cardinality(B(k)) = Cardinality({s}) * Cardinality(1 .. k)
      BY <2>1, <2>2, <2>3
    <2>5. QED  BY <2>1, <2>2, <2>4
  <1>4. /\ U(n, Requests) = U(n, R) \cup B(n[s]) /\ U(n, R) \cap B(n[s]) = {}
        /\ U(m, Requests) = U(n, R) \cup B(x) /\ U(n, R) \cap B(x) = {}
    <2>1. Requests = R \cup {s} /\ s \notin R
      OBVIOUS
    <2>2. U(m, R) = U(n, R)
      BY <1>1
    <2>3. /\ U(n, Requests) = U(n, R) \cup B(n[s])
          /\ U(m, Requests) = U(m, R) \cup B(m[s])
      <3> HIDE DEF R, m
      <3> QED  BY <2>1
    <2>4. \A k : U(n, R) \cap B(k) = {}
      BY <2>1
    <2> HIDE DEF U, B, R, m
    <2>5. QED  BY <1>1, <2>2, <2>3, <2>4
  <1> HIDE DEF U, B, R, m
  <1>5. /\ Cardinality(U(n, Requests)) = Cardinality(U(n, R)) + Cardinality(B(n[s])) - Cardinality({})
        /\ Cardinality(U(m, Requests)) = Cardinality(U(n, R)) + Cardinality(B(x)) - Cardinality({})
    BY <1>1, <1>2, <1>3, <1>4, FS_Union
  <1>6. /\ Cardinality(U(n, Requests)) = Cardinality(U(n, R)) + n[s]
        /\ Cardinality(U(m, Requests)) = Cardinality(U(n, R)) + x
    BY <1>1, <1>2, <1>3, <1>5, FS_EmptySet
  <1>7. /\ SumOver(n, Requests) = Cardinality(U(n, Requests))
        /\ SumOver(m, Requests) = Cardinality(U(m, Requests))
    BY DEF SumOver, U
  <1>8. SumOver(m, Requests) + n[s] = SumOver(n, Requests) + x
    BY <1>1, <1>2, <1>6, <1>7
  <1>9. QED  BY <1>8 DEF m

(* A sum of terms of at most k. *)
LEMMA SumBound ==
  ASSUME NEW n \in [Requests -> Nat], NEW k \in Nat, \A s \in Requests : n[s] <= k
  PROVE  SumOver(n, Requests) <= NumRequests * k
  <1> DEFINE m == [s \in Requests |-> k]
  <1>1. SumOver(n, Requests) <= SumOver(m, Requests)
    <2>1. m \in [Requests -> Nat] /\ \A s \in Requests : n[s] <= m[s]
      OBVIOUS
    <2> HIDE DEF m
    <2>2. QED  BY <2>1, SumMonotone
  <1>2. SumOver(m, Requests) = Cardinality(Requests \X (1 .. k))
    <2>1. UNION {{s} \X (1 .. m[s]) : s \in Requests} = Requests \X (1 .. k)
      OBVIOUS
    <2>2. QED  BY <2>1 DEF SumOver
  <1>3. /\ IsFiniteSet(Requests) /\ Cardinality(Requests) = NumRequests
        /\ IsFiniteSet(1 .. k) /\ Cardinality(1 .. k) = k
    BY Interval, RequestsAreNumbers DEF Requests
  <1>4. \A S, T : IsFiniteSet(S) /\ IsFiniteSet(T) =>
          IsFiniteSet(S \X T) /\ Cardinality(S \X T) = Cardinality(S) * Cardinality(T)
    BY FS_Product
  <1>5. Cardinality(Requests \X (1 .. k)) = NumRequests * k
    BY <1>3, <1>4
  <1>6. QED  BY <1>1, <1>2, <1>5

LEMMA CeilBlocks ==
  /\ \A n \in Nat : ceil_blocks(n) \in Nat
  /\ \A n \in Nat \ {0} : ceil_blocks(n) >= 1
  /\ ceil_blocks(0) = 0
  /\ \A n, m \in Nat : n <= m => ceil_blocks(n) <= ceil_blocks(m)
  <1>1. block_size \in Nat \ {0}
    BY CapacityAssumption
  <1>2. \A n, m \in Nat : n <= m =>
          (n + block_size - 1) \div block_size <= (m + block_size - 1) \div block_size
    BY <1>1
  <1>3. \A n \in Nat : ceil_blocks(n) \in Nat
    BY <1>1 DEF ceil_blocks
  <1>4. ceil_blocks(0) = 0
    BY <1>1 DEF ceil_blocks
  <1>5. \A n \in Nat \ {0} : ceil_blocks(n) >= 1
    BY <1>1 DEF ceil_blocks
  <1>6. QED  BY <1>2, <1>3, <1>4, <1>5 DEF ceil_blocks

-----------------------------------------------------------------------------
(* Sequences, batches and chunks. *)

LEMMA SequenceFields ==
  ASSUME NEW q \in SequenceType
  PROVE  /\ q.status \in {"absent", "waiting", "running", "paused", "finished", "ignored"}
         /\ q.prompt \in Nat /\ q.processed \in Int /\ q.output \in Nat /\ q.asked \in Nat
  BY DEF SequenceType

LEMMA SequenceConstructors ==
  ASSUME NEW q \in SequenceType
  PROVE  /\ \A st \in {"waiting", "running", "paused", "finished", "ignored"} :
              set_status(q, st) \in SequenceType
         /\ reset_for_recompute(q) \in SequenceType
         /\ \A chunk \in Int, stop \in BOOLEAN : process_seq_output(q, chunk, stop) \in SequenceType
  BY DEF SequenceType, set_status, reset_for_recompute, process_seq_output

(* _process_seq_output, its fields. *)
LEMMA ProcessOutput ==
  ASSUME NEW q \in SequenceType, 0 <= q.processed, q.processed <= q.prompt,
         q.processed < q.prompt => q.output = 0,
         NEW chunk \in Int, NEW stop \in BOOLEAN, NEW p, p = process_seq_output(q, chunk, stop)
  PROVE  /\ p \in SequenceType
         /\ p.status \in {"paused", "finished"}
         /\ p.prompt = q.prompt
         /\ q.processed < q.prompt => /\ p.processed = q.processed + chunk /\ p.output = q.output
                                      /\ p.status = "paused"
         /\ q.processed = q.prompt => p.processed = q.processed /\ p.output = q.output + 1
         /\ process_asserts(q, chunk) => /\ 0 <= p.processed /\ p.processed <= p.prompt
                                         /\ p.processed < p.prompt => p.output = 0
  <1>1. q.prompt \in Nat /\ q.processed \in Int /\ q.output \in Nat
    BY SequenceFields
  <1>2. p \in SequenceType
    BY SequenceConstructors
  <1>3. CASE q.processed < q.prompt
    <2>1. /\ p.status = "paused" /\ p.prompt = q.prompt /\ p.processed = q.processed + chunk
          /\ p.output = q.output
      BY <1>3 DEF process_seq_output
    <2>2. QED  BY <1>1, <1>2, <1>3, <2>1 DEF process_asserts
  <1>4. CASE q.processed = q.prompt
    <2>1. ~(q.processed < q.prompt)
      BY <1>1, <1>4
    <2>2. /\ p.status \in {"paused", "finished"} /\ p.prompt = q.prompt
          /\ p.processed = q.processed /\ p.output = q.output + 1
      BY <2>1 DEF process_seq_output
    <2>3. QED  BY <1>1, <1>2, <1>4, <2>1, <2>2
  <1>5. QED  BY <1>1, <1>3, <1>4

Items == [seq : Requests, chunk : Int]

LEMMA ItemType ==
  ASSUME NEW s \in Requests, NEW chunk \in Int
  PROVE  Item(s, chunk) \in Items /\ Item(s, chunk).seq = s /\ Item(s, chunk).chunk = chunk
  BY DEF Item, Items

(* Batch c is batch b with one more item. *)
Adds(b, c, s, chunk) ==
  /\ c \in Seq(Items) /\ c # <<>>
  /\ Len(b) + 1 \in DOMAIN c
  /\ c[Len(b) + 1].seq = s /\ c[Len(b) + 1].chunk = chunk
  /\ \A i \in DOMAIN b : i \in DOMAIN c /\ c[i] = b[i]
  /\ \A i \in DOMAIN c : i \in DOMAIN b \/ i = Len(b) + 1
  /\ SeqsOf(c) = SeqsOf(b) \cup {s}
  /\ (\A i, j \in DOMAIN b : b[i].seq = b[j].seq => i = j) /\ s \notin SeqsOf(b) =>
       \A i, j \in DOMAIN c : c[i].seq = c[j].seq => i = j

LEMMA AppendItem ==
  ASSUME NEW b \in Seq(Items), NEW s \in Requests, NEW chunk \in Int
  PROVE  Adds(b, Append(b, Item(s, chunk)), s, chunk)
  <1> DEFINE c == Append(b, Item(s, chunk))
  <1>1. /\ c \in Seq(Items) /\ c # <<>> /\ Len(c) = Len(b) + 1
        /\ DOMAIN c = 1 .. Len(b) + 1 /\ DOMAIN b = 1 .. Len(b) /\ Len(b) \in Nat
        /\ \A i \in DOMAIN b : c[i] = b[i]
        /\ c[Len(b) + 1] = Item(s, chunk)
    BY ItemType
  <1>2. Item(s, chunk).seq = s /\ Item(s, chunk).chunk = chunk
    BY ItemType
  <1> HIDE DEF c
  <1>3. /\ \A i \in DOMAIN b : i \in DOMAIN c
        /\ \A i \in DOMAIN c : i \in DOMAIN b \/ i = Len(b) + 1
        /\ Len(b) + 1 \in DOMAIN c /\ Len(b) + 1 \notin DOMAIN b
    BY <1>1
  <1>4. SeqsOf(c) = SeqsOf(b) \cup {s}
    BY <1>1, <1>2, <1>3 DEF SeqsOf
  <1>5. (\A i, j \in DOMAIN b : b[i].seq = b[j].seq => i = j) /\ s \notin SeqsOf(b) =>
          \A i, j \in DOMAIN c : c[i].seq = c[j].seq => i = j
    BY <1>1, <1>2, <1>3 DEF SeqsOf
  <1>6. Adds(b, c, s, chunk)
    BY <1>1, <1>2, <1>3, <1>4, <1>5 DEF Adds
  <1>7. QED  BY <1>6 DEF c

(* The batch of decodes of a list. *)
LEMMA DecodeItems ==
  ASSUME NEW l \in Seq(Requests), NEW b, b = [i \in DOMAIN l |-> Item(l[i], 0)]
  PROVE  /\ b \in Seq(Items) /\ DOMAIN b = DOMAIN l
         /\ b = <<>> <=> l = <<>>
         /\ \A i \in DOMAIN b : b[i].seq = l[i] /\ b[i].chunk = 0
         /\ SeqsOf(b) = Range(l)
  <1>1. DOMAIN l = 1 .. Len(l) /\ Len(l) \in Nat /\ \A i \in DOMAIN l : l[i] \in Requests
    OBVIOUS
  <1>2. \A i \in DOMAIN l : Item(l[i], 0) \in Items
    BY <1>1, ItemType
  <1>3. b \in Seq(Items) /\ DOMAIN b = DOMAIN l /\ Len(b) = Len(l)
    BY <1>1, <1>2
  <1>4. \A i \in DOMAIN b : b[i].seq = l[i] /\ b[i].chunk = 0
    BY <1>1, ItemType
  <1>5. b = <<>> <=> l = <<>>
    BY <1>1, <1>3
  <1>6. SeqsOf(b) = Range(l)
    BY <1>3, <1>4 DEF SeqsOf, Range
  <1>7. QED  BY <1>3, <1>4, <1>5, <1>6

(* The item of a sequence of the batch. *)
LEMMA ItemOfBatch ==
  ASSUME NEW b \in Seq(Items), NEW s \in SeqsOf(b)
  PROVE  /\ s \in Requests
         /\ \E i \in DOMAIN b : ItemOf(b, s) = b[i] /\ b[i].seq = s
         /\ ItemOf(b, s).chunk \in Int
         /\ (\A i, j \in DOMAIN b : b[i].seq = b[j].seq => i = j) =>
              \A i \in DOMAIN b : b[i].seq = s => ItemOf(b, s) = b[i]
  <1> DEFINE k == CHOOSE i \in DOMAIN b : b[i].seq = s
  <1>1. \E i \in DOMAIN b : b[i].seq = s
    BY DEF SeqsOf
  <1>2. k \in DOMAIN b /\ b[k].seq = s
    BY <1>1, Zenon
  <1>3. ItemOf(b, s) = b[k]
    BY Zenon DEF ItemOf
  <1> HIDE DEF k
  <1>4. b[k] \in Items
    BY <1>2
  <1>5. b[k].seq \in Requests /\ b[k].chunk \in Int
    BY <1>4 DEF Items
  <1>6. QED  BY <1>2, <1>3, <1>5

(* The assertion that a sequence is scheduled once. *)
LEMMA DistinctItems ==
  ASSUME NEW b \in Seq(Items), \A i, j \in DOMAIN b : b[i].seq = b[j].seq => i = j
  PROVE  Cardinality(SeqsOf(b)) = Len(b)
  <1> DEFINE D == 1 .. Len(b)
             f == [i \in D |-> b[i].seq]
  <1>1. Len(b) \in Nat /\ DOMAIN b = D
    OBVIOUS
  <1>2. IsFiniteSet(D) /\ Cardinality(D) = Len(b)
    BY <1>1, Interval
  <1>3. f \in [D -> SeqsOf(b)] /\ \A x \in SeqsOf(b) : \E i \in D : f[i] = x
    BY <1>1 DEF SeqsOf
  <1>4. \A i, j \in D : f[i] = f[j] => i = j
    BY <1>1
  <1>5. f \in Bijection(D, SeqsOf(b))
    <2> HIDE DEF f, D
    <2> QED  BY <1>3, <1>4 DEF Bijection, Injection, Surjection, IsInjective
  <1>6. ExistsBijection(D, SeqsOf(b))
    BY <1>5 DEF ExistsBijection
  <1>7. QED  BY <1>2, <1>6, FS_Bijection

LEMMA ListOfNumbers ==
  ASSUME NEW l \in Seq(Requests)
  PROVE  l \in Seq(Int)
  <1>1. l = [i \in 1 .. Len(l) |-> l[i]] /\ Len(l) \in Nat /\ \A i \in 1 .. Len(l) : l[i] \in Requests
    OBVIOUS
  <1>2. \A i \in 1 .. Len(l) : l[i] \in Int
    BY <1>1, RequestsAreNumbers
  <1>3. QED  BY <1>1, <1>2

LEMMA MinOfTwo ==
  ASSUME NEW a \in Int, NEW b \in Int
  PROVE  Min({a, b}) = IF a <= b THEN a ELSE b
  BY DEF Min

LEMMA ChunkSizeRange ==
  ASSUME NEW s \in Requests, sq[s].processed \in Nat
  PROVE  /\ Stage(s) \in Int
         /\ ChunkSize(s) \in Nat \ {0}
         /\ Len(chunk_sizes) = 1 => ChunkSize(s) = chunk_sizes[1] /\ Stage(s) = 1
  <1>1. sq[s].processed \in Nat /\ tokens_per_stage \in Nat \ {0}
    BY LimitsAssumption
  <1>2. Stage(s) \in Nat /\ Stage(s) >= 1 /\ (Len(chunk_sizes) = 1 => Stage(s) = 1)
    <2>1. \A p \in Nat : p \div tokens_per_stage \in Nat
      BY <1>1
    <2>2. sq[s].processed \div tokens_per_stage \in Nat
      BY <1>1, <2>1
    <2>3. Len(chunk_sizes) \in Nat
      BY LimitsAssumption
    <2> DEFINE d == sq[s].processed \div tokens_per_stage
    <2>4. Stage(s) = IF policy = "sarathi" /\ Len(chunk_sizes) > 1 THEN 1 + d ELSE 1
      BY Zenon DEF Stage
    <2>5. d \in Nat
      BY <2>2
    <2> HIDE DEF d
    <2> DEFINE st == Stage(s)
               n == Len(chunk_sizes)
    <2>6. (st = 1 + d /\ n > 1) \/ st = 1
      BY <2>4, Zenon
    <2>7. n \in Nat
      BY <2>3
    <2> HIDE DEF st, n
    <2>8. st \in Nat /\ st >= 1 /\ (n = 1 => st = 1)
      BY <2>5, <2>6, <2>7
    <2>9. QED  BY <2>8, Zenon DEF st, n
  <1>3. /\ chunk_sizes \in Seq(Nat \ {0}) /\ Len(chunk_sizes) \in Nat /\ Len(chunk_sizes) >= 1
    BY LimitsAssumption
  <1> DEFINE m == Min({Stage(s), Len(chunk_sizes)})
  <1>4. m \in 1 .. Len(chunk_sizes) /\ (Len(chunk_sizes) = 1 => m = 1)
    BY <1>2, <1>3, MinOfTwo
  <1> HIDE DEF m
  <1>5. chunk_sizes[m] \in Nat \ {0}
    BY <1>3, <1>4
  <1>6. QED  BY <1>2, <1>4, <1>5 DEF ChunkSize, m

(* With one chunk size, the loop over the waiting queue asserts nothing. *)
LEMMA OneStage ==
  ASSUME Len(chunk_sizes) = 1
  PROVE  WaitingAsserts
  BY DEF WaitingAsserts, Stage
=============================================================================
