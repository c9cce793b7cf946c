---------------------------- MODULE PickedFacts ----------------------------
(***************************************************************************)
(* Facts about numbers, and about the sequences that Pick makes, for the    *)
(* proofs of other modules.  What would be an induction is an argument from  *)
(* the least number of a set.                                               *)
(***************************************************************************)
EXTENDS Picked, FunctionTheorems, FiniteSetTheorems, WellFoundedInduction, TLAPS

----------------------------------------------------------------------------
(* Least and greatest numbers.                                              *)

\* A set of natural numbers that is not empty has a least member: the form in
\* which the loops that search a list from one end are reasoned about.
LEMMA LeastNat ==
    ASSUME NEW T, T \subseteq Nat, T # {}
    PROVE  \E n \in T : \A m \in T : n <= m
<1> DEFINE R == {ss \in Nat \X Nat : ss[1] < ss[2]}
<1>1. OpToRel(<, Nat) = R
  BY DEF OpToRel
<1>2. IsWellFoundedOn(R, Nat)
  BY <1>1, NatLessThanWellFounded
<1>3. PICK n \in T : \A m \in T : ~ (<<m, n>> \in R)
  <2> HIDE DEF R
  <2> QED BY <1>2, WFMin
<1>4. \A m \in T : n <= m
  <2> TAKE m \in T
  <2>1. m \in Nat /\ n \in Nat
    OBVIOUS
  <2>2. ~ (m < n)
    BY <1>3, <2>1
  <2> QED BY <2>1, <2>2
<1> QED BY <1>4

\* A set of natural numbers that has a bound and a member has a greatest member.
LEMMA GreatestNat ==
    ASSUME NEW T, T \subseteq Nat, T # {}, NEW b \in Nat, \A m \in T : m <= b
    PROVE  \E n \in T : \A m \in T : m <= n
<1> DEFINE Bounds == {c \in Nat : \A m \in T : m <= c}
<1>1. Bounds \subseteq Nat /\ Bounds # {}
  OBVIOUS
<1>2. PICK n \in Bounds : \A c \in Bounds : n <= c
  <2> HIDE DEF Bounds
  <2> QED BY <1>1, LeastNat
<1>3. n \in T
  <2> SUFFICES ASSUME n \notin T PROVE FALSE
    OBVIOUS
  <2>1. \A m \in T : m < n
    BY <1>2
  <2>2. n \in Nat /\ n # 0
    <3>1. PICK t \in T : TRUE
      OBVIOUS
    <3>2. n \in Nat /\ t \in Nat /\ t < n
      BY <2>1
    <3> QED BY <3>2
  <2>3. \A m \in T : m <= n - 1
    BY <2>1, <2>2
  <2>4. n - 1 \in Nat
    BY <2>2
  <2> QED BY <1>2, <2>2, <2>3, <2>4
<1> QED BY <1>2, <1>3

----------------------------------------------------------------------------
(* Concatenation.                                                           *)

\* u is t behind s.
IsConcat(s, t, u) ==
    /\ Len(s) \in Nat /\ Len(t) \in Nat
    /\ Len(u) = Len(s) + Len(t)
    /\ \A k \in 1..Len(s) : u[k] = s[k]
    /\ \A k \in 1..Len(t) : u[Len(s) + k] = t[k]
    /\ \A k \in Len(s) + 1..Len(s) + Len(t) : u[k] = t[k - Len(s)]

\* What stands where in the concatenation of two sequences.
LEMMA ConcatFacts ==
    ASSUME NEW S, NEW s \in Seq(S), NEW t \in Seq(S)
    PROVE  s \o t \in Seq(S) /\ IsConcat(s, t, s \o t)
  BY DEF IsConcat

\* What a slice of a sequence is.
LEMMA SliceFacts ==
    ASSUME NEW S, NEW s \in Seq(S), NEW d \in 0..Len(s)
    PROVE  LET t == SubSeq(s, d + 1, Len(s))
           IN  /\ t \in Seq(S) /\ Len(t) = Len(s) - d
               /\ DOMAIN t = 1..Len(s) - d
               /\ \A k \in 1..Len(s) - d : t[k] = s[d + k]
  OBVIOUS

\* A slice that is not empty, without its first element, is the slice behind it.
LEMMA SliceTail ==
    ASSUME NEW S, NEW s \in Seq(S), NEW d \in 0..Len(s) - 1
    PROVE  LET t == SubSeq(s, d + 1, Len(s))
           IN  /\ t # <<>> /\ Head(t) = s[d + 1]
               /\ Tail(t) = SubSeq(s, d + 2, Len(s))
<1> DEFINE t == SubSeq(s, d + 1, Len(s))
<1>1. /\ t \in Seq(S) /\ Len(t) = Len(s) - d /\ Len(s) \in Nat /\ d \in Nat /\ d < Len(s)
      /\ \A k \in 1..Len(s) - d : t[k] = s[d + k]
  OBVIOUS
<1> HIDE DEF t
<1>2. t # <<>> /\ Head(t) = s[d + 1]
  BY <1>1
<1>3. /\ Len(Tail(t)) = Len(s) - d - 1 /\ Tail(t) \in Seq(S)
      /\ \A k \in 1..Len(s) - d - 1 : Tail(t)[k] = s[d + k + 1]
  BY <1>1, <1>2
<1> DEFINE u == SubSeq(s, d + 2, Len(s))
<1>4. /\ u \in Seq(S) /\ Len(u) = Len(s) - d - 1
      /\ \A k \in 1..Len(s) - d - 1 : u[k] = s[d + k + 1]
  BY <1>1
<1> HIDE DEF u
<1>5. Tail(t) = u
  <2>1. Tail(t) = [k \in 1..Len(s) - d - 1 |-> Tail(t)[k]]
    <3> DEFINE v == Tail(t)
    <3>1. v \in Seq(S) /\ Len(v) = Len(s) - d - 1
      BY <1>3
    <3> HIDE DEF v
    <3>2. v = [k \in 1..Len(s) - d - 1 |-> v[k]]
      BY <3>1
    <3> QED BY <3>2 DEF v
  <2>2. u = [k \in 1..Len(s) - d - 1 |-> u[k]]
    BY <1>4
  <2>3. \A k \in 1..Len(s) - d - 1 : Tail(t)[k] = u[k]
    BY <1>3, <1>4
  <2> QED BY <2>1, <2>2, <2>3, Zenon
<1> QED BY <1>2, <1>5 DEF t, u

----------------------------------------------------------------------------
(* Ranks.                                                                   *)

\* The rank of a number in a finite set of numbers is that of the next smaller
\* member plus one: members are ranked from 1 up, in order, and a stretch of
\* neighbours has neighbouring ranks.
LEMMA RankFacts ==
    ASSUME NEW I, I \subseteq Nat, IsFiniteSet(I)
    PROVE  /\ Cardinality(I) \in Nat
           /\ \A i \in Nat : Rank(I, i) \in Nat /\ Rank(I, i) <= Cardinality(I)
           /\ \A i \in I : Rank(I, i) \in 1..Cardinality(I)
           /\ \A i \in Nat, j \in I : i < j => Rank(I, i) < Rank(I, j)
           /\ \A i, m \in Nat : i + 1..i + m \subseteq I => Rank(I, i + m) = Rank(I, i) + m
<1> DEFINE Upto(i) == {j \in I : j <= i}
<1>1. Cardinality(I) \in Nat
  BY FS_CardinalityType
<1>2. ASSUME NEW i \in Nat
      PROVE  IsFiniteSet(Upto(i)) /\ Rank(I, i) = Cardinality(Upto(i))
             /\ Rank(I, i) \in Nat /\ Rank(I, i) <= Cardinality(I)
  <2>1. Upto(i) \in SUBSET I
    OBVIOUS
  <2>2. IsFiniteSet(Upto(i)) /\ Cardinality(Upto(i)) <= Cardinality(I)
    BY <2>1, FS_Subset
  <2>3. Cardinality(Upto(i)) \in Nat
    BY <2>2, FS_CardinalityType
  <2> QED BY <1>1, <2>2, <2>3 DEF Rank
<1>3. ASSUME NEW i \in Nat, NEW j \in I, i < j
      PROVE  Rank(I, i) < Rank(I, j)
  <2>0. j \in Nat /\ I \subseteq Nat
    OBVIOUS
  <2>1. Upto(i) \cup {j} \in SUBSET Upto(j) /\ j \notin Upto(i)
    <3>1. \A x \in Upto(i) : x \in I /\ x <= j /\ x # j
      BY <1>3, <2>0
    <3>2. j \in Upto(j)
      BY <2>0
    <3>3. \A x \in Upto(i) : x \in Upto(j)
      BY <3>1
    <3>4. j \notin Upto(i)
      BY <3>1
    <3> HIDE DEF Upto
    <3> QED BY <3>2, <3>3, <3>4
  <2>2. IsFiniteSet(Upto(i)) /\ IsFiniteSet(Upto(j))
    BY <1>2, <2>0
  <2>3. Cardinality(Upto(i) \cup {j}) = Cardinality(Upto(i)) + 1
    BY <2>1, <2>2, FS_AddElement
  <2>4. Cardinality(Upto(i) \cup {j}) <= Cardinality(Upto(j))
    BY <2>1, <2>2, FS_Subset
  <2>5. Cardinality(Upto(i)) \in Nat /\ Cardinality(Upto(j)) \in Nat
    BY <2>2, FS_CardinalityType
  <2> HIDE DEF Upto
  <2> QED BY <1>2, <2>0, <2>3, <2>4, <2>5
<1>4. ASSUME NEW i \in I
      PROVE  Rank(I, i) \in 1..Cardinality(I)
  <2>1. i \in Upto(i) /\ i \in Nat
    OBVIOUS
  <2>2. Cardinality(Upto(i)) # 0
    BY <1>2, <2>1, FS_EmptySet
  <2> QED BY <1>1, <1>2, <2>1, <2>2
<1>5. ASSUME NEW i \in Nat, NEW m \in Nat, i + 1..i + m \subseteq I
      PROVE  Rank(I, i + m) = Rank(I, i) + m
  <2>1. Upto(i + m) = Upto(i) \cup (i + 1..i + m)
    <3>1. \A j \in Nat : j <= i + m <=> j <= i \/ j \in i + 1..i + m
      OBVIOUS
    <3>2. i + 1..i + m \subseteq Nat
      OBVIOUS
    <3> QED BY <1>5, <3>1, <3>2
  <2>2. Upto(i) \cap (i + 1..i + m) = {}
    OBVIOUS
  <2>3. IsFiniteSet(i + 1..i + m) /\ Cardinality(i + 1..i + m) = m
    BY FS_Interval
  <2>4. IsFiniteSet(Upto(i)) /\ Cardinality({}) = 0
    BY <1>2, FS_EmptySet
  <2>5. Cardinality(Upto(i + m)) = Cardinality(Upto(i)) + m
    <3> HIDE DEF Upto
    <3>1. Cardinality(Upto(i)) \in Nat
      BY <2>4, FS_CardinalityType
    <3>2. Cardinality(Upto(i) \cup (i + 1..i + m))
             = Cardinality(Upto(i)) + m - Cardinality(Upto(i) \cap (i + 1..i + m))
      BY <2>3, <2>4, FS_Union
    <3>3. Cardinality(Upto(i) \cap (i + 1..i + m)) = 0
      BY <2>2, <2>4
    <3>4. Cardinality(Upto(i + m)) = Cardinality(Upto(i) \cup (i + 1..i + m))
      BY <2>1
    <3> QED BY <3>1, <3>2, <3>3, <3>4
  <2> HIDE DEF Upto
  <2>6. i + m \in Nat
    OBVIOUS
  <2> QED BY <1>2, <2>5, <2>6
<1> QED BY <1>1, <1>2, <1>3, <1>4, <1>5

\* Every rank up to the size of a set is that of one member.
LEMMA RankOnto ==
    ASSUME NEW I, I \subseteq Nat, IsFiniteSet(I), NEW k \in 1..Cardinality(I)
    PROVE  \E i \in I : Rank(I, i) = k
<1> DEFINE rank == [i \in I |-> Rank(I, i)]
<1>1. rank \in Injection(I, 1..Cardinality(I))
  <2>1. rank \in [I -> 1..Cardinality(I)]
    BY RankFacts
  <2>2. \A i, j \in I : Rank(I, i) = Rank(I, j) => i = j
    <3> TAKE i, j \in I
    <3>0. i \in Nat /\ j \in Nat
      OBVIOUS
    <3>1. Rank(I, i) \in Nat /\ Rank(I, j) \in Nat
      BY <3>0, RankFacts
    <3>2. (i < j => Rank(I, i) < Rank(I, j)) /\ (j < i => Rank(I, j) < Rank(I, i))
      BY RankFacts, <3>0
    <3> QED BY <3>0, <3>1, <3>2
  <2> QED BY <2>1, <2>2 DEF Injection, IsInjective
<1>2. Cardinality(I) \in Nat
  BY FS_CardinalityType
<1>3. IsFiniteSet(1..Cardinality(I)) /\ Cardinality(1..Cardinality(I)) = Cardinality(I)
  BY <1>2, FS_Interval
<1>4. rank \in Surjection(I, 1..Cardinality(I))
  <2> HIDE DEF rank
  <2> QED BY <1>1, <1>3, FS_Injection
<1> QED BY <1>4 DEF Surjection

----------------------------------------------------------------------------
(* What Pick keeps.                                                         *)

\* The function at gives the positions I of a sequence in their order, and what
\* stands together in the sequence stands together among them.
Enumerates(at, I) ==
    /\ Cardinality(I) \in Nat
    /\ at \in [1..Cardinality(I) -> I]
    /\ \A k, l \in 1..Cardinality(I) : k < l => at[k] < at[l]
    /\ \A i \in I : \E k \in 1..Cardinality(I) : at[k] = i
    /\ \A k \in 1..Cardinality(I), m \in Nat :
          at[k]..at[k] + m \subseteq I =>
             k + m <= Cardinality(I) /\ at[k + m] = at[k] + m

\* A filtered sequence has the elements at the chosen positions, in their order.
LEMMA PickFacts ==
    ASSUME NEW S, NEW s \in Seq(S), NEW I, I \subseteq DOMAIN s
    PROVE  /\ IsFiniteSet(I)
           /\ Cardinality(I) \in Nat
           /\ Pick(s, I) \in Seq(S)
           /\ Len(Pick(s, I)) = Cardinality(I)
           /\ \E at : /\ Enumerates(at, I)
                      /\ \A k \in 1..Cardinality(I) : Pick(s, I)[k] = s[at[k]]
<1> DEFINE at == [k \in 1..Cardinality(I) |-> CHOOSE i \in I : Rank(I, i) = k]
<1>1. I \subseteq Nat /\ IsFiniteSet(I)
  <2>1. DOMAIN s = 1..Len(s) /\ Len(s) \in Nat
    OBVIOUS
  <2>2. IsFiniteSet(1..Len(s)) /\ I \in SUBSET (1..Len(s))
    BY <2>1, FS_Interval
  <2> QED BY <2>1, <2>2, FS_Subset
<1>2. Cardinality(I) \in Nat
  BY <1>1, FS_CardinalityType
<1>3. \A k \in 1..Cardinality(I) : at[k] \in I /\ Rank(I, at[k]) = k
  <2> TAKE k \in 1..Cardinality(I)
  <2>1. \E i \in I : Rank(I, i) = k
    BY <1>1, RankOnto
  <2> QED BY <2>1
<1>4. at \in [1..Cardinality(I) -> I]
  BY <1>3
<1> DEFINE picked == [k \in 1..Cardinality(I) |-> s[CHOOSE i \in I : Rank(I, i) = k]]
<1>5. /\ picked \in Seq(S) /\ Len(picked) = Cardinality(I)
      /\ \A k \in 1..Cardinality(I) : picked[k] = s[at[k]]
  <2>1. \A k \in 1..Cardinality(I) : picked[k] = s[at[k]]
    OBVIOUS
  <2>2. \A k \in 1..Cardinality(I) : s[at[k]] \in S
    BY <1>3
  <2> HIDE DEF at
  <2>3. picked \in [1..Cardinality(I) -> S]
    BY <2>1, <2>2
  <2> HIDE DEF picked
  <2> QED BY <1>2, <2>1, <2>3
<1>6. Pick(s, I) = picked
  <2>1. Pick(s, I) = SubSeq(picked, 1, Cardinality(I))
    BY DEF Pick
  <2> HIDE DEF picked
  <2> QED BY <1>2, <1>5, <2>1
<1> HIDE DEF picked
<1> HIDE DEF at
<1>7. \A i, j \in I : Rank(I, i) = Rank(I, j) => i = j
  <2> TAKE i, j \in I
  <2>1. i \in Nat /\ j \in Nat /\ Rank(I, i) \in Int /\ Rank(I, j) \in Int
    BY <1>1, RankFacts
  <2>2. (i < j => Rank(I, i) < Rank(I, j)) /\ (j < i => Rank(I, j) < Rank(I, i))
    BY <1>1, RankFacts, <2>1
  <2> QED BY <2>1, <2>2
<1>8. \A k, l \in 1..Cardinality(I) : k < l => at[k] < at[l]
  <2> SUFFICES ASSUME NEW k \in 1..Cardinality(I), NEW l \in 1..Cardinality(I), k < l,
                      ~ (at[k] < at[l])
               PROVE  FALSE
    OBVIOUS
  <2>1. at[k] \in Nat /\ at[l] \in Nat /\ at[k] \in I
    BY <1>1, <1>3
  <2>2. at[l] < at[k] \/ at[l] = at[k]
    BY <2>1
  <2>3. at[l] < at[k] => Rank(I, at[l]) < Rank(I, at[k])
    BY <1>1, <2>1, RankFacts
  <2> QED BY <1>3, <2>2, <2>3
<1>9. \A i \in I : \E k \in 1..Cardinality(I) : at[k] = i
  <2> TAKE i \in I
  <2>1. Rank(I, i) \in 1..Cardinality(I)
    BY <1>1, RankFacts
  <2> QED BY <1>3, <1>7, <2>1
<1>10. ASSUME NEW k \in 1..Cardinality(I), NEW m \in Nat, at[k]..at[k] + m \subseteq I
       PROVE  k + m <= Cardinality(I) /\ at[k + m] = at[k] + m
  <2>1. at[k] \in Nat /\ at[k] + 1..at[k] + m \subseteq I /\ at[k] + m \in I
    BY <1>1, <1>3, <1>10
  <2>2. Rank(I, at[k] + m) = Rank(I, at[k]) + m
    BY <1>1, <2>1, RankFacts
  <2>3. Rank(I, at[k] + m) = k + m /\ k + m \in 1..Cardinality(I)
    <3>1. Rank(I, at[k] + m) \in 1..Cardinality(I)
      BY <1>1, <2>1, RankFacts
    <3> QED BY <1>3, <2>2, <3>1
  <2> QED BY <1>3, <1>7, <2>1, <2>2, <2>3
<1>11. Enumerates(at, I)
  BY <1>2, <1>4, <1>8, <1>9, <1>10 DEF Enumerates
<1> QED BY <1>1, <1>2, <1>5, <1>6, <1>11

----------------------------------------------------------------------------
(* Sorting.                                                                 *)

\* The relation R orders S strictly and wholly.
Orders(R, S) ==
    /\ \A x, y \in S : <<x, y>> \in R => <<y, x>> \notin R
    /\ \A x, y \in S : x # y => <<x, y>> \in R \/ <<y, x>> \in R
    /\ \A x, y, z \in S : <<x, y>> \in R /\ <<y, z>> \in R => <<x, z>> \in R

\* A sorted set is a sequence of all its members.
LEMMA RankedFacts ==
    ASSUME NEW S, IsFiniteSet(S), NEW R, Orders(R, S)
    PROVE  /\ Cardinality(S) \in Nat
           /\ Ranked(S, R) \in [1..Cardinality(S) -> S]
           /\ \A x \in S : \E k \in 1..Cardinality(S) : Ranked(S, R)[k] = x
<1> DEFINE n == Cardinality(S)
           Below(x) == {y \in S : <<y, x>> \in R}
           rank == [x \in S |-> Cardinality(Below(x)) + 1]
<1>1. n \in Nat
  BY FS_CardinalityType
<1>2. ASSUME NEW x \in S
      PROVE  IsFiniteSet(Below(x)) /\ Cardinality(Below(x)) \in Nat /\ x \notin Below(x)
  <2>1. Below(x) \in SUBSET S /\ x \notin Below(x)
    BY DEF Orders
  <2> QED BY <2>1, FS_Subset, FS_CardinalityType
<1>3. ASSUME NEW x \in S, NEW T, T \subseteq S, Below(x) \cup {x} \subseteq T
      PROVE  Cardinality(Below(x)) + 1 <= Cardinality(T)
  <2>1. Cardinality(Below(x) \cup {x}) = Cardinality(Below(x)) + 1
    BY <1>2, FS_AddElement
  <2>2. IsFiniteSet(T)
    BY <1>3, FS_Subset
  <2>3. Cardinality(Below(x) \cup {x}) <= Cardinality(T)
    BY <1>3, <2>2, FS_Subset
  <2> QED BY <2>1, <2>3
<1>4. rank \in [S -> 1..n]
  <2> SUFFICES ASSUME NEW x \in S PROVE Cardinality(Below(x)) + 1 \in 1..n
    OBVIOUS
  <2>1. Cardinality(Below(x)) + 1 <= n
    BY <1>3
  <2> HIDE DEF Below
  <2> QED BY <1>1, <1>2, <2>1
<1>5. ASSUME NEW x \in S, NEW y \in S, <<x, y>> \in R
      PROVE  Cardinality(Below(x)) < Cardinality(Below(y))
  <2>1. Below(x) \cup {x} \subseteq Below(y)
    BY <1>5 DEF Orders
  <2>2. Cardinality(Below(x)) + 1 <= Cardinality(Below(y))
    BY <1>3, <2>1
  <2> HIDE DEF Below
  <2> QED BY <1>2, <2>2
<1>6. \A x, y \in S : rank[x] = rank[y] => x = y
  <2> SUFFICES ASSUME NEW x \in S, NEW y \in S, x # y PROVE rank[x] # rank[y]
    OBVIOUS
  <2>1. Cardinality(Below(x)) # Cardinality(Below(y))
    <3>1. <<x, y>> \in R \/ <<y, x>> \in R
      BY DEF Orders
    <3> HIDE DEF Below
    <3> QED BY <1>2, <1>5, <3>1
  <2> HIDE DEF Below
  <2> QED BY <1>2, <2>1
<1>7. rank \in Surjection(S, 1..n)
  <2>1. rank \in Injection(S, 1..n)
    <3> HIDE DEF rank
    <3> QED BY <1>4, <1>6 DEF Injection, IsInjective
  <2>2. IsFiniteSet(1..n) /\ Cardinality(1..n) = Cardinality(S)
    BY <1>1, FS_Interval
  <2> HIDE DEF rank
  <2> QED BY <2>1, <2>2, FS_Injection
<1>8. \A k \in 1..n : \E x \in S : Cardinality(Below(x)) = k - 1
  <2> TAKE k \in 1..n
  <2>1. PICK x \in S : rank[x] = k
    <3> HIDE DEF rank
    <3> QED BY <1>7 DEF Surjection
  <2>2. Cardinality(Below(x)) + 1 = k /\ k \in Int
    BY <1>1, <2>1
  <2> HIDE DEF Below
  <2> QED BY <1>2, <2>2
<1>9. \A k \in 1..n : Ranked(S, R)[k] \in S /\ Cardinality(Below(Ranked(S, R)[k])) = k - 1
  <2> TAKE k \in 1..n
  <2>1. Ranked(S, R)[k] = CHOOSE x \in S : Cardinality(Below(x)) = k - 1
    BY DEF Ranked
  <2> HIDE DEF Below
  <2> QED BY <1>8, <2>1
<1>10. Ranked(S, R) \in [1..n -> S]
  BY <1>9 DEF Ranked
<1>11. ASSUME NEW x \in S PROVE \E k \in 1..n : Ranked(S, R)[k] = x
  <2>1. PICK k \in 1..n : k = rank[x]
    <3> HIDE DEF rank
    <3> QED BY <1>4
  <2>2. rank[Ranked(S, R)[k]] = k
    <3>1. PICK z \in S : z = Ranked(S, R)[k] /\ Cardinality(Below(z)) = k - 1
      BY <1>9
    <3>2. rank[z] = Cardinality(Below(z)) + 1
      OBVIOUS
    <3>3. (k - 1) + 1 = k
      BY <1>1
    <3> HIDE DEF rank
    <3> QED BY <3>1, <3>2, <3>3
  <2> HIDE DEF rank
  <2> QED BY <1>6, <1>9, <2>1, <2>2
<1> QED BY <1>1, <1>10, <1>11
=============================================================================
