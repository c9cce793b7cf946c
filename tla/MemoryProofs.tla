---------------------------- MODULE MemoryProofs ----------------------------
(***************************************************************************)
(* Theorems about Memory: the types, what is kept of what was acknowledged,  *)
(* what is never stored, and what a search answers.  Searches are reasoned   *)
(* about as sorted sets of places, and the results that stay as the one set  *)
(* that settles each place by those before it.                              *)
(***************************************************************************)
EXTENDS Memory, PickedFacts, FiniteSetTheorems, TLAPS

Entry == [user : {User, Other}, text : TextType]

----------------------------------------------------------------------------
(* Lists of results.                                                        *)

\* The elements of the sequence s are among those of t.
Within(s, t) == \A i \in DOMAIN s : \E j \in DOMAIN t : s[i] = t[j]

\* The texts of User among some entries are the texts of the entries of User.
LEMMA TextsOfFacts ==
    ASSUME NEW s \in Seq(Entry)
    PROVE  /\ TextsOf(s) \in Seq(TextType)
           /\ \A i \in DOMAIN TextsOf(s) :
                 \E j \in DOMAIN s : s[j].user = User /\ s[j].text = TextsOf(s)[i]
           /\ \A j \in DOMAIN s : s[j].user = User =>
                 \E i \in DOMAIN TextsOf(s) : TextsOf(s)[i] = s[j].text
<1> DEFINE I == {i \in DOMAIN s : s[i].user = User}
           mine == Pick(s, I)
           n == Cardinality(I)
<1>1. /\ n \in Nat /\ mine \in Seq(Entry) /\ Len(mine) = n
      /\ \E at : Enumerates(at, I) /\ \A k \in 1..n : mine[k] = s[at[k]]
  <2>1. I \subseteq DOMAIN s
    OBVIOUS
  <2> HIDE DEF I
  <2> QED BY <2>1, PickFacts
<1>2. PICK at : Enumerates(at, I) /\ \A k \in 1..n : mine[k] = s[at[k]]
  BY <1>1
<1>3. TextsOf(s) = [i \in DOMAIN mine |-> mine[i].text]
  BY DEF TextsOf
<1>4. DOMAIN mine = 1..n
  <2> HIDE DEF mine, n
  <2> QED BY <1>1
<1>5. \A k \in 1..n : at[k] \in DOMAIN s /\ s[at[k]].user = User
  BY <1>2 DEF Enumerates
<1>6. \A j \in I : \E k \in 1..n : at[k] = j
  BY <1>2 DEF Enumerates
<1>7. \A j \in DOMAIN s : s[j].user = User => j \in I
  OBVIOUS
<1> HIDE DEF mine, n, I
<1>8. TextsOf(s) \in Seq(TextType)
  <2>1. \A k \in 1..n : mine[k] \in Entry
    BY <1>1, <1>4
  <2>2. \A k \in 1..n : mine[k].text \in TextType
    BY <2>1 DEF Entry
  <2> QED BY <1>1, <1>3, <1>4, <2>2
<1> QED BY SMTT(30), <1>2, <1>3, <1>4, <1>5, <1>6, <1>7, <1>8

\* The first few of a sequence are as many as wanted or there are.
LEMMA FirstFewFacts ==
    ASSUME NEW S, NEW s \in Seq(S), NEW n \in Nat
    PROVE  /\ FirstFew(s, n) \in Seq(S) /\ Len(FirstFew(s, n)) <= n
           /\ DOMAIN FirstFew(s, n) \subseteq DOMAIN s
           /\ \A i \in DOMAIN FirstFew(s, n) : FirstFew(s, n)[i] = s[i]
           /\ n # 0 /\ s # <<>> => FirstFew(s, n) # <<>>
<1>1. CASE Len(s) < n
  <2>1. FirstFew(s, n) = SubSeq(s, 1, Len(s))
    BY <1>1 DEF FirstFew
  <2>2. SubSeq(s, 1, Len(s)) = s
    OBVIOUS
  <2> QED BY <1>1, <2>1, <2>2
<1>2. CASE ~(Len(s) < n)
  <2>1. FirstFew(s, n) = SubSeq(s, 1, n) /\ n <= Len(s)
    BY <1>2 DEF FirstFew
  <2> QED BY <2>1
<1> QED BY <1>1, <1>2

\* The rows at some places, in an order.
LEMMA PlacesFacts ==
    ASSUME NEW S, NEW rows \in Seq(S), NEW found, found \subseteq DOMAIN rows,
           NEW R, Orders(R, found)
    PROVE  LET places == Ranked(found, R)
               s == [n \in DOMAIN places |-> rows[places[n]]]
           IN  s \in Seq(S) /\ Within(s, rows) /\ (found # {} => s # <<>>)
<1> DEFINE places == Ranked(found, R)
           s == [n \in DOMAIN places |-> rows[places[n]]]
           c == Cardinality(found)
<1>1. IsFiniteSet(found)
  <2>1. DOMAIN rows = 1..Len(rows) /\ Len(rows) \in Nat
    OBVIOUS
  <2>2. IsFiniteSet(1..Len(rows)) /\ found \in SUBSET (1..Len(rows))
    BY <2>1, FS_Interval
  <2> QED BY <2>2, FS_Subset
<1>2. c \in Nat /\ places \in [1..c -> found] /\ \A x \in found : \E k \in 1..c : places[k] = x
  BY <1>1, RankedFacts
<1> HIDE DEF c, places
<1>3. s = [n \in 1..c |-> rows[places[n]]] /\ \A n \in 1..c : places[n] \in DOMAIN rows
  BY <1>2
<1>4. s \in Seq(S)
  <2>1. \A n \in 1..c : rows[places[n]] \in S
    BY <1>3
  <2> QED BY <1>2, <1>3, <2>1
<1>5. Within(s, rows)
  BY <1>2, <1>3 DEF Within
<1>6. ASSUME found # {} PROVE s # <<>>
  <2>1. PICK k \in 1..c : TRUE
    BY <1>2, <1>6
  <2>2. DOMAIN s = 1..c /\ DOMAIN <<>> = {}
    BY <1>3
  <2> HIDE DEF s
  <2> QED BY <2>1, <2>2
<1> QED BY <1>4, <1>5, <1>6 DEF places, c

----------------------------------------------------------------------------
(* Searches.                                                                *)

\* The newest rows with a term are rows; there are some if any row has it.
LEMMA NewestFacts ==
    ASSUME NEW S, NEW rows \in Seq(S), NEW term, NEW limit \in Nat
    PROVE  /\ Newest(rows, term, limit) \subseteq DOMAIN rows
           /\ limit # 0 /\ (\E i \in DOMAIN rows : IsIn(term, rows[i])) => Newest(rows, term, limit) # {}
<1> DEFINE with == {i \in DOMAIN rows : IsIn(term, rows[i])}
<1>1. Newest(rows, term, limit) = {i \in with : Cardinality({j \in with : j > i}) < limit}
  BY DEF Newest
<1>2. with \subseteq Nat /\ (\A m \in with : m <= Len(rows)) /\ Len(rows) \in Nat /\ with \subseteq DOMAIN rows
  OBVIOUS
<1>3. ASSUME limit # 0, with # {} PROVE Newest(rows, term, limit) # {}
  <2> HIDE DEF with
  <2>1. PICK i \in with : \A m \in with : m <= i
    BY <1>2, <1>3, GreatestNat
  <2>2. {j \in with : j > i} = {}
    <3>1. \A j \in with : j \in Nat /\ i \in Nat /\ j <= i
      BY <1>2, <2>1
    <3>2. \A j \in with : ~(j > i)
      BY <3>1
    <3> QED BY <3>2
  <2>3. Cardinality({j \in with : j > i}) = 0
    BY <2>2, FS_EmptySet
  <2> QED BY <1>1, <1>3, <2>1, <2>3
<1> QED BY <1>1, <1>2, <1>3

\* A search of the SQLite backend gives rows of it, no more than wanted, and
\* something if there is a row with a word of the query.
LEMMA SqliteFacts ==
    ASSUME NEW rows \in Seq(TextType), rows = TextsIn("sqlite"), NEW query \in TextType, NEW limit \in Nat
    PROVE  LET r == SqliteSearch(query, limit)
           IN  /\ r \in Seq(TextType) /\ Len(r) <= limit /\ Within(r, rows)
               /\ limit # 0 /\ r = <<>> => \A i \in DOMAIN rows : NamesOf(rows[i]) \cap NamesOf(query) = {}
<1> DEFINE terms == IF Newest(rows, query, limit) # {} THEN <<query>>
                    ELSE [k \in DOMAIN query |-> <<Word(query[k].name)>>]
           new(k) == Newest(rows, terms[k], limit)
           found == UNION {new(k) : k \in DOMAIN terms}
           term(i) == CHOOSE k \in DOMAIN terms : i \in new(k) /\ \A l \in 1..k - 1 : i \notin new(l)
           before(i, j) == term(i) < term(j) \/ (term(i) = term(j) /\ i > j)
           R == {p \in found \X found : before(p[1], p[2])}
           places == Ranked(found, R)
           s == [n \in DOMAIN places |-> rows[places[n]]]
<1>1. SqliteSearch(query, limit) = FirstFew(s, limit)
  BY DEF SqliteSearch
<1>2. \E n \in Nat : DOMAIN terms = 1..n
  <2>1. DOMAIN query = 1..Len(query) /\ Len(query) \in Nat
    BY DEF TextType
  <2>2. DOMAIN <<query>> = 1..1
    BY SMT
  <2>3. DOMAIN terms = 1..1 \/ DOMAIN terms = DOMAIN query
    BY <2>2
  <2> HIDE DEF terms
  <2> QED BY <2>1, <2>3
<1>3. PICK n \in Nat : DOMAIN terms = 1..n
  BY <1>2
<1>4. found \subseteq DOMAIN rows
  <2>1. \A k \in DOMAIN terms : new(k) \subseteq DOMAIN rows
    BY NewestFacts
  <2> QED BY ZenonT(40), <2>1
<1>5. ASSUME NEW i \in found PROVE term(i) \in Nat
  <2> DEFINE T == {k \in 1..n : i \in new(k)}
  <2>1. T \subseteq Nat /\ T # {}
    <3>1. PICK k \in DOMAIN terms : i \in new(k)
      BY <1>5
    <3>2. k \in T
      BY <1>3, <3>1
    <3>3. T \subseteq Nat
      OBVIOUS
    <3> QED BY <3>2, <3>3
  <2>2. PICK k \in T : \A l \in T : k <= l
    <3> HIDE DEF T
    <3> QED BY <2>1, LeastNat
  <2>3. k \in DOMAIN terms /\ i \in new(k) /\ \A l \in 1..k - 1 : i \notin new(l)
    <3> HIDE DEF new
    <3> QED BY <1>3, <2>2
  <2>4. term(i) \in DOMAIN terms
    <3> HIDE DEF new, terms
    <3> QED BY <2>3
  <2> HIDE DEF term, terms
  <2> QED BY <1>3, <2>4
<1>6. Orders(R, found)
  <2>1. \A i \in found : term(i) \in Nat /\ i \in Nat
    <3> HIDE DEF term, found
    <3> QED BY <1>4, <1>5
  <2>2. \A i, j \in found : <<i, j>> \in R <=> before(i, j)
    <3> HIDE DEF before, found
    <3> QED OBVIOUS
  <2> HIDE DEF R, term, found
  <2> QED BY <2>1, <2>2 DEF Orders
<1>7. s \in Seq(TextType) /\ Within(s, rows) /\ (found # {} => s # <<>>)
  <2> HIDE DEF R, found
  <2> QED BY <1>4, <1>6, PlacesFacts
<1>8. ASSUME limit # 0, NEW i \in DOMAIN rows, NEW w, w \in NamesOf(rows[i]), w \in NamesOf(query)
      PROVE  found # {}
  <2>1. CASE Newest(rows, query, limit) # {}
    <3>1. terms = <<query>>
      BY <2>1
    <3>2. 1 \in DOMAIN terms /\ terms[1] = query
      BY <3>1
    <3>3. new(1) # {}
      BY <2>1, <3>2
    <3> HIDE DEF terms, new
    <3> QED BY <3>2, <3>3
  <2>2. CASE Newest(rows, query, limit) = {}
    <3>1. PICK k \in DOMAIN query : query[k].name = w
      BY <1>8 DEF NamesOf
    <3>2. terms = [l \in DOMAIN query |-> <<Word(query[l].name)>>]
      BY <2>2
    <3>3. k \in DOMAIN terms /\ terms[k] = <<Word(w)>>
      BY <3>1, <3>2
    <3>4. IsIn(<<Word(w)>>, rows[i])
      <4>1. PICK m \in DOMAIN rows[i] : rows[i][m].name = w
        BY <1>8 DEF NamesOf
      <4>2. DOMAIN rows[i] = 1..Len(rows[i]) /\ Len(rows[i]) \in Nat
        BY DEF TextType
      <4>3. m - 1 \in 0..Len(rows[i]) - 1 /\ (m - 1) + 1 = m
        BY <4>1, <4>2
      <4>4. Len(<<Word(w)>>) = 1 /\ DOMAIN <<Word(w)>> = {1} /\ <<Word(w)>>[1] = Word(w)
        BY SMT
      <4>5. Word(w).name = w /\ Word(w).semi = FALSE
        BY DEF Word
      <4>6. \A x \in DOMAIN <<Word(w)>> :
               /\ rows[i][(m - 1) + x].name = <<Word(w)>>[x].name
               /\ x < Len(<<Word(w)>>) \/ <<Word(w)>>[x].semi => rows[i][(m - 1) + x].semi = <<Word(w)>>[x].semi
        BY <4>1, <4>3, <4>4, <4>5
      <4> QED BY <4>3, <4>4, <4>6 DEF IsIn
    <3>5. new(k) # {}
      BY <1>8, <3>3, <3>4, NewestFacts
    <3> HIDE DEF terms, new
    <3> QED BY <3>3, <3>5
  <2> QED BY <2>1, <2>2
<1> HIDE DEF s, found
<1> QED BY <1>1, <1>7, <1>8, FirstFewFacts DEF Within

\* The product of two texts is positive just if they share a word.
LEMMA DotFacts ==
    ASSUME NEW s \in TextType, NEW t \in TextType
    PROVE  Dot(s, t) \in Nat /\ (Dot(s, t) > 0 <=> NamesOf(s) \cap NamesOf(t) # {})
<1> DEFINE P == {p \in (DOMAIN s) \X (DOMAIN t) : s[p[1]].name = t[p[2]].name}
<1>1. IsFiniteSet(P)
  <2>1. IsFiniteSet(DOMAIN s) /\ IsFiniteSet(DOMAIN t)
    <3>1. /\ DOMAIN s = 1..Len(s) /\ Len(s) \in Nat
          /\ DOMAIN t = 1..Len(t) /\ Len(t) \in Nat
      BY DEF TextType
    <3> QED BY <3>1, FS_Interval
  <2>2. IsFiniteSet((DOMAIN s) \X (DOMAIN t))
    BY <2>1, FS_Product
  <2>3. P \in SUBSET ((DOMAIN s) \X (DOMAIN t))
    OBVIOUS
  <2> QED BY <2>2, <2>3, FS_Subset
<1>2. Cardinality(P) \in Nat /\ (Cardinality(P) = 0 <=> P = {})
  BY <1>1, FS_CardinalityType, FS_EmptySet
<1>3. P # {} <=> NamesOf(s) \cap NamesOf(t) # {}
  <2>1. ASSUME NEW p \in P PROVE NamesOf(s) \cap NamesOf(t) # {}
    <3>1. p[1] \in DOMAIN s /\ p[2] \in DOMAIN t /\ s[p[1]].name = t[p[2]].name
      OBVIOUS
    <3> QED BY <3>1 DEF NamesOf
  <2>2. ASSUME NEW w \in NamesOf(s) \cap NamesOf(t) PROVE P # {}
    <3>1. PICK i \in DOMAIN s, j \in DOMAIN t : s[i].name = w /\ t[j].name = w
      BY DEF NamesOf
    <3>2. <<i, j>> \in P
      BY <3>1
    <3> QED BY <3>2
  <2> QED BY <2>1, <2>2
<1>4. Dot(s, t) = Cardinality(P)
  BY DEF Dot
<1> HIDE DEF P
<1> QED BY <1>2, <1>3, <1>4

\* Fractions are compared by their cross products.
LEMMA CrossProducts ==
    ASSUME NEW a \in Nat, NEW b \in Nat, NEW c \in Nat,
           NEW p \in Nat \ {0}, NEW q \in Nat \ {0}, NEW r \in Nat \ {0},
           a * q >= b * p, b * r >= c * q
    PROVE  /\ a * r >= c * p
           /\ (a * q > b * p \/ b * r > c * q) => a * r > c * p
<1>1. \A x, y \in Nat, z \in Nat \ {0} : (x >= y => x * z >= y * z) /\ (x > y => x * z > y * z)
  <2> TAKE x, y \in Nat, z \in Nat \ {0}
  <2>1. \A d \in Nat : (y + d) * z = y * z + d * z /\ d * z \in Nat /\ (d > 0 => d * z > 0)
    OBVIOUS
  <2>2. x >= y => x - y \in Nat /\ y + (x - y) = x /\ (x > y => x - y > 0)
    OBVIOUS
  <2>3. x >= y => x * z = y * z + (x - y) * z /\ (x - y) * z \in Nat /\ (x > y => (x - y) * z > 0)
    BY <2>1, <2>2
  <2> QED BY <2>3
<1>2. /\ a * q \in Nat /\ b * p \in Nat /\ b * r \in Nat /\ c * q \in Nat
      /\ a * r \in Nat /\ c * p \in Nat
  OBVIOUS
<1>3. (a * q) * r >= (b * p) * r /\ (a * q > b * p => (a * q) * r > (b * p) * r)
  BY <1>1, <1>2
<1>4. (b * r) * p >= (c * q) * p /\ (b * r > c * q => (b * r) * p > (c * q) * p)
  BY <1>1, <1>2
<1>5. (a * q) * r = (a * r) * q /\ (b * p) * r = (b * r) * p /\ (c * q) * p = (c * p) * q
  OBVIOUS
<1>6. /\ (a * r) * q >= (c * p) * q
      /\ (a * q > b * p \/ b * r > c * q) => (a * r) * q > (c * p) * q
  <2>1. \A x, y, z \in Int : x >= y /\ y >= z => x >= z /\ (x > y \/ y > z => x > z)
    OBVIOUS
  <2>2. (a * q) * r \in Int /\ (b * p) * r \in Int /\ (c * q) * p \in Int
    OBVIOUS
  <2> QED BY <1>3, <1>4, <1>5, <2>1, <2>2
<1>7. /\ c * p > a * r => (c * p) * q > (a * r) * q
      /\ c * p >= a * r => (c * p) * q >= (a * r) * q
  BY <1>1, <1>2
<1>8. (a * r) * q \in Int /\ (c * p) * q \in Int
  OBVIOUS
<1>9. \A x, y, u, v \in Int : x >= y /\ (v > u => y > x) => u >= v
  OBVIOUS
<1>10. \A x, y, u, v \in Int : x > y /\ (v >= u => y >= x) => u > v
  OBVIOUS
<1> QED BY <1>2, <1>6, <1>7, <1>8, <1>9, <1>10

\* The fraction a / p at place i comes before b / q at place j.
Ahead(a, p, i, b, q, j) == a * q > b * p \/ (a * q = b * p /\ i < j)

\* The parts of three such fractions and their places.
AreFractions(a, b, c, p, q, r, i, j, k) ==
    /\ a \in Nat /\ b \in Nat /\ c \in Nat
    /\ p \in Nat \ {0} /\ q \in Nat \ {0} /\ r \in Nat \ {0}
    /\ i \in Nat /\ j \in Nat /\ k \in Nat

\* So an order by fractions, and by place among equals, is transitive.
LEMMA CosineOrder ==
    ASSUME NEW a, NEW b, NEW c, NEW p, NEW q, NEW r, NEW i, NEW j, NEW k,
           AreFractions(a, b, c, p, q, r, i, j, k),
           Ahead(a, p, i, b, q, j), Ahead(b, q, j, c, r, k)
    PROVE  Ahead(a, p, i, c, r, k)
<1>0. /\ a \in Nat /\ b \in Nat /\ c \in Nat
      /\ p \in Nat \ {0} /\ q \in Nat \ {0} /\ r \in Nat \ {0}
      /\ i \in Nat /\ j \in Nat /\ k \in Nat
  BY DEF AreFractions
<1> DEFINE aq == a * q
           bp == b * p
           br == b * r
           cq == c * q
           ar == a * r
           cp == c * p
<1>1. aq \in Nat /\ bp \in Nat /\ br \in Nat /\ cq \in Nat /\ ar \in Nat /\ cp \in Nat
  BY <1>0
<1>2. (aq > bp \/ (aq = bp /\ i < j)) /\ (br > cq \/ (br = cq /\ j < k))
  BY DEF Ahead
<1>3. aq >= bp /\ br >= cq
  <2> HIDE DEF aq, bp, br, cq
  <2> QED BY <1>1, <1>2
<1>4. ar >= cp /\ (aq > bp \/ br > cq => ar > cp)
  BY <1>0, <1>3, CrossProducts
<1> HIDE DEF aq, bp, br, cq, ar, cp
<1>5. ar > cp \/ (ar = cp /\ i < k)
  BY <1>0, <1>1, <1>2, <1>4
<1> QED BY <1>5 DEF ar, cp, Ahead

\* A search of the vector backend gives rows of it, no more than wanted, and
\* something if there is a row with a word of the query.
LEMMA VectorFacts ==
    ASSUME NEW rows \in Seq(TextType), rows = TextsIn("vector"), NEW query \in TextType, NEW limit \in Nat
    PROVE  LET r == VectorSearch(query, limit)
           IN  /\ r \in Seq(TextType) /\ Len(r) <= limit /\ Within(r, rows)
               /\ limit # 0 /\ r = <<>> => \A i \in DOMAIN rows : NamesOf(rows[i]) \cap NamesOf(query) = {}
<1> DEFINE found == {i \in DOMAIN rows : Dot(query, rows[i]) > 0}
           score(i, j) == Dot(query, rows[i]) * Dot(query, rows[i]) * Dot(rows[j], rows[j])
           before(i, j) == score(i, j) > score(j, i) \/ (score(i, j) = score(j, i) /\ i < j)
           R == {p \in found \X found : before(p[1], p[2])}
           places == Ranked(found, R)
           s == [n \in DOMAIN places |-> rows[places[n]]]
<1>1. VectorSearch(query, limit) = FirstFew(s, limit)
  BY DEF VectorSearch
<1>2. \A i \in DOMAIN rows : i \in Nat /\ rows[i] \in TextType
  OBVIOUS
<1>3. ASSUME NEW i \in found
      PROVE  /\ i \in Nat
             /\ Dot(query, rows[i]) * Dot(query, rows[i]) \in Nat
             /\ Dot(rows[i], rows[i]) \in Nat \ {0}
  <2>1. i \in DOMAIN rows /\ Dot(query, rows[i]) > 0
    OBVIOUS
  <2>2. Dot(query, rows[i]) \in Nat /\ NamesOf(query) \cap NamesOf(rows[i]) # {}
    BY <1>2, <2>1, DotFacts
  <2>3. NamesOf(rows[i]) \cap NamesOf(rows[i]) # {}
    BY <2>2
  <2>4. Dot(rows[i], rows[i]) \in Nat /\ Dot(rows[i], rows[i]) > 0
    BY <1>2, <2>1, <2>3, DotFacts
  <2> QED BY <1>2, <2>1, <2>2, <2>4
<1>4. \A i, j \in found : score(i, j) \in Int /\ i \in Int
  <2> TAKE i, j \in found
  <2> PICK a \in Nat, q \in Nat : a = Dot(query, rows[i]) * Dot(query, rows[i]) /\ q = Dot(rows[j], rows[j])
    <3> HIDE DEF found
    <3> QED BY <1>3
  <2>1. score(i, j) = a * q
    OBVIOUS
  <2>2. a * q \in Int
    OBVIOUS
  <2> HIDE DEF found, score
  <2> QED BY <1>3, <2>1, <2>2
<1>5. \A i, j, k \in found : before(i, j) /\ before(j, k) => before(i, k)
  <2> SUFFICES ASSUME NEW i \in found, NEW j \in found, NEW k \in found, before(i, j), before(j, k)
               PROVE  before(i, k)
    OBVIOUS
  <2>0. PICK a \in Nat, b \in Nat, c \in Nat, p \in Nat \ {0}, q \in Nat \ {0}, r \in Nat \ {0} :
          /\ a = Dot(query, rows[i]) * Dot(query, rows[i]) /\ p = Dot(rows[i], rows[i])
          /\ b = Dot(query, rows[j]) * Dot(query, rows[j]) /\ q = Dot(rows[j], rows[j])
          /\ c = Dot(query, rows[k]) * Dot(query, rows[k]) /\ r = Dot(rows[k], rows[k])
    <3> HIDE DEF found
    <3> QED BY <1>3
  <2>1. /\ score(i, j) = a * q /\ score(j, i) = b * p
        /\ score(j, k) = b * r /\ score(k, j) = c * q
        /\ score(i, k) = a * r /\ score(k, i) = c * p
    BY <2>0
  <2>2. AreFractions(a, b, c, p, q, r, i, j, k)
    BY <1>3, <2>0 DEF AreFractions
  <2> HIDE DEF score, found
  <2>3. Ahead(a, p, i, b, q, j) /\ Ahead(b, q, j, c, r, k)
    <3>1. /\ score(i, j) > score(j, i) \/ (score(i, j) = score(j, i) /\ i < j)
          /\ score(j, k) > score(k, j) \/ (score(j, k) = score(k, j) /\ j < k)
      OBVIOUS
    <3> QED BY <2>1, <3>1, Zenon DEF Ahead
  <2> HIDE DEF before
  <2>4. Ahead(a, p, i, c, r, k)
    BY <2>2, <2>3, CosineOrder, Zenon
  <2>5. score(i, k) > score(k, i) \/ (score(i, k) = score(k, i) /\ i < k)
    BY <2>1, <2>4, Zenon DEF Ahead
  <2> QED BY <2>5 DEF before
<1>6. Orders(R, found)
  <2>1. \A i, j \in found : <<i, j>> \in R <=> before(i, j)
    <3> HIDE DEF before, found
    <3> QED OBVIOUS
  <2>2. \A i, j \in found : before(i, j) => ~before(j, i)
    <3> HIDE DEF score, found
    <3> QED BY <1>4
  <2>3. \A i, j \in found : i # j => before(i, j) \/ before(j, i)
    <3> HIDE DEF score, found
    <3> QED BY <1>4
  <2> HIDE DEF R, before, found
  <2> QED BY <1>5, <2>1, <2>2, <2>3 DEF Orders
<1>7. s \in Seq(TextType) /\ Within(s, rows) /\ (found # {} => s # <<>>)
  <2>1. found \subseteq DOMAIN rows
    OBVIOUS
  <2> HIDE DEF R, found
  <2> QED BY <1>6, <2>1, PlacesFacts
<1>8. ASSUME NEW i \in DOMAIN rows, NamesOf(rows[i]) \cap NamesOf(query) # {} PROVE found # {}
  <2>1. rows[i] \in TextType
    BY <1>2
  <2>2. Dot(query, rows[i]) > 0
    BY <1>8, <2>1, DotFacts
  <2> QED BY <2>2
<1> HIDE DEF s, found
<1> QED BY <1>1, <1>7, <1>8, FirstFewFacts DEF Within

\* A list picked from another one consists of its elements.
LEMMA PickWithin ==
    ASSUME NEW S, NEW s \in Seq(S), NEW I, I \subseteq DOMAIN s
    PROVE  Pick(s, I) \in Seq(S) /\ Within(Pick(s, I), s) /\ (I # {} => Pick(s, I) # <<>>)
<1>1. /\ Cardinality(I) \in Nat /\ Pick(s, I) \in Seq(S) /\ Len(Pick(s, I)) = Cardinality(I)
      /\ \E at : Enumerates(at, I) /\ \A k \in 1..Cardinality(I) : Pick(s, I)[k] = s[at[k]]
  BY PickFacts
<1>2. PICK at : Enumerates(at, I) /\ \A k \in 1..Cardinality(I) : Pick(s, I)[k] = s[at[k]]
  BY <1>1
<1>3. \A k \in 1..Cardinality(I) : at[k] \in DOMAIN s
  BY <1>2 DEF Enumerates
<1>4. DOMAIN Pick(s, I) = 1..Cardinality(I)
  BY <1>1
<1>5. I # {} => Pick(s, I) # <<>>
  <2> SUFFICES ASSUME NEW i \in I, Pick(s, I) = <<>> PROVE FALSE
    OBVIOUS
  <2>1. PICK k \in 1..Cardinality(I) : at[k] = i
    BY <1>2 DEF Enumerates
  <2>2. Cardinality(I) = 0
    BY <1>1
  <2> QED BY <2>1, <2>2
<1> QED BY <1>1, <1>2, <1>3, <1>4, <1>5 DEF Within

\* Whatever backend is searched, the answer is a list of texts it has of User,
\* no longer than wanted; and one of our own backends gives something if it has
\* a text with a word of the query.
LEMMA SearchesFacts ==
    ASSUME NEW b \in Backends, TextsIn(b) \in Seq(TextType), NEW query \in TextType, NEW limit \in Nat,
           NEW r \in Searches(b, query, limit)
    PROVE  /\ r \in Seq(TextType) /\ Len(r) <= limit /\ Within(r, TextsIn(b))
           /\ limit # 0 /\ b # "mem0" /\ r = <<>> =>
                 \A i \in DOMAIN TextsIn(b) : NamesOf(TextsIn(b)[i]) \cap NamesOf(query) = {}
<1>1. CASE b = "sqlite"
  <2>1. Searches(b, query, limit) = {SqliteSearch(query, limit)}
    BY <1>1 DEF Searches
  <2>2. r = SqliteSearch(query, limit)
    BY <2>1
  <2> QED BY <1>1, <2>2, SqliteFacts
<1>2. CASE b = "vector"
  <2>1. Searches(b, query, limit) = {VectorSearch(query, limit)}
    BY <1>2 DEF Searches
  <2>2. r = VectorSearch(query, limit)
    BY <2>1
  <2> QED BY <1>2, <2>2, VectorFacts
<1>3. CASE b = "mem0"
  <2>1. r \in Mem0Searches(limit)
    BY <1>3 DEF Searches
  <2> DEFINE rows == TextsIn("mem0")
  <2>2. PICK I \in SUBSET DOMAIN rows : r = FirstFew(Pick(rows, I), limit)
    BY <2>1 DEF Mem0Searches
  <2>3. rows \in Seq(TextType) /\ I \subseteq DOMAIN rows
    BY <1>3
  <2> HIDE DEF rows
  <2>4. Pick(rows, I) \in Seq(TextType) /\ Within(Pick(rows, I), rows)
    BY <2>3, PickWithin
  <2>5. r \in Seq(TextType) /\ Len(r) <= limit /\ Within(r, rows)
    BY <2>2, <2>4, FirstFewFacts DEF Within
  <2> QED BY <1>3, <2>5 DEF rows
<1> QED BY <1>1, <1>2, <1>3 DEF Backends

----------------------------------------------------------------------------
(* The composite.                                                           *)

\* K are the first m results without duplicates of those before them.
StayUpto(K, m, r) ==
    /\ K \subseteq 1..m
    /\ \A i \in 1..m : i \in K <=> ~ \E j \in 1..i - 1 : IsDuplicate(r[i], r[j]) /\ j \in K

\* However many results there are, it is settled which of them stay: a least
\* number of them for which it were not would be settled by those before.
LEMMA StayExists ==
    ASSUME NEW r, NEW n \in Nat
    PROVE  \E K : StayUpto(K, n, r)
<1> DEFINE Bad == {m \in Nat : ~ \E K : StayUpto(K, m, r)}
<1>1. SUFFICES Bad = {}
  OBVIOUS
<1>2. SUFFICES ASSUME Bad # {} PROVE FALSE
  OBVIOUS
<1>3. PICK m \in Bad : \A l \in Bad : m <= l
  <2>1. Bad \subseteq Nat
    OBVIOUS
  <2> HIDE DEF Bad
  <2> QED BY <1>2, <2>1, LeastNat
<1>4. m \in Nat /\ ~ \E K : StayUpto(K, m, r)
  OBVIOUS
<1>5. m # 0
  <2>1. StayUpto({}, 0, r)
    BY DEF StayUpto
  <2> QED BY <1>4, <2>1
<1>6. m - 1 \in Nat /\ m \in 1..m /\ 1..m = 1..m - 1 \cup {m} /\ ~(m <= m - 1)
  BY <1>4, <1>5
<1>7. PICK K : StayUpto(K, m - 1, r)
  <2>1. m - 1 \notin Bad
    <3> HIDE DEF Bad
    <3> QED BY <1>3, <1>6
  <2> QED BY <1>6, <2>1
<1> DEFINE new == {i \in {m} : ~ \E j \in 1..m - 1 : IsDuplicate(r[m], r[j]) /\ j \in K}
<1>8. K \subseteq 1..m - 1 /\ new \subseteq {m} /\ m \notin 1..m - 1
  BY <1>4, <1>7 DEF StayUpto
<1>9. m \in new <=> ~ \E j \in 1..m - 1 : IsDuplicate(r[m], r[j]) /\ j \in K
  OBVIOUS
<1> HIDE DEF new
<1>10. \A j \in 1..m - 1 : j \in K \cup new <=> j \in K
  BY <1>8
<1>11. \A i \in 1..m : 1..i - 1 \subseteq 1..m - 1
  BY <1>4
<1>12. ASSUME NEW i \in 1..m
       PROVE  i \in K \cup new <=> ~ \E j \in 1..i - 1 : IsDuplicate(r[i], r[j]) /\ j \in K \cup new
  <2>1. CASE i = m
    <3>1. i \in K \cup new <=> i \in new
      BY <1>8, <2>1
    <3> QED BY <1>9, <1>10, <2>1, <3>1
  <2>2. CASE i \in 1..m - 1
    <3>1. i \in K <=> ~ \E j \in 1..i - 1 : IsDuplicate(r[i], r[j]) /\ j \in K
      BY <1>7, <2>2 DEF StayUpto
    <3>2. \A j \in 1..i - 1 : j \in K \cup new <=> j \in K
      BY <1>10, <1>11
    <3> QED BY <1>10, <2>2, <3>1, <3>2
  <2> QED BY <1>6, <2>1, <2>2
<1>13. StayUpto(K \cup new, m, r)
  BY <1>6, <1>8, <1>12 DEF StayUpto
<1> QED BY <1>4, <1>13

\* What stays of some results.
LEMMA StayingFacts ==
    ASSUME NEW S, NEW r \in Seq(S)
    PROVE  StayUpto(Staying(r), Len(r), r)
<1> DEFINE Def(f) == f = [i \in DOMAIN r |-> ~ \E j \in 1..i - 1 : IsDuplicate(r[i], r[j]) /\ f[j]]
           stays == CHOOSE f : Def(f)
<1>1. DOMAIN r = 1..Len(r) /\ Len(r) \in Nat
  OBVIOUS
<1>2. PICK K : StayUpto(K, Len(r), r)
  BY <1>1, StayExists
<1> DEFINE g == [i \in DOMAIN r |-> i \in K]
<1>3. Def(g)
  <2>1. \A i \in 1..Len(r) : 1..i - 1 \subseteq 1..Len(r)
    BY <1>1
  <2>2. \A i \in DOMAIN r : g[i] = (i \in K)
    OBVIOUS
  <2>3. ASSUME NEW i \in DOMAIN r
        PROVE  (i \in K) = (~ \E j \in 1..i - 1 : IsDuplicate(r[i], r[j]) /\ g[j])
    <3>1. \A j \in 1..i - 1 : g[j] = (j \in K)
      BY <1>1, <2>1, <2>2
    <3>2. (i \in K) <=> ~ \E j \in 1..i - 1 : IsDuplicate(r[i], r[j]) /\ j \in K
      BY <1>1, <1>2 DEF StayUpto
    <3> HIDE DEF g
    <3>3. \A j \in 1..i - 1 : g[j] <=> j \in K
      BY <3>1
    <3>4. (i \in K) <=> ~ \E j \in 1..i - 1 : IsDuplicate(r[i], r[j]) /\ g[j]
      BY <3>2, <3>3, Zenon
    <3> QED BY <3>4
  <2> DEFINE h == [i \in DOMAIN r |-> ~ \E j \in 1..i - 1 : IsDuplicate(r[i], r[j]) /\ g[j]]
  <2>4. g = h
    BY <2>3, Zenon
  <2> QED BY <2>4
<1>4. Def(stays)
  <2> HIDE DEF Def
  <2> QED BY <1>3
<1>5. Staying(r) = {i \in DOMAIN r : stays[i]}
  BY DEF Staying
<1> HIDE DEF stays
<1>6. \A i \in DOMAIN r : stays[i] <=> ~ \E j \in 1..i - 1 : IsDuplicate(r[i], r[j]) /\ stays[j]
  BY <1>4, Zenon
<1>7. \A i \in 1..Len(r) : 1..i - 1 \subseteq 1..Len(r)
  BY <1>1
<1>8. \A j \in DOMAIN r : j \in Staying(r) <=> stays[j]
  BY <1>5
<1>9. ASSUME NEW i \in 1..Len(r)
      PROVE  i \in Staying(r) <=> ~ \E j \in 1..i - 1 : IsDuplicate(r[i], r[j]) /\ j \in Staying(r)
  <2>1. \A j \in 1..i - 1 : j \in Staying(r) <=> stays[j]
    BY <1>1, <1>7, <1>8
  <2> QED BY <1>1, <1>6, <1>8, <2>1, Zenon
<1> QED BY <1>1, <1>5, <1>9 DEF StayUpto

\* The overlap of two texts is a number, and that of the two the other way round.
LEMMA OverlapFacts ==
    ASSUME NEW s \in TextType, NEW t \in TextType
    PROVE  Overlap(s, t) \in Nat /\ Overlap(s, t) = Overlap(t, s)
<1> DEFINE both == WordsOf(s) \cap WordsOf(t)
           any == WordsOf(s) \cup WordsOf(t)
<1>1. both = WordsOf(t) \cap WordsOf(s) /\ any = WordsOf(t) \cup WordsOf(s)
  OBVIOUS
<1>2. \A u \in TextType : IsFiniteSet(WordsOf(u)) /\ (u # <<>> => WordsOf(u) # {})
  <2> TAKE u \in TextType
  <2>1. DOMAIN u = 1..Len(u) /\ Len(u) \in Nat /\ (u # <<>> => Len(u) # 0)
    BY DEF TextType
  <2>2. IsFiniteSet(DOMAIN u)
    BY <2>1, FS_Interval
  <2>3. IsFiniteSet(WordsOf(u))
    <3> DEFINE D == DOMAIN u
           W == {u[i] : i \in D}
    <3>1. u \in [D -> W]
      BY <2>1 DEF TextType
    <3>2. u \in Surjection(D, W)
      BY <3>1 DEF Surjection
    <3>3. IsFiniteSet(W)
      <4> HIDE DEF W, D
      <4> QED BY <2>2, <3>2, FS_Surjection DEF D
    <3> QED BY <3>3 DEF WordsOf
  <2>4. ASSUME u # <<>> PROVE WordsOf(u) # {}
    <3>1. 1 \in DOMAIN u
      BY <2>1, <2>4
    <3> QED BY <3>1 DEF WordsOf
  <2> QED BY <2>3, <2>4
<1>3. IsFiniteSet(both) /\ IsFiniteSet(any) /\ (s # <<>> => any # {})
  BY <1>2, FS_Union, FS_Intersection
<1> HIDE DEF both, any
<1>4. Cardinality(both) \in Nat /\ Cardinality(any) \in Nat /\ (s # <<>> => Cardinality(any) # 0)
  BY <1>3, FS_CardinalityType, FS_EmptySet
<1>5. CASE s = <<>> \/ t = <<>>
  BY <1>5 DEF Overlap
<1>6. CASE s # <<>> /\ t # <<>>
  <2>1. \A a \in Nat, b \in Nat \ {0} : (100 * a) \div b \in Nat
    OBVIOUS
  <2>2. Overlap(s, t) = (100 * Cardinality(both)) \div Cardinality(any)
    BY <1>6 DEF Overlap, both, any
  <2>3. Overlap(t, s) = (100 * Cardinality(both)) \div Cardinality(any)
    BY <1>1, <1>6 DEF Overlap
  <2> QED BY <1>4, <1>6, <2>1, <2>2, <2>3
<1> QED BY <1>5, <1>6

\* The results of two backends together are some of theirs, with none twice,
\* and some if either has any.
LEMMA MergedFacts ==
    ASSUME NEW p \in Seq(TextType), NEW s \in Seq(TextType)
    PROVE  LET m == Merged(p, s)
           IN  /\ m \in Seq(TextType)
               /\ \A i \in DOMAIN m : (\E j \in DOMAIN p : m[i] = p[j]) \/ (\E j \in DOMAIN s : m[i] = s[j])
               /\ \A i, j \in DOMAIN m : i < j => Overlap(m[i], m[j]) < Dedup
               /\ p # <<>> \/ s # <<>> => m # <<>>
<1> DEFINE all == p \o s
           K == Staying(all)
           m == Pick(all, K)
           n == Cardinality(K)
<1>1. all \in Seq(TextType) /\ IsConcat(p, s, all)
  BY ConcatFacts
<1>2. /\ DOMAIN p = 1..Len(p) /\ DOMAIN s = 1..Len(s) /\ Len(p) \in Nat /\ Len(s) \in Nat
      /\ (p # <<>> => Len(p) # 0) /\ (s # <<>> => Len(s) # 0)
  OBVIOUS
<1> HIDE DEF all
<1>3. DOMAIN all = 1..Len(all) /\ Len(all) \in Nat /\ Len(all) = Len(p) + Len(s)
  BY <1>1 DEF IsConcat
<1>4. StayUpto(K, Len(all), all)
  BY <1>1, StayingFacts
<1> HIDE DEF K
<1>5. K \subseteq DOMAIN all
  BY <1>3, <1>4 DEF StayUpto
<1>6. m \in Seq(TextType) /\ Within(m, all) /\ (K # {} => m # <<>>)
  BY <1>1, <1>5, PickWithin
<1>7. n \in Nat /\ DOMAIN m = 1..n /\ \E at : Enumerates(at, K) /\ \A k \in 1..n : m[k] = all[at[k]]
  <2>1. n \in Nat /\ m \in Seq(TextType) /\ Len(m) = n
        /\ \E at : Enumerates(at, K) /\ \A k \in 1..n : m[k] = all[at[k]]
    BY <1>1, <1>5, PickFacts
  <2> HIDE DEF m, n
  <2> QED BY <2>1
<1>8. PICK at : Enumerates(at, K) /\ \A k \in 1..n : m[k] = all[at[k]]
  BY <1>7
<1> HIDE DEF m
<1>9. ASSUME NEW i \in DOMAIN all
      PROVE  (\E j \in DOMAIN p : all[i] = p[j]) \/ (\E j \in DOMAIN s : all[i] = s[j])
  <2>1. CASE i \in 1..Len(p)
    BY <1>1, <1>2, <2>1 DEF IsConcat
  <2>2. CASE i \notin 1..Len(p)
    <3>1. i \in Len(p) + 1..Len(p) + Len(s) /\ i - Len(p) \in 1..Len(s)
      BY <1>2, <1>3, <2>2
    <3> QED BY <1>1, <1>2, <3>1 DEF IsConcat
  <2> QED BY <2>1, <2>2
<1>10. ASSUME NEW i \in DOMAIN m
       PROVE  (\E j \in DOMAIN p : m[i] = p[j]) \/ (\E j \in DOMAIN s : m[i] = s[j])
  <2>1. PICK k \in DOMAIN all : m[i] = all[k]
    BY <1>6 DEF Within
  <2> QED BY <1>9, <2>1
<1>11. ASSUME NEW i \in DOMAIN m, NEW j \in DOMAIN m, i < j
       PROVE  Overlap(m[i], m[j]) < Dedup
  <2>1. at[i] \in K /\ at[j] \in K /\ at[i] < at[j]
    <3>1. at \in [1..n -> K] /\ \A k, l \in 1..n : k < l => at[k] < at[l]
      BY <1>8 DEF Enumerates
    <3> HIDE DEF n
    <3> QED BY <1>7, <1>11, <3>1
  <2>2. at[i] \in 1..at[j] - 1 /\ at[j] \in 1..Len(all)
    BY <1>3, <1>5, <2>1
  <2>3. ~ IsDuplicate(all[at[j]], all[at[i]])
    BY <1>4, <2>1, <2>2 DEF StayUpto
  <2>4. m[i] = all[at[i]] /\ m[j] = all[at[j]]
    BY <1>7, <1>8
  <2>5. m[i] \in TextType /\ m[j] \in TextType
    BY <1>6
  <2>6. Overlap(m[i], m[j]) \in Nat /\ Overlap(m[i], m[j]) = Overlap(m[j], m[i])
    BY <2>5, OverlapFacts
  <2>7. Dedup \in Nat
    <3>1. Dedup \in 0..100
      BY ConstantsAssumption, Zenon
    <3> QED BY <3>1
  <2>8. ~ (Overlap(m[j], m[i]) >= Dedup)
    BY <2>3, <2>4 DEF IsDuplicate
  <2> QED BY <2>6, <2>7, <2>8
<1>12. ASSUME p # <<>> \/ s # <<>> PROVE m # <<>>
  <2>1. 1 \in 1..Len(all) /\ 1..1 - 1 = {}
    BY <1>2, <1>3, <1>12
  <2>2. 1 \in K
    BY <1>4, <2>1 DEF StayUpto
  <2> QED BY <1>6, <2>2
<1>13. Merged(p, s) = m
  BY DEF Merged, m, K, all
<1> QED BY <1>6, <1>10, <1>11, <1>12, <1>13

\* In every state of the right types a search answers as it should.
LEMMA AnswersFacts ==
    ASSUME TypeOK, NEW query \in TextType, NEW limit \in Nat, limit # 0,
           NEW down \in SUBSET ToSet(layout), NEW r \in Answers(query, limit, down)
    PROVE  /\ r \in Seq(TextType) /\ Len(r) <= limit
           /\ \A i \in DOMAIN r : \E b \in ToSet(layout) \ down : r[i] \in ToSet(TextsIn(b))
           /\ \A i, j \in DOMAIN r : i < j /\ Len(layout) = 2 => Overlap(r[i], r[j]) < Dedup
           /\ r = <<>> => \A b \in ToSet(layout) \ (down \cup {"mem0"}) :
                             \A t \in ToSet(TextsIn(b)) : NamesOf(t) \cap NamesOf(query) = {}
<1>1. layout = <<"sqlite">> \/ layout = <<"mem0", "vector">>
  BY ConstantsAssumption, Zenon DEF TypeOK
<1>2. \A b \in Backends : TextsIn(b) \in Seq(TextType)
  <2> TAKE b \in Backends
  <2>1. stored[b] \in Seq(Entry)
    BY DEF TypeOK, Entry
  <2> QED BY <2>1, TextsOfFacts DEF TextsIn
<1> DEFINE found == [i \in DOMAIN layout |->
                        IF layout[i] \in down THEN {<<>>} ELSE Searches(layout[i], query, limit)]
<1>6. ASSUME NEW n \in DOMAIN layout, layout[n] \in Backends, NEW p \in found[n]
      PROVE  /\ p \in Seq(TextType) /\ Len(p) <= limit
             /\ \A i \in DOMAIN p : layout[n] \notin down /\ p[i] \in ToSet(TextsIn(layout[n]))
             /\ p = <<>> /\ layout[n] \notin down /\ layout[n] # "mem0" =>
                   \A t \in ToSet(TextsIn(layout[n])) : NamesOf(t) \cap NamesOf(query) = {}
  <2>1. CASE layout[n] \in down
    <3>1. p = <<>>
      BY <2>1
    <3> QED BY <2>1, <3>1
  <2>2. CASE layout[n] \notin down
    <3>1. p \in Searches(layout[n], query, limit)
      BY <2>2
    <3>2. query \in TextType /\ TextsIn(layout[n]) \in Seq(TextType)
      BY <1>2, <1>6
    <3> HIDE DEF found
    <3>3. /\ p \in Seq(TextType) /\ Len(p) <= limit /\ Within(p, TextsIn(layout[n]))
          /\ layout[n] # "mem0" /\ p = <<>> =>
                \A i \in DOMAIN TextsIn(layout[n]) : NamesOf(TextsIn(layout[n])[i]) \cap NamesOf(query) = {}
      BY <1>6, <3>1, <3>2, SearchesFacts
    <3> QED BY <2>2, <3>3 DEF Within, ToSet
  <2> QED BY <2>1, <2>2
<1> HIDE DEF found
<1>7. CASE layout = <<"sqlite">>
  <2>1. DOMAIN layout = {1} /\ layout[1] = "sqlite" /\ Len(layout) = 1 /\ ToSet(layout) = {"sqlite"}
    BY <1>7 DEF ToSet
  <2>2. r \in found[1]
    BY <2>1 DEF Answers, found
  <2>3. "sqlite" \in Backends /\ "sqlite" # "mem0"
    BY DEF Backends
  <2>4. /\ r \in Seq(TextType) /\ Len(r) <= limit
        /\ \A i \in DOMAIN r : "sqlite" \notin down /\ r[i] \in ToSet(TextsIn("sqlite"))
        /\ r = <<>> /\ "sqlite" \notin down =>
              \A t \in ToSet(TextsIn("sqlite")) : NamesOf(t) \cap NamesOf(query) = {}
    BY <1>6, <2>1, <2>2, <2>3
  <2> QED BY <2>1, <2>4
<1>8. CASE layout = <<"mem0", "vector">>
  <2>1. /\ DOMAIN layout = {1, 2} /\ layout[1] = "mem0" /\ layout[2] = "vector" /\ Len(layout) = 2
        /\ ToSet(layout) = {"mem0", "vector"}
    BY <1>8 DEF ToSet
  <2>2. PICK p \in found[1], s \in found[2] : r = FirstFew(Merged(p, s), limit)
    BY <2>1 DEF Answers, found
  <2>3. "mem0" \in Backends /\ "vector" \in Backends /\ "vector" # "mem0"
    BY DEF Backends
  <2>4. p \in Seq(TextType) /\ \A i \in DOMAIN p : "mem0" \notin down /\ p[i] \in ToSet(TextsIn("mem0"))
    BY <1>6, <2>1, <2>3
  <2>5. /\ s \in Seq(TextType)
        /\ \A i \in DOMAIN s : "vector" \notin down /\ s[i] \in ToSet(TextsIn("vector"))
        /\ s = <<>> /\ "vector" \notin down =>
              \A t \in ToSet(TextsIn("vector")) : NamesOf(t) \cap NamesOf(query) = {}
    BY <1>6, <2>1, <2>3
  <2> DEFINE m == Merged(p, s)
  <2>6. /\ m \in Seq(TextType)
        /\ \A i \in DOMAIN m : (\E j \in DOMAIN p : m[i] = p[j]) \/ (\E j \in DOMAIN s : m[i] = s[j])
        /\ \A i, j \in DOMAIN m : i < j => Overlap(m[i], m[j]) < Dedup
        /\ p # <<>> \/ s # <<>> => m # <<>>
    BY <2>4, <2>5, MergedFacts
  <2> HIDE DEF m
  <2>7. /\ r \in Seq(TextType) /\ Len(r) <= limit /\ DOMAIN r \subseteq DOMAIN m /\ (\A i \in DOMAIN r : r[i] = m[i])
        /\ (m # <<>> => r # <<>>)
    BY <2>2, <2>6, FirstFewFacts DEF m
  <2>8. \A i \in DOMAIN r : \E b \in ToSet(layout) \ down : r[i] \in ToSet(TextsIn(b))
    BY <2>1, <2>4, <2>5, <2>6, <2>7
  <2>9. \A i, j \in DOMAIN r : i < j => Overlap(r[i], r[j]) < Dedup
    BY <2>6, <2>7
  <2>10. ASSUME r = <<>>, "vector" \notin down
         PROVE  \A t \in ToSet(TextsIn("vector")) : NamesOf(t) \cap NamesOf(query) = {}
    BY <2>5, <2>6, <2>7, <2>10
  <2> QED BY <2>1, <2>7, <2>8, <2>9, <2>10
<1> QED BY <1>1, <1>7, <1>8

\* So SearchAnswers follows from the types.
LEMMA SearchAnswersFacts ==
    ASSUME TypeOK
    PROVE  SearchAnswers
<1>1. Texts \subseteq TextType
  BY ConstantsAssumption, Zenon
<1>2. Limit \in Nat /\ Limit # 0
  <2>1. Limit \in Nat \ {0}
    BY ConstantsAssumption, Zenon
  <2> QED BY <2>1
<1>3. ASSUME NEW query \in Texts, NEW down \in SUBSET ToSet(layout), NEW r \in Answers(query, Limit, down)
      PROVE  /\ Len(r) <= Limit
             /\ \A i \in DOMAIN r : \E b \in ToSet(layout) \ down : r[i] \in ToSet(TextsIn(b))
             /\ \A i, j \in DOMAIN r : i < j /\ Len(layout) = 2 => Overlap(r[i], r[j]) < Dedup
             /\ r = <<>> => \A b \in ToSet(layout) \ (down \cup {"mem0"}) :
                               \A t \in ToSet(TextsIn(b)) : NamesOf(t) \cap NamesOf(query) = {}
  <2>1. query \in TextType
    BY <1>1
  <2> QED BY <1>2, <2>1, AnswersFacts
<1> QED BY <1>3 DEF SearchAnswers

----------------------------------------------------------------------------
(* Merges, additions and removals.                                          *)

\* A merge has no words but those of the two texts; and all of them, unless the
\* texts are nearly the same.
LEMMA MergeFacts ==
    ASSUME NEW s \in TextType, NEW t \in TextType
    PROVE  /\ Merge(s, t) \in TextType
           /\ NamesOf(Merge(s, t)) \subseteq NamesOf(s) \cup NamesOf(t)
           /\ ~NearlySame(s, t) => Covers(Merge(s, t), s) /\ Covers(Merge(s, t), t)
<1>1. CASE NearlySame(s, t)
  BY <1>1 DEF Merge
<1>2. CASE ~NearlySame(s, t)
  <2> DEFINE WordType == [name : Names, semi : BOOLEAN]
             ended == [i \in DOMAIN s |-> [name |-> s[i].name, semi |-> s[i].semi \/ i = Len(s)]]
             m == ended \o t
  <2>1. Merge(s, t) = m
    BY <1>2, Zenon DEF Merge
  <2>2. /\ s \in Seq(WordType) /\ t \in Seq(WordType)
        /\ DOMAIN s = 1..Len(s) /\ Len(s) \in Nat /\ DOMAIN t = 1..Len(t) /\ Len(t) \in Nat
    BY DEF TextType
  <2>3. \A i \in DOMAIN s : ended[i] \in WordType /\ ended[i].name = s[i].name
    <3> TAKE i \in DOMAIN s
    <3>1. s[i] \in WordType
      <4> HIDE DEF WordType, ended
      <4> QED BY <2>2
    <3>2. PICK e \in BOOLEAN : e = (s[i].semi \/ i = Len(s))
      BY Zenon
    <3>3. ended[i] = [name |-> s[i].name, semi |-> e]
      BY <3>2, Zenon
    <3> HIDE DEF ended
    <3> QED BY <3>1, <3>3
  <2>4. DOMAIN ended = 1..Len(s)
    BY <2>2
  <2>5. ended = [i \in 1..Len(s) |-> ended[i]]
    BY <2>2
  <2> HIDE DEF ended, WordType
  <2>6. ended \in Seq(WordType) /\ Len(ended) = Len(s)
    BY <2>2, <2>3, <2>4, <2>5
  <2>7. m \in Seq(WordType) /\ IsConcat(ended, t, m)
    BY <2>2, <2>6, ConcatFacts
  <2> HIDE DEF m
  <2>8. DOMAIN m = 1..Len(s) + Len(t)
    <3>1. DOMAIN m = 1..Len(m)
      BY <2>7
    <3> QED BY <2>6, <2>7, <3>1 DEF IsConcat
  <2>9. \A i \in DOMAIN s : i \in DOMAIN m /\ m[i].name = s[i].name
    BY <2>2, <2>3, <2>6, <2>7, <2>8 DEF IsConcat
  <2>10. \A i \in DOMAIN t : Len(s) + i \in DOMAIN m /\ m[Len(s) + i].name = t[i].name
    <3> TAKE i \in DOMAIN t
    <3>1. m[Len(ended) + i] = t[i]
      BY <2>2, <2>7 DEF IsConcat
    <3>2. Len(s) + i \in DOMAIN m
      BY <2>2, <2>8
    <3> QED BY <2>6, <3>1, <3>2
  <2>11. ASSUME NEW k \in DOMAIN m
         PROVE  m[k].name \in NamesOf(s) \cup NamesOf(t)
    <3>1. CASE k \in 1..Len(s)
      BY <2>2, <2>9, <3>1 DEF NamesOf
    <3>2. CASE k \notin 1..Len(s)
      <4>1. k - Len(s) \in DOMAIN t /\ Len(s) + (k - Len(s)) = k
        BY <2>2, <2>8, <3>2
      <4> QED BY <2>10, <4>1 DEF NamesOf
    <3> QED BY <3>1, <3>2
  <2>12. NamesOf(m) \subseteq NamesOf(s) \cup NamesOf(t)
    BY <2>11 DEF NamesOf
  <2>13. Covers(m, s) /\ Covers(m, t)
    BY <2>9, <2>10 DEF Covers, NamesOf
  <2>14. m \in TextType
    BY <2>7 DEF TextType, WordType
  <2> QED BY <2>1, <2>12, <2>13, <2>14
<1> QED BY <1>1, <1>2

\* No entry stands twice in a list.
NoneTwice(s) == \A i, j \in DOMAIN s : s[i] = s[j] => i = j

\* A list picked from one without an entry twice has none twice.
LEMMA PickNoneTwice ==
    ASSUME NEW S, NEW s \in Seq(S), NEW I, I \subseteq DOMAIN s, NoneTwice(s)
    PROVE  NoneTwice(Pick(s, I))
<1> DEFINE n == Cardinality(I)
           p == Pick(s, I)
<1>1. n \in Nat /\ p \in Seq(S) /\ Len(p) = n
      /\ \E at : Enumerates(at, I) /\ \A k \in 1..n : p[k] = s[at[k]]
  BY PickFacts
<1>2. PICK at : Enumerates(at, I) /\ \A k \in 1..n : p[k] = s[at[k]]
  BY <1>1
<1>3. at \in [1..n -> I] /\ \A k, l \in 1..n : k < l => at[k] < at[l]
  BY <1>2 DEF Enumerates
<1> HIDE DEF n, p
<1>4. DOMAIN p = 1..n
  BY <1>1
<1>5. ASSUME NEW k \in 1..n, NEW l \in 1..n, p[k] = p[l]
      PROVE  k = l
  <2>1. at[k] \in DOMAIN s /\ at[l] \in DOMAIN s /\ s[at[k]] = s[at[l]]
    BY <1>2, <1>3, <1>5
  <2>2. at[k] = at[l]
    BY <2>1 DEF NoneTwice
  <2>3. at[k] \in Nat /\ at[l] \in Nat
    BY <2>1
  <2> QED BY <1>1, <1>3, <2>2, <2>3
<1> QED BY <1>4, <1>5 DEF NoneTwice, p

\* The sequence p has the elements of s at the places I.
HasPlaces(p, s, I) == \A i \in I : \E k \in DOMAIN p : p[k] = s[i]

\* A list picked from another one has the elements at the places picked.
LEMMA PickHas ==
    ASSUME NEW S, NEW s \in Seq(S), NEW I, I \subseteq DOMAIN s
    PROVE  /\ Pick(s, I) \in Seq(S)
           /\ HasPlaces(Pick(s, I), s, I)
<1> DEFINE n == Cardinality(I)
           p == Pick(s, I)
<1>1. n \in Nat /\ p \in Seq(S) /\ Len(p) = n
      /\ \E at : Enumerates(at, I) /\ \A k \in 1..n : p[k] = s[at[k]]
  BY PickFacts
<1>2. PICK at : Enumerates(at, I) /\ \A k \in 1..n : p[k] = s[at[k]]
  BY <1>1
<1>3. \A i \in I : \E k \in 1..n : at[k] = i
  BY <1>2 DEF Enumerates
<1> HIDE DEF n, p
<1>4. DOMAIN p = 1..n
  BY <1>1
<1> QED BY <1>1, <1>2, <1>3, <1>4 DEF p, HasPlaces

\* An entry of User.
Mine(t) == [user |-> User, text |-> t]

\* A text that is added is there, with all that was there before it.
LEMMA AddedFacts ==
    ASSUME NEW b, stored[b] \in Seq(Entry), NEW t \in TextType
    PROVE  LET s == Added(b, t)
           IN  /\ s \in Seq(Entry) /\ Within(stored[b], s)
               /\ \E k \in DOMAIN s : s[k] = Mine(t)
               /\ \A k \in DOMAIN s : s[k] = Mine(t) \/ \E j \in DOMAIN stored[b] : s[k] = stored[b][j]
               /\ b = "sqlite" /\ NoneTwice(stored[b]) => NoneTwice(s)
<1> DEFINE e == Mine(t)
           I == {i \in DOMAIN stored[b] : b = "sqlite" => stored[b][i] # e}
           p == Pick(stored[b], I)
           s == Append(p, e)
<1>1. Added(b, t) = s
  BY DEF Added, Mine
<1>2. e \in Entry
  BY DEF Mine, Entry
<1>3. I \subseteq DOMAIN stored[b]
  OBVIOUS
<1>4. \A i \in DOMAIN stored[b] : i \notin I => stored[b][i] = e
  OBVIOUS
<1>5. b = "sqlite" => \A i \in I : stored[b][i] # e
  OBVIOUS
<1> HIDE DEF I, e
<1>6. p \in Seq(Entry) /\ (NoneTwice(stored[b]) => NoneTwice(p))
      /\ \E at : Enumerates(at, I) /\ \A k \in 1..Cardinality(I) : p[k] = stored[b][at[k]]
  BY <1>3, PickFacts, PickNoneTwice
<1>7. \A i \in I : \E k \in DOMAIN p : p[k] = stored[b][i]
  <2>1. HasPlaces(p, stored[b], I)
    BY <1>3, PickHas
  <2> QED BY <2>1 DEF HasPlaces
<1>8. \A k \in DOMAIN p : \E i \in I : p[k] = stored[b][i]
  <2>1. PICK at : Enumerates(at, I) /\ \A k \in 1..Cardinality(I) : p[k] = stored[b][at[k]]
    BY <1>6
  <2>2. DOMAIN p = 1..Cardinality(I)
    BY <1>3, PickFacts
  <2> HIDE DEF p
  <2> QED BY <2>1, <2>2 DEF Enumerates
<1> HIDE DEF p
<1>9. /\ s \in Seq(Entry) /\ DOMAIN p = 1..Len(p) /\ Len(p) \in Nat /\ DOMAIN s = 1..Len(p) + 1
      /\ (\A k \in DOMAIN p : s[k] = p[k]) /\ s[Len(p) + 1] = e
  BY <1>2, <1>6
<1> HIDE DEF s
<1>10. Within(stored[b], s)
  <2>1. ASSUME NEW j \in DOMAIN stored[b] PROVE \E k \in DOMAIN s : stored[b][j] = s[k]
    <3>1. CASE j \in I
      <4>1. PICK k \in DOMAIN p : p[k] = stored[b][j]
        BY <1>7, <3>1
      <4> QED BY <1>9, <4>1
    <3>2. CASE j \notin I
      <4>1. stored[b][j] = e /\ Len(p) + 1 \in DOMAIN s
        BY <1>4, <1>9, <3>2
      <4> QED BY <1>9, <4>1
    <3> QED BY <3>1, <3>2
  <2> QED BY <2>1 DEF Within
<1>11. \A k \in DOMAIN s : s[k] = e \/ \E j \in DOMAIN stored[b] : s[k] = stored[b][j]
  BY <1>3, <1>8, <1>9
<1>12. ASSUME b = "sqlite", NoneTwice(stored[b]) PROVE NoneTwice(s)
  <2>1. NoneTwice(p) /\ \A k \in DOMAIN p : p[k] # e
    BY <1>5, <1>6, <1>8, <1>12
  <2>2. ASSUME NEW k \in DOMAIN s, NEW l \in DOMAIN s, s[k] = s[l]
        PROVE  k = l
    <3>1. (k \in DOMAIN p \/ k = Len(p) + 1) /\ (l \in DOMAIN p \/ l = Len(p) + 1)
      BY <1>9
    <3>2. CASE k \in DOMAIN p /\ l \in DOMAIN p
      BY <1>9, <2>1, <2>2, <3>2 DEF NoneTwice
    <3> QED BY <1>9, <2>1, <2>2, <3>1, <3>2
  <2> QED BY <2>2 DEF NoneTwice
<1>13. Len(p) + 1 \in DOMAIN s
  BY <1>9
<1> QED BY <1>1, <1>9, <1>10, <1>11, <1>12, <1>13 DEF e

\* A text that is removed takes no other entry with it, and Mem0 loses none.
LEMMA RemovedFacts ==
    ASSUME NEW b, stored[b] \in Seq(Entry), NEW t
    PROVE  LET s == Removed(b, t)
           IN  /\ s \in Seq(Entry) /\ Within(s, stored[b])
               /\ \A j \in DOMAIN stored[b] : b = "mem0" \/ stored[b][j] # Mine(t) =>
                     \E k \in DOMAIN s : s[k] = stored[b][j]
               /\ NoneTwice(stored[b]) => NoneTwice(s)
<1> DEFINE e == Mine(t)
           I == {i \in DOMAIN stored[b] :
                    b = "mem0" \/ stored[b][i] # e \/ \E j \in 1..i - 1 : stored[b][j] = e}
<1>1. Removed(b, t) = Pick(stored[b], I)
  BY DEF Removed, Mine
<1>2. I \subseteq DOMAIN stored[b] /\ \A j \in DOMAIN stored[b] : b = "mem0" \/ stored[b][j] # e => j \in I
  OBVIOUS
<1> HIDE DEF I, e
<1>3. Pick(stored[b], I) \in Seq(Entry) /\ Within(Pick(stored[b], I), stored[b])
  BY <1>2, PickWithin
<1>4. NoneTwice(stored[b]) => NoneTwice(Pick(stored[b], I))
  BY <1>2, PickNoneTwice
<1>5. HasPlaces(Pick(stored[b], I), stored[b], I)
  BY <1>2, PickHas
<1>6. \A i \in I : \E k \in DOMAIN Pick(stored[b], I) : Pick(stored[b], I)[k] = stored[b][i]
  BY <1>5 DEF HasPlaces
<1> QED BY <1>1, <1>2, <1>3, <1>4, <1>6 DEF e

----------------------------------------------------------------------------
(* The inductive invariant.                                                 *)

\* What is stored: no text twice in the SQLite backend, nothing sensitive, and
\* the memory of the other user.
StoreOK(st) ==
    /\ st \in [Backends -> Seq(Entry)]
    /\ NoneTwice(st["sqlite"])
    /\ \A b \in Backends : \A i \in DOMAIN st[b] : ~IsSensitive(st[b][i].text)
    /\ \A b \in {"sqlite", "mem0"} : \E i \in DOMAIN st[b] : st[b][i].user = Other

CallerType ==
    [stage : {"idle", "find", "remove", "store"}, text : TextType,
     strategy : {"skip", "replace", "merge"}, conflict : TextType \cup {Nobody}, what : TextType,
     at : 1..2, wrote : BOOLEAN, queue : Seq(TextType)]

\* What a caller is about to write has the words of its text, and of the memory
\* that it merges it with, unless it keeps the longer of the two.
HasAllWords(k) ==
    \/ KeepsLonger(k)
    \/ Covers(k.what, k.text) /\ (k.strategy = "merge" /\ k.conflict # Nobody => Covers(k.what, k.conflict))

\* A caller of the backends lay, while Mem0 has the entries mem.
CallerOK(k, lay, mem) ==
    /\ k.at \in 1..Len(lay)
    /\ k.stage # "idle" => ~IsSensitive(k.text) /\ ~IsSensitive(k.what) /\ HasAllWords(k)
    /\ k.stage = "find" => k.conflict = Nobody
    /\ k.stage = "remove" => k.conflict \in TextType /\ k.strategy \in {"replace", "merge"}
    /\ k.wrote => k.stage = "store" /\ k.at = 2 /\ \E i \in DOMAIN mem : mem[i] = Mine(k.what)

CallersOK ==
    /\ caller \in [Callers -> CallerType]
    /\ \A c \in Callers : CallerOK(caller[c], layout, stored["mem0"])

\* Among some entries is one of User that covers the text u.
HasText(entries, u) == \E i \in DOMAIN entries : entries[i].user = User /\ Covers(entries[i].text, u)

\* Every text owed is in a backend in use, or in the write of a caller.
OwedKept ==
    \A u \in owed :
        \/ \E b \in ToSet(layout) : HasText(stored[b], u)
        \/ \E c \in Callers : caller[c].stage = "store" /\ Covers(caller[c].what, u)

IInv ==
    /\ layout \in Layouts
    /\ StoreOK(stored)
    /\ CallersOK
    /\ owed \subseteq TextType
    /\ adds \in 0..MaxAdds
    /\ OwedKept

----------------------------------------------------------------------------
(* What the invariant gives.                                                *)

\* The backends in use.
LEMMA LayoutFacts ==
    ASSUME NEW lay \in Layouts
    PROVE  /\ lay = <<"sqlite">> \/ lay = <<"mem0", "vector">>
           /\ Len(lay) \in 1..2 /\ 1 \in 1..Len(lay) /\ ToSet(lay) \subseteq Backends
           /\ \A n \in 1..Len(lay) : lay[n] \in ToSet(lay)
           /\ \A n \in 1..Len(lay) : n < Len(lay) => lay[n] = "mem0" /\ n = 1 /\ Len(lay) = 2
<1>1. lay = <<"sqlite">> \/ lay = <<"mem0", "vector">>
  BY ConstantsAssumption, Zenon
<1>2. CASE lay = <<"sqlite">>
  BY <1>2 DEF ToSet, Backends
<1>3. CASE lay = <<"mem0", "vector">>
  BY <1>3 DEF ToSet, Backends
<1> QED BY <1>1, <1>2, <1>3

\* Held in terms of the entries.
LEMMA HeldFacts ==
    ASSUME layout \in Layouts, stored \in [Backends -> Seq(Entry)], NEW u, NEW bs
    PROVE  Held(u, bs) <=> \E b \in bs \cap ToSet(layout) : HasText(stored[b], u)
<1>1. ASSUME NEW b \in ToSet(layout)
      PROVE  (\E i \in DOMAIN TextsIn(b) : Covers(TextsIn(b)[i], u)) <=> HasText(stored[b], u)
  <2>1. stored[b] \in Seq(Entry)
    BY LayoutFacts
  <2> DEFINE ts == TextsOf(stored[b])
  <2>2. /\ \A i \in DOMAIN ts : \E j \in DOMAIN stored[b] : stored[b][j].user = User /\ stored[b][j].text = ts[i]
        /\ \A j \in DOMAIN stored[b] : stored[b][j].user = User => \E i \in DOMAIN ts : ts[i] = stored[b][j].text
    BY <2>1, TextsOfFacts
  <2>3. TextsIn(b) = ts
    BY DEF TextsIn
  <2> HIDE DEF ts
  <2> QED BY <2>2, <2>3 DEF HasText
<1> QED BY <1>1 DEF Held

\* What the runs check follows from the invariant.
LEMMA InvariantGives ==
    ASSUME IInv
    PROVE  TypeOK /\ NoSecrets /\ Retained
<1>1. TypeOK
  BY DEF IInv, StoreOK, NoneTwice, CallersOK, CallerType, Entry, TypeOK
<1>2. NoSecrets
  BY DEF IInv, StoreOK, NoSecrets
<1>3. Retained
  <2>1. \A b \in {"sqlite", "mem0"} : \E i \in DOMAIN stored[b] : stored[b][i].user = Other
    BY DEF IInv, StoreOK
  <2>2. ASSUME NEW u \in owed
        PROVE  Held(u, Backends) \/ \E c \in Callers : caller[c].stage = "store" /\ Covers(caller[c].what, u)
    <3>1. ASSUME NEW b \in ToSet(layout), HasText(stored[b], u)
          PROVE  Held(u, Backends)
      <4>1. layout \in Layouts /\ stored \in [Backends -> Seq(Entry)]
        BY DEF IInv, StoreOK
      <4>2. b \in Backends \cap ToSet(layout)
        BY <4>1, LayoutFacts
      <4> QED BY <3>1, <4>1, <4>2, HeldFacts
    <3> QED BY <3>1 DEF IInv, OwedKept
  <2> QED BY <2>1, <2>2 DEF Retained
<1> QED BY <1>1, <1>2, <1>3

----------------------------------------------------------------------------
(* What a step may do to each part.                                         *)

\* A backend's entries may be replaced by others that are as good.
LEMMA StoreStep ==
    ASSUME NEW st, StoreOK(st), NEW b \in Backends, NEW s \in Seq(Entry),
           NoneTwice(st[b]) => NoneTwice(s) \/ b # "sqlite",
           \A k \in DOMAIN s : ~IsSensitive(s[k].text),
           \A j \in DOMAIN st[b] : st[b][j].user = Other => \E k \in DOMAIN s : s[k] = st[b][j]
    PROVE  StoreOK([st EXCEPT ![b] = s])
<1> DEFINE new == [st EXCEPT ![b] = s]
<1>1. new \in [Backends -> Seq(Entry)] /\ new[b] = s /\ \A x \in Backends : x # b => new[x] = st[x]
  BY DEF StoreOK
<1>2. "sqlite" \in Backends /\ "mem0" \in Backends
  BY DEF Backends
<1> HIDE DEF new
<1>3. NoneTwice(new["sqlite"])
  BY <1>1, <1>2 DEF StoreOK
<1>4. \A x \in Backends : \A i \in DOMAIN new[x] : ~IsSensitive(new[x][i].text)
  BY <1>1 DEF StoreOK
<1>5. ASSUME NEW x \in {"sqlite", "mem0"}
      PROVE  \E i \in DOMAIN new[x] : new[x][i].user = Other
  <2>1. PICK i \in DOMAIN st[x] : st[x][i].user = Other
    BY DEF StoreOK
  <2> QED BY <1>1, <1>2, <2>1
<1> QED BY <1>1, <1>3, <1>4, <1>5 DEF StoreOK, new

\* A caller remains in order when Mem0 gets more entries.
LEMMA CallerKeeps ==
    ASSUME NEW k, NEW lay, NEW mem, NEW new, CallerOK(k, lay, mem), Within(mem, new)
    PROVE  CallerOK(k, lay, new)
BY DEF CallerOK, Within

\* One caller takes a step, and Mem0 loses nothing.
LEMMA CallerStep ==
    ASSUME CallersOK, NEW c \in Callers, NEW k \in CallerType, caller' = [caller EXCEPT ![c] = k],
           layout' = layout, Within(stored["mem0"], stored["mem0"]'), CallerOK(k, layout, stored["mem0"]')
    PROVE  CallersOK'
<1>1. caller' \in [Callers -> CallerType] /\ caller'[c] = k /\ \A d \in Callers : d # c => caller'[d] = caller[d]
  BY DEF CallersOK
<1>2. ASSUME NEW d \in Callers PROVE CallerOK(caller'[d], layout', stored["mem0"]')
  <2>1. CASE d = c
    BY <1>1, <2>1
  <2>2. CASE d # c
    <3>1. CallerOK(caller[d], layout, stored["mem0"])
      BY DEF CallersOK
    <3>2. CallerOK(caller[d], layout, stored["mem0"]')
      BY <3>1, CallerKeeps
    <3> QED BY <1>1, <2>2, <3>2
  <2> QED BY <2>1, <2>2
<1> QED BY <1>1, <1>2 DEF CallersOK

\* A caller that is idle is in order.
LEMMA IdleFacts ==
    ASSUME NEW queue \in Seq(TextType), NEW lay \in Layouts, NEW mem
    PROVE  Idle(queue) \in CallerType /\ CallerOK(Idle(queue), lay, mem)
<1>1. <<>> \in TextType
  BY DEF TextType
<1>2. Idle(queue) \in CallerType
  BY <1>1 DEF Idle, CallerType
<1>3. 1 \in 1..Len(lay)
  BY LayoutFacts, Zenon
<1>4. Idle(queue).stage = "idle" /\ Idle(queue).at = 1 /\ Idle(queue).wrote = FALSE
  BY DEF Idle
<1> QED BY <1>2, <1>3, <1>4 DEF CallerOK

\* The texts owed are kept when a caller that writes nothing takes a step.
LEMMA OwedSame ==
    ASSUME OwedKept, CallersOK, NEW c \in Callers, NEW k, caller' = [caller EXCEPT ![c] = k],
           caller[c].stage # "store", UNCHANGED <<layout, stored, owed>>
    PROVE  OwedKept'
<1>1. \A d \in Callers : caller[d].stage = "store" => caller'[d] = caller[d]
  BY DEF CallersOK
<1>2. ASSUME NEW u \in owed'
      PROVE  \/ \E b \in ToSet(layout') : HasText(stored'[b], u)
             \/ \E d \in Callers : caller'[d].stage = "store" /\ Covers(caller'[d].what, u)
  <2>1. u \in owed /\ layout' = layout /\ stored' = stored
    OBVIOUS
  <2>2. CASE \E b \in ToSet(layout) : HasText(stored[b], u)
    BY <2>1, <2>2
  <2>3. CASE \E d \in Callers : caller[d].stage = "store" /\ Covers(caller[d].what, u)
    BY <1>1, <2>3
  <2> QED BY <2>1, <2>2, <2>3 DEF OwedKept
<1> QED BY <1>2 DEF OwedKept

\* Begin leaves a caller in order, with a text that is not sensitive.
LEMMA BeginFacts ==
    ASSUME NEW c \in Callers, NEW t \in TextType, NEW strategy \in {"skip", "replace", "merge"}, NEW force \in BOOLEAN,
           NEW queue \in Seq(TextType), Begin(c, t, strategy, force, queue), layout \in Layouts, NEW mem
    PROVE  \E k \in CallerType : caller' = [caller EXCEPT ![c] = k] /\ CallerOK(k, layout, mem)
<1>2. CASE IsSensitive(t)
  <2>1. caller' = [caller EXCEPT ![c] = Idle(queue)]
    BY <1>2 DEF Begin
  <2> QED BY <2>1, IdleFacts
<1>3. CASE ~IsSensitive(t)
  <2>1. PICK stage \in {"store", "find"} : stage = IF force THEN "store" ELSE "find"
    BY Zenon
  <2> DEFINE k == [stage |-> stage, text |-> t, strategy |-> strategy, conflict |-> Nobody, what |-> t,
                   at |-> 1, wrote |-> FALSE, queue |-> queue]
             k1 == [Idle(queue) EXCEPT !.stage = IF force THEN "store" ELSE "find", !.text = t,
                                       !.strategy = strategy, !.what = t]
  <2>2. k1 = [Idle(queue) EXCEPT !.stage = stage, !.text = t, !.strategy = strategy, !.what = t]
    BY <2>1, Zenon
  <2>3. k1 = k
    <3> HIDE DEF k1
    <3> QED BY <2>2 DEF Idle
  <2>4. caller' = [caller EXCEPT ![c] = k1]
    BY <1>3, Zenon DEF Begin
  <2> HIDE DEF k1
  <2>5. caller' = [caller EXCEPT ![c] = k]
    BY <2>3, <2>4
  <2>6. k \in CallerType
    BY DEF CallerType
  <2>7. /\ k.stage \in {"store", "find"} /\ k.text = t /\ k.what = t /\ k.conflict = Nobody
        /\ k.at = 1 /\ k.wrote = FALSE
    OBVIOUS
  <2> HIDE DEF k
  <2>8. HasAllWords(k)
    BY <2>7 DEF HasAllWords, Covers
  <2>9. 1 \in 1..Len(layout)
    BY LayoutFacts, Zenon
  <2>10. CallerOK(k, layout, mem)
    BY <1>3, <2>7, <2>8, <2>9 DEF CallerOK
  <2> QED BY <2>5, <2>6, <2>10
<1> QED BY <1>2, <1>3

----------------------------------------------------------------------------
(* The invariant holds.                                                     *)

\* It holds at the start.
LEMMA InitInv ==
    ASSUME Init
    PROVE  IInv
<1>1. PICK known \in {<<>>} \cup {<<[user |-> User, text |-> t]>> : t \in {u \in Texts : ~IsSensitive(u)}} :
          /\ stored = [b \in Backends |-> <<[user |-> Other, text |-> Foreign]>> \o known]
          /\ owed = {known[i].text : i \in DOMAIN known}
  BY DEF Init
<1>2. layout \in Layouts /\ caller = [c \in Callers |-> Idle(<<>>)] /\ adds = 0
  BY DEF Init
<1>3. Foreign \in TextType /\ Texts \subseteq TextType /\ (\A i \in DOMAIN Foreign : Foreign[i].name # Secret)
      /\ User # Other
  BY ConstantsAssumption, Zenon
<1> DEFINE theirs == [user |-> Other, text |-> Foreign]
           s == <<theirs>> \o known
<1>4. theirs \in Entry /\ theirs.user = Other /\ ~IsSensitive(theirs.text)
  BY <1>3 DEF Entry, IsSensitive, NamesOf
<1>5. /\ s \in Seq(Entry) /\ NoneTwice(s) /\ (\A i \in DOMAIN s : ~IsSensitive(s[i].text))
      /\ (\E i \in DOMAIN s : s[i].user = Other)
      /\ \A u \in owed : u \in TextType /\ HasText(s, u)
  <2>1. CASE known = <<>>
    <3>1. s = <<theirs>> /\ owed = {}
      <4> HIDE DEF theirs
      <4> QED BY <1>1, <1>4, <2>1
    <3> HIDE DEF theirs, s
    <3>2. DOMAIN s = {1} /\ s[1] = theirs /\ s \in Seq(Entry)
      BY <1>4, <3>1
    <3> QED BY <1>4, <3>1, <3>2 DEF NoneTwice
  <2>2. CASE known # <<>>
    <3>1. PICK t \in Texts : ~IsSensitive(t) /\ known = <<Mine(t)>>
      BY <1>1, <2>2 DEF Mine
    <3>2. Mine(t) \in Entry /\ Mine(t).user = User /\ Mine(t).text = t /\ t \in TextType
      BY <1>3, <3>1 DEF Mine, Entry
    <3> HIDE DEF theirs
    <3>3. <<theirs>> \in Seq(Entry) /\ known \in Seq(Entry) /\ Len(<<theirs>>) = 1 /\ Len(known) = 1
          /\ <<theirs>>[1] = theirs /\ known[1] = Mine(t) /\ owed = {known[1].text}
      BY <1>1, <1>4, <3>1, <3>2
    <3>4. owed = {t}
      BY <3>2, <3>3
    <3>5. DOMAIN s = {1, 2} /\ s[1] = theirs /\ s[2] = Mine(t) /\ s \in Seq(Entry)
      <4>1. s \in Seq(Entry) /\ IsConcat(<<theirs>>, known, s)
        BY <3>3, ConcatFacts
      <4> HIDE DEF s
      <4>2. Len(s) = 2 /\ s[1] = theirs /\ s[2] = Mine(t)
        BY <3>3, <4>1 DEF IsConcat
      <4> QED BY <4>1, <4>2
    <3> HIDE DEF s
    <3>6. NoneTwice(s)
      BY <1>3, <1>4, <3>2, <3>5 DEF NoneTwice
    <3>7. HasText(s, t)
      BY <3>2, <3>5 DEF HasText, Covers
    <3> QED BY <1>4, <3>1, <3>2, <3>4, <3>5, <3>6, <3>7
  <2> QED BY <2>1, <2>2
<1>6. stored = [b \in Backends |-> s]
  BY <1>1
<1> HIDE DEF s
<1>7. "sqlite" \in Backends /\ "mem0" \in Backends
  BY DEF Backends
<1>8. StoreOK(stored)
  BY <1>5, <1>6, <1>7 DEF StoreOK
<1>9. <<>> \in Seq(TextType)
  OBVIOUS
<1>10. CallersOK
  <2>1. \A c \in Callers : caller[c] = Idle(<<>>)
    BY <1>2
  <2> QED BY <1>2, <1>9, <2>1, IdleFacts DEF CallersOK
<1>11. OwedKept
  <2>1. 1 \in 1..Len(layout)
    BY <1>2, LayoutFacts, Zenon
  <2>2. layout[1] \in ToSet(layout) /\ ToSet(layout) \subseteq Backends
    BY <1>2, <2>1, LayoutFacts, Zenon
  <2>3. stored[layout[1]] = s
    BY <1>6, <2>2
  <2> QED BY <1>5, <2>2, <2>3 DEF OwedKept
<1>12. adds \in 0..MaxAdds
  <2>1. MaxAdds \in Nat
    BY ConstantsAssumption, Zenon
  <2> QED BY <1>2, <2>1
<1> QED BY <1>2, <1>5, <1>8, <1>10, <1>11, <1>12 DEF IInv

\* It holds after whatever leads to Begin.
LEMMA BeginInv ==
    ASSUME IInv, NEW c \in Callers, caller[c].stage = "idle",
           NEW t \in TextType, NEW strategy \in {"skip", "replace", "merge"}, NEW force \in BOOLEAN,
           NEW queue \in Seq(TextType), Begin(c, t, strategy, force, queue),
           UNCHANGED <<layout, stored, owed>>, adds' \in 0..MaxAdds
    PROVE  IInv'
<1>1. layout \in Layouts /\ StoreOK(stored) /\ CallersOK /\ OwedKept
  BY DEF IInv
<1>2. PICK k \in CallerType : caller' = [caller EXCEPT ![c] = k] /\ CallerOK(k, layout, stored["mem0"])
  <2>1. PICK mem : mem = stored["mem0"]
    OBVIOUS
  <2>2. \E k \in CallerType : caller' = [caller EXCEPT ![c] = k] /\ CallerOK(k, layout, mem)
    BY ZenonT(40), <1>1, BeginFacts
  <2> QED BY <2>1, <2>2
<1>3. CallersOK'
  <2>1. Within(stored["mem0"], stored["mem0"]') /\ CallerOK(k, layout, stored["mem0"]')
    BY <1>2 DEF Within
  <2> QED BY <1>1, <1>2, <2>1, CallerStep
<1>4. OwedKept'
  <2>1. caller[c].stage # "store"
    OBVIOUS
  <2> QED BY <1>1, <1>2, <2>1, OwedSame
<1> QED BY <1>1, <1>3, <1>4 DEF IInv

\* What is extracted from a task is a list of texts.
LEMMA ExtractedFacts ==
    ASSUME NEW task \in Tasks, NEW fragments \in Extracted(task) \ {<<>>}
    PROVE  Head(fragments) \in TextType /\ Tail(fragments) \in Seq(TextType)
<1>1. Texts \subseteq TextType /\ task \in Seq([text : Texts, keyword : BOOLEAN])
  BY ConstantsAssumption, Zenon
<1> DEFINE texts == [i \in DOMAIN task |-> task[i].text]
           I == {i \in DOMAIN task : task[i].keyword /\ ~IsSensitive(task[i].text)}
<1>2. Fragments(task) \in Seq(TextType)
  <2>1. DOMAIN task = 1..Len(task) /\ Len(task) \in Nat /\ \A i \in DOMAIN task : task[i].text \in TextType
    <3> HIDE DEF texts, I
    <3> DEFINE Sentence == [text : Texts, keyword : BOOLEAN]
    <3>1. \A e \in Sentence : e.text \in TextType
      BY <1>1
    <3>2. task \in Seq(Sentence)
      BY <1>1
    <3> HIDE DEF Sentence
    <3> QED BY <3>1, <3>2
  <2>2. texts \in Seq(TextType) /\ DOMAIN texts = DOMAIN task
    <3>1. texts \in [1..Len(task) -> TextType]
      BY <2>1
    <3> QED BY <2>1, <3>1
  <2>3. I \subseteq DOMAIN task
    OBVIOUS
  <2>4. Fragments(task) = Pick(texts, I)
    BY DEF Fragments
  <2> HIDE DEF texts, I
  <2> QED BY <2>2, <2>3, <2>4, PickWithin
<1>3. fragments \in Seq(TextType) /\ fragments # <<>>
  <2>1. CASE fragments = Fragments(task)
    BY <1>2, <2>1
  <2>2. CASE \E t \in Texts : fragments = <<t>>
    <3>1. PICK t \in Texts : fragments = <<t>>
      BY <2>2
    <3>2. <<t>> \in Seq(TextType)
      BY <1>1
    <3> QED BY <3>1, <3>2
  <2>3. fragments = Fragments(task) \/ \E t \in Texts : fragments = <<t>>
    BY Zenon DEF Extracted
  <2> QED BY <2>1, <2>2, <2>3
<1> QED BY <1>3

\* Add keeps it.
LEMMA AddInv ==
    ASSUME IInv, NEW c \in Callers, Add(c)
    PROVE  IInv'
<1>1. PICK t \in Texts, strategy \in {"skip", "replace", "merge"}, force \in BOOLEAN :
          Begin(c, t, strategy, force, <<>>)
  BY Zenon DEF Add
<1>2. t \in TextType /\ <<>> \in Seq(TextType)
  <2>1. Texts \subseteq TextType
    BY ConstantsAssumption, Zenon
  <2> QED BY <2>1
<1>3. adds' \in 0..MaxAdds
  <2>1. MaxAdds \in Nat
    BY ConstantsAssumption, Zenon
  <2> QED BY <2>1 DEF Add, IInv
<1>4. caller[c].stage = "idle" /\ UNCHANGED <<layout, stored, owed>>
  BY DEF Add
<1> QED BY <1>1, <1>2, <1>3, <1>4, BeginInv

\* So does an addition from a task.
LEMMA AddFromTaskInv ==
    ASSUME IInv, NEW c \in Callers, AddFromTask(c)
    PROVE  IInv'
<1>1. PICK task \in Tasks : \E fragments \in Extracted(task) \ {<<>>} :
          Begin(c, Head(fragments), "skip", FALSE, Tail(fragments))
  BY Zenon DEF AddFromTask
<1>2. PICK fragments \in Extracted(task) \ {<<>>} : Begin(c, Head(fragments), "skip", FALSE, Tail(fragments))
  BY <1>1
<1>3. PICK t \in TextType, queue \in Seq(TextType) : t = Head(fragments) /\ queue = Tail(fragments)
  BY ExtractedFacts
<1>4. adds' \in 0..MaxAdds
  <2>1. MaxAdds \in Nat
    BY ConstantsAssumption, Zenon
  <2> QED BY <2>1 DEF AddFromTask, IInv
<1>5. caller[c].stage = "idle" /\ UNCHANGED <<layout, stored, owed>>
  BY DEF AddFromTask
<1>6. Begin(c, t, "skip", FALSE, queue)
  BY <1>2, <1>3
<1>7. FALSE \in BOOLEAN /\ "skip" \in {"skip", "replace", "merge"}
  OBVIOUS
<1> QED BY <1>4, <1>5, <1>6, <1>7, BeginInv

\* So does the next sentence of a task.
LEMMA NextFragmentInv ==
    ASSUME IInv, NEW c \in Callers, NextFragment(c)
    PROVE  IInv'
<1>1. caller[c].queue \in Seq(TextType) /\ caller[c].queue # <<>>
  BY DEF NextFragment, IInv, CallersOK, CallerType
<1>2. PICK t \in TextType, queue \in Seq(TextType) : t = Head(caller[c].queue) /\ queue = Tail(caller[c].queue)
  <2>1. \A s \in Seq(TextType) : s # <<>> => Head(s) \in TextType /\ Tail(s) \in Seq(TextType)
    OBVIOUS
  <2> QED BY <1>1, <2>1
<1>3. caller[c].stage = "idle" /\ UNCHANGED <<layout, stored, owed>> /\ adds' \in 0..MaxAdds
  BY DEF NextFragment, IInv
<1>4. Begin(c, t, "skip", FALSE, queue)
  BY <1>2 DEF NextFragment
<1>5. FALSE \in BOOLEAN /\ "skip" \in {"skip", "replace", "merge"}
  OBVIOUS
<1> QED BY <1>3, <1>4, <1>5, BeginInv

\* Nothing a search finds is sensitive.
LEMMA FoundFacts ==
    ASSUME IInv, NEW query \in TextType, NEW limit \in Nat, limit # 0, NEW down \in SUBSET ToSet(layout),
           NEW r \in Answers(query, limit, down)
    PROVE  r \in Seq(TextType) /\ \A i \in DOMAIN r : ~IsSensitive(r[i])
<1>1. TypeOK
  BY InvariantGives
<1>2. r \in Seq(TextType) /\ \A i \in DOMAIN r : \E b \in ToSet(layout) \ down : r[i] \in ToSet(TextsIn(b))
  BY <1>1, AnswersFacts
<1>3. ASSUME NEW i \in DOMAIN r PROVE ~IsSensitive(r[i])
  <2>1. PICK b \in ToSet(layout) : r[i] \in ToSet(TextsIn(b))
    BY <1>2
  <2>2. b \in Backends
    BY LayoutFacts DEF IInv
  <2>3. stored[b] \in Seq(Entry)
    BY <2>2 DEF IInv, StoreOK
  <2>4. PICK n \in DOMAIN TextsOf(stored[b]) : r[i] = TextsOf(stored[b])[n]
    BY <2>1 DEF ToSet, TextsIn
  <2>5. PICK j \in DOMAIN stored[b] : stored[b][j].text = r[i]
    BY <2>3, <2>4, TextsOfFacts
  <2> QED BY <2>2, <2>5 DEF IInv, StoreOK
<1> QED BY <1>2, <1>3

\* The search for a conflict keeps it: what it decides to write has no secret,
\* and all words of the text and of a memory to be merged, unless the longer wins.
LEMMA FindInv ==
    ASSUME IInv, NEW c \in Callers, Find(c)
    PROVE  IInv'
<1>1. PICK k \in CallerType : k = caller[c]
  BY DEF IInv, CallersOK
<1>2. /\ layout \in Layouts /\ StoreOK(stored) /\ CallersOK /\ OwedKept
      /\ CallerOK(k, layout, stored["mem0"]) /\ k.stage = "find" /\ UNCHANGED <<layout, stored, owed, adds>>
  BY <1>1 DEF IInv, CallersOK, Find
<1>3. /\ k.text \in TextType /\ k.what \in TextType /\ k.queue \in Seq(TextType) /\ k.conflict = Nobody
      /\ ~IsSensitive(k.text) /\ ~IsSensitive(k.what) /\ HasAllWords(k) /\ ~k.wrote
      /\ k.at \in 1..Len(layout) /\ k.strategy \in {"skip", "replace", "merge"}
  BY <1>2 DEF CallerOK, CallerType
<1>4. SUFFICES \E k2 \in CallerType : caller' = [caller EXCEPT ![c] = k2] /\ CallerOK(k2, layout, stored["mem0"])
  <2>1. PICK k2 \in CallerType : caller' = [caller EXCEPT ![c] = k2] /\ CallerOK(k2, layout, stored["mem0"])
    BY <1>4
  <2>2. CallersOK'
    <3>1. Within(stored["mem0"], stored["mem0"]') /\ CallerOK(k2, layout, stored["mem0"]') /\ layout' = layout
      BY <1>2, <2>1 DEF Within
    <3> QED BY <1>2, <2>1, <3>1, CallerStep
  <2>3. OwedKept'
    <3>1. caller[c].stage # "store"
      BY <1>1, <1>2
    <3> QED BY <1>2, <2>1, <3>1, OwedSame
  <2> QED BY <1>2, <2>2, <2>3 DEF IInv
<1>4a. PICK down \in SUBSET ToSet(layout) : \E hits \in Answers(caller[c].text, 3, down) :
        LET clashes == {i \in DOMAIN hits : Conflicts(caller[c].text, hits[i])}
            old == hits[Min(clashes)]
        IN  caller' = [caller EXCEPT ![c] =
              IF clashes = {} THEN [caller[c] EXCEPT !.stage = "store"]
              ELSE IF caller[c].strategy = "skip" THEN Idle(caller[c].queue)
              ELSE [caller[c] EXCEPT !.stage = "remove", !.conflict = old,
                             !.what = IF caller[c].strategy = "merge" THEN Merge(old, caller[c].text)
                                      ELSE caller[c].text]]
  BY Zenon DEF Find
<1>4b. PICK hits \in Answers(caller[c].text, 3, down) :
        LET clashes == {i \in DOMAIN hits : Conflicts(caller[c].text, hits[i])}
            old == hits[Min(clashes)]
        IN  caller' = [caller EXCEPT ![c] =
              IF clashes = {} THEN [caller[c] EXCEPT !.stage = "store"]
              ELSE IF caller[c].strategy = "skip" THEN Idle(caller[c].queue)
              ELSE [caller[c] EXCEPT !.stage = "remove", !.conflict = old,
                             !.what = IF caller[c].strategy = "merge" THEN Merge(old, caller[c].text)
                                      ELSE caller[c].text]]
  BY <1>4a
<1>5. hits \in Answers(k.text, 3, down)
  BY <1>1
<1>6. hits \in Seq(TextType) /\ \A i \in DOMAIN hits : ~IsSensitive(hits[i])
  BY <1>3, <1>5, FoundFacts
<1> DEFINE clashes == {i \in DOMAIN hits : Conflicts(k.text, hits[i])}
           old == hits[Min(clashes)]
<1>7. caller' = [caller EXCEPT ![c] =
              IF clashes = {} THEN [k EXCEPT !.stage = "store"]
              ELSE IF k.strategy = "skip" THEN Idle(k.queue)
              ELSE [k EXCEPT !.stage = "remove", !.conflict = old,
                             !.what = IF k.strategy = "merge" THEN Merge(old, k.text) ELSE k.text]]
  BY <1>1, <1>4b
<1>8. clashes # {} => old \in TextType /\ ~IsSensitive(old)
  <2>1. clashes \subseteq Nat /\ clashes \subseteq DOMAIN hits
    BY <1>6
  <2> HIDE DEF clashes
  <2>2. ASSUME clashes # {} PROVE Min(clashes) \in clashes
    <3>1. \E x \in clashes : \A y \in clashes : x <= y
      BY <2>1, <2>2, LeastNat
    <3> QED BY <3>1 DEF Min
  <2>3. clashes # {} => Min(clashes) \in DOMAIN hits
    BY <2>1, <2>2
  <2> QED BY <1>6, <2>3 DEF old
<1> HIDE DEF clashes, old
<1>9. CASE clashes = {}
  <2> DEFINE k2 == [k EXCEPT !.stage = "store"]
  <2>1. caller' = [caller EXCEPT ![c] = k2]
    BY <1>7, <1>9
  <2>2. /\ k2 \in CallerType /\ k2.stage = "store" /\ k2.text = k.text /\ k2.what = k.what
        /\ k2.strategy = k.strategy /\ k2.conflict = k.conflict /\ k2.at = k.at /\ k2.wrote = k.wrote
    BY DEF CallerType
  <2> HIDE DEF k2
  <2>3. HasAllWords(k2)
    BY <1>3, <2>2 DEF HasAllWords, KeepsLonger
  <2>4. CallerOK(k2, layout, stored["mem0"])
    BY <1>3, <2>2, <2>3 DEF CallerOK
  <2> QED BY <2>1, <2>2, <2>4
<1>10. CASE clashes # {} /\ k.strategy = "skip"
  <2>1. caller' = [caller EXCEPT ![c] = Idle(k.queue)]
    BY <1>7, <1>10
  <2> QED BY <1>2, <1>3, <2>1, IdleFacts
<1>11. CASE clashes # {} /\ k.strategy # "skip"
  <2>1. PICK w \in TextType : w = (IF k.strategy = "merge" THEN Merge(old, k.text) ELSE k.text)
    BY <1>3, <1>8, <1>11, MergeFacts
  <2>2. ~IsSensitive(w)
    BY <1>3, <1>8, <1>11, <2>1, MergeFacts DEF IsSensitive
  <2> DEFINE k2 == [k EXCEPT !.stage = "remove", !.conflict = old, !.what = w]
  <2>3. caller' = [caller EXCEPT ![c] = k2]
    BY <1>7, <1>11, <2>1, Zenon
  <2>4. /\ k2 \in CallerType /\ k2.stage = "remove" /\ k2.text = k.text /\ k2.what = w
        /\ k2.strategy = k.strategy /\ k2.conflict = old /\ k2.at = k.at /\ k2.wrote = k.wrote
    BY <1>8, <1>11 DEF CallerType
  <2> HIDE DEF k2
  <2>5. HasAllWords(k2)
    <3>1. Nobody \notin TextType
      BY ConstantsAssumption, Zenon
    <3>2. CASE k.strategy = "merge"
      <4>1. w = Merge(old, k.text) /\ old # Nobody
        BY <1>8, <1>11, <2>1, <3>1, <3>2
      <4>2. CASE NearlySame(old, k.text)
        BY <2>4, <3>2, <4>1, <4>2 DEF HasAllWords, KeepsLonger
      <4>3. CASE ~NearlySame(old, k.text)
        <5>1. Covers(w, old) /\ Covers(w, k.text)
          BY <1>3, <1>8, <1>11, <4>1, <4>3, MergeFacts
        <5> QED BY <2>4, <5>1 DEF HasAllWords
      <4> QED BY <4>2, <4>3
    <3>3. CASE k.strategy # "merge"
      <4>1. w = k.text
        BY <2>1, <3>3
      <4> QED BY <2>4, <3>3, <4>1 DEF HasAllWords, Covers
    <3> QED BY <3>2, <3>3
  <2>6. CallerOK(k2, layout, stored["mem0"])
    BY <1>3, <1>8, <1>11, <2>2, <2>4, <2>5 DEF CallerOK
  <2> QED BY <2>3, <2>4, <2>6
<1> QED BY <1>9, <1>10, <1>11

\* A caller that goes on to its writes.
LEMMA CallerMoves ==
    ASSUME NEW k \in CallerType
    PROVE  LET k2 == [k EXCEPT !.at = 1, !.stage = "store"]
           IN  /\ k2 \in CallerType
               /\ k2.text = k.text /\ k2.what = k.what /\ k2.strategy = k.strategy /\ k2.conflict = k.conflict
               /\ k2.wrote = k.wrote /\ k2.stage = "store" /\ k2.at = 1
<1> DEFINE k1 == [k EXCEPT !.at = 1]
           k2 == [k1 EXCEPT !.stage = "store"]
<1>1. /\ k1 \in CallerType
      /\ k1.text = k.text /\ k1.what = k.what /\ k1.strategy = k.strategy /\ k1.conflict = k.conflict
      /\ k1.wrote = k.wrote /\ k1.at = 1
  BY DEF CallerType
<1> HIDE DEF k1
<1>2. /\ k2 \in CallerType
      /\ k2.text = k1.text /\ k2.what = k1.what /\ k2.strategy = k1.strategy /\ k2.conflict = k1.conflict
      /\ k2.wrote = k1.wrote /\ k2.at = k1.at /\ k2.stage = "store"
  BY <1>1 DEF CallerType
<1>3. k2 = [k EXCEPT !.at = 1, !.stage = "store"]
  BY DEF k1, CallerType
<1> QED BY <1>1, <1>2, <1>3

\* A list of entries has what a part of it has.
LEMMA HasTextFacts ==
    ASSUME NEW s, NEW u
    PROVE  /\ \A t : Within(s, t) /\ HasText(s, u) => HasText(t, u)
           /\ \A w : (\E i \in DOMAIN s : s[i] = Mine(w)) /\ Covers(w, u) => HasText(s, u)
<1>1. ASSUME NEW t, Within(s, t), HasText(s, u) PROVE HasText(t, u)
  BY <1>1 DEF Within, HasText
<1>2. ASSUME NEW w, NEW i \in DOMAIN s, s[i] = Mine(w), Covers(w, u) PROVE HasText(s, u)
  <2>1. s[i].user = User /\ s[i].text = w
    BY <1>2 DEF Mine
  <2> QED BY <1>2, <2>1 DEF HasText
<1> QED BY <1>1, <1>2

\* The removal keeps it: what the old memory alone covered is given up, or in the
\* merge that this caller is about to write.
LEMMA RemoveOldInv ==
    ASSUME IInv, NEW c \in Callers, RemoveOld(c)
    PROVE  IInv'
<1>1. PICK k \in CallerType : k = caller[c]
  BY DEF IInv, CallersOK
<1>2. /\ layout \in Layouts /\ StoreOK(stored) /\ CallersOK /\ OwedKept
      /\ CallerOK(k, layout, stored["mem0"]) /\ k.stage = "remove" /\ UNCHANGED <<layout, adds>>
  BY <1>1 DEF IInv, CallersOK, RemoveOld
<1>3. /\ k.conflict \in TextType /\ HasAllWords(k) /\ ~k.wrote /\ k.at \in 1..Len(layout)
      /\ k.strategy \in {"replace", "merge"} /\ ~IsSensitive(k.text) /\ ~IsSensitive(k.what) /\ k.at \in 1..2
  BY <1>2 DEF CallerOK, CallerType
<1>4. PICK b \in Backends : b = layout[k.at] /\ b \in ToSet(layout) /\ (k.at < Len(layout) => b = "mem0")
  BY <1>2, <1>3, LayoutFacts
<1>5. stored[b] \in Seq(Entry)
  BY <1>2 DEF StoreOK
<1>6. PICK s \in Seq(Entry) :
        /\ stored' = [stored EXCEPT ![b] = s] /\ Within(s, stored[b])
        /\ \A j \in DOMAIN stored[b] : b = "mem0" \/ stored[b][j] # Mine(k.conflict) =>
              \E i \in DOMAIN s : s[i] = stored[b][j]
        /\ NoneTwice(stored[b]) => NoneTwice(s)
  <2>1. stored' = stored \/ stored' = [stored EXCEPT ![b] = Removed(b, k.conflict)]
    BY <1>1, <1>4, Zenon DEF RemoveOld
  <2>2. CASE stored' = stored
    <3>1. stored' = [stored EXCEPT ![b] = stored[b]] /\ Within(stored[b], stored[b])
      BY <1>2, <2>2 DEF StoreOK, Within
    <3> QED BY <1>5, <3>1
  <2>3. CASE stored' = [stored EXCEPT ![b] = Removed(b, k.conflict)]
    <3> DEFINE new == Removed(b, k.conflict)
    <3>1. /\ new \in Seq(Entry) /\ Within(new, stored[b])
          /\ \A j \in DOMAIN stored[b] : b = "mem0" \/ stored[b][j] # Mine(k.conflict) =>
                \E i \in DOMAIN new : new[i] = stored[b][j]
          /\ NoneTwice(stored[b]) => NoneTwice(new)
      BY <1>5, RemovedFacts
    <3>2. stored' = [stored EXCEPT ![b] = new]
      BY <2>3
    <3> HIDE DEF new
    <3> QED BY <3>1, <3>2
  <2> QED BY <2>1, <2>2, <2>3
<1>7. stored' = [stored EXCEPT ![b] = s]
  BY <1>6
<1>8. stored'[b] = s /\ \A x \in Backends : x # b => stored'[x] = stored[x]
  BY <1>2, <1>7 DEF StoreOK
<1>9. StoreOK(stored')
  <2>1. \A i \in DOMAIN s : ~IsSensitive(s[i].text)
    BY <1>2, <1>6 DEF StoreOK, Within
  <2>2. \A j \in DOMAIN stored[b] : stored[b][j].user = Other => \E i \in DOMAIN s : s[i] = stored[b][j]
    <3>1. User # Other
      BY ConstantsAssumption, Zenon
    <3>2. Mine(k.conflict).user = User
      BY DEF Mine
    <3> QED BY <1>6, <3>1, <3>2
  <2>3. StoreOK([stored EXCEPT ![b] = s])
    BY <1>2, <1>6, <2>1, <2>2, StoreStep
  <2> QED BY <1>7, <2>3
<1>10. Within(stored["mem0"], stored["mem0"]')
  <2>1. "mem0" \in Backends
    BY DEF Backends
  <2>2. CASE b = "mem0"
    BY <1>6, <1>8, <2>2 DEF Within
  <2>3. CASE b # "mem0"
    BY <1>8, <2>1, <2>3 DEF Within
  <2> QED BY <2>2, <2>3
<1>11. PICK k2 \in CallerType :
        /\ caller' = [caller EXCEPT ![c] = k2]
        /\ k2.text = k.text /\ k2.what = k.what /\ k2.strategy = k.strategy /\ k2.conflict = k.conflict
        /\ k2.wrote = k.wrote
        /\ \/ k.at < Len(layout) /\ k2.stage = "remove" /\ k2.at = k.at + 1
           \/ ~(k.at < Len(layout)) /\ k2.stage = "store" /\ k2.at = 1
  <2>1. CASE k.at < Len(layout)
    <3>1. k.at + 1 \in 1..2
      <4>1. k.at = 1
        BY <1>2, <1>3, <2>1, LayoutFacts
      <4> QED BY <4>1
    <3> DEFINE k2 == [k EXCEPT !.at = k.at + 1]
    <3>2. caller' = [caller EXCEPT ![c] = k2]
      BY <1>1, <2>1, Zenon DEF RemoveOld
    <3>3. /\ k2 \in CallerType
          /\ k2.text = k.text /\ k2.what = k.what /\ k2.strategy = k.strategy /\ k2.conflict = k.conflict
          /\ k2.wrote = k.wrote /\ k2.stage = "remove" /\ k2.at = k.at + 1
      BY <1>2, <3>1 DEF CallerType
    <3> QED BY <2>1, <3>2, <3>3
  <2>2. CASE ~(k.at < Len(layout))
    <3> DEFINE k2 == [k EXCEPT !.at = 1, !.stage = "store"]
    <3>1. caller' = [caller EXCEPT ![c] = k2]
      BY <1>1, <2>2, Zenon DEF RemoveOld
    <3>2. /\ k2 \in CallerType
          /\ k2.text = k.text /\ k2.what = k.what /\ k2.strategy = k.strategy /\ k2.conflict = k.conflict
          /\ k2.wrote = k.wrote /\ k2.stage = "store" /\ k2.at = 1
      BY CallerMoves
    <3> QED BY <2>2, <3>1, <3>2
  <2> QED BY <2>1, <2>2
<1>12. CallersOK'
  <2>1. HasAllWords(k2)
    BY <1>3, <1>11 DEF HasAllWords, KeepsLonger
  <2>2. k2.at \in 1..Len(layout)
    <3>1. CASE k.at < Len(layout)
      <4>1. k.at = 1 /\ Len(layout) = 2
        BY <1>2, <1>3, <3>1, LayoutFacts
      <4> QED BY <1>11, <3>1, <4>1
    <3>2. CASE ~(k.at < Len(layout))
      <4>1. 1 \in 1..Len(layout)
        BY <1>2, LayoutFacts, Zenon
      <4> QED BY <1>11, <3>2, <4>1
    <3> QED BY <3>1, <3>2
  <2>3. CallerOK(k2, layout, stored["mem0"]')
    BY <1>3, <1>11, <2>1, <2>2 DEF CallerOK
  <2> QED BY <1>2, <1>10, <1>11, <2>3, CallerStep
<1>13. caller'[c] = k2 /\ \A d \in Callers : d # c => caller'[d] = caller[d]
  BY <1>2, <1>11 DEF CallersOK
<1>14. owed' = {u \in owed : ~GivesUp(k, u)}
  BY <1>1, Zenon DEF RemoveOld
<1>15. ASSUME NEW u \in owed'
       PROVE  \/ \E x \in ToSet(layout) : HasText(stored'[x], u)
              \/ \E d \in Callers : caller'[d].stage = "store" /\ Covers(caller'[d].what, u)
  <2>1. u \in owed /\ ~GivesUp(k, u)
    BY <1>14
  <2>2. ASSUME NEW x \in ToSet(layout), HasText(stored[x], u), x # b
        PROVE  HasText(stored'[x], u)
    <3>1. x \in Backends
      BY <1>2, LayoutFacts
    <3> QED BY <1>8, <2>2, <3>1
  <2>3. ASSUME HasText(stored[b], u), ~HasText(s, u)
        PROVE  caller'[c].stage = "store" /\ Covers(caller'[c].what, u)
    <3>1. PICK i \in DOMAIN stored[b] : stored[b][i].user = User /\ Covers(stored[b][i].text, u)
      BY <2>3 DEF HasText
    <3>2. b # "mem0" /\ stored[b][i] = Mine(k.conflict)
      BY <1>6, <2>3, <3>1 DEF HasText
    <3>3. Covers(k.conflict, u)
      BY <3>1, <3>2 DEF Mine
    <3>4. k.strategy = "merge" /\ (KeepsLonger(k) => Covers(k.what, u))
      BY <1>3, <2>1, <3>3 DEF GivesUp
    <3>5. k.conflict # Nobody
      <4>1. Nobody \notin TextType
        BY ConstantsAssumption, Zenon
      <4> QED BY <1>3, <4>1
    <3>6. Covers(k.what, u)
      BY <1>3, <3>3, <3>4, <3>5 DEF HasAllWords, Covers
    <3> QED BY <1>4, <1>11, <1>13, <3>2, <3>6
  <2>4. ASSUME NEW d \in Callers, caller[d].stage = "store" PROVE caller'[d] = caller[d]
    BY <1>1, <1>2, <1>13, <2>4
  <2>5. CASE \E x \in ToSet(layout) : HasText(stored[x], u)
    <3>1. PICK x \in ToSet(layout) : HasText(stored[x], u)
      BY <2>5
    <3>2. CASE x # b
      BY <2>2, <3>1, <3>2
    <3>3. CASE x = b
      BY <1>4, <1>8, <2>3, <3>1, <3>3
    <3> QED BY <3>2, <3>3
  <2>6. CASE \E d \in Callers : caller[d].stage = "store" /\ Covers(caller[d].what, u)
    BY <2>4, <2>6
  <2> QED BY <1>2, <2>1, <2>5, <2>6 DEF OwedKept
<1>16. OwedKept'
  BY <1>2, <1>15 DEF OwedKept
<1>17. owed' \subseteq TextType /\ adds' \in 0..MaxAdds /\ layout' \in Layouts
  BY <1>2, <1>14 DEF IInv
<1> QED BY <1>9, <1>12, <1>16, <1>17 DEF IInv

\* A caller that has made one of its writes and goes on to backend n.
WroteOne(k, n, w) == [k EXCEPT !.at = n, !.wrote = w]

\* k2 is k but for the backend and the note that something was written.
AsBefore(k2, k, n, w) ==
    /\ k2 \in CallerType
    /\ k2.text = k.text /\ k2.what = k.what /\ k2.strategy = k.strategy /\ k2.conflict = k.conflict
    /\ k2.wrote = w /\ k2.stage = k.stage /\ k2.at = n

\* It is as it was otherwise.
LEMMA CallerWrites ==
    ASSUME NEW k, k \in CallerType, NEW n, n \in 1..2, NEW w, w \in BOOLEAN
    PROVE  AsBefore(WroteOne(k, n, w), k, n, w)
<1> DEFINE k1 == [k EXCEPT !.at = n]
           k2 == [k1 EXCEPT !.wrote = w]
<1>1. /\ k1 \in CallerType
      /\ k1.text = k.text /\ k1.what = k.what /\ k1.strategy = k.strategy /\ k1.conflict = k.conflict
      /\ k1.stage = k.stage /\ k1.at = n
  BY DEF CallerType
<1> HIDE DEF k1
<1>2. /\ k2 \in CallerType
      /\ k2.text = k1.text /\ k2.what = k1.what /\ k2.strategy = k1.strategy /\ k2.conflict = k1.conflict
      /\ k2.wrote = w /\ k2.at = k1.at /\ k2.stage = k1.stage
  BY <1>1 DEF CallerType
<1>3. k2 = WroteOne(k, n, w)
  BY DEF k1, CallerType, WroteOne
<1> HIDE DEF k2
<1>4. AsBefore(k2, k, n, w)
  BY <1>1, <1>2, Zenon DEF AsBefore
<1> QED BY <1>3, <1>4

\* The write keeps it: what is acknowledged or was under way is stored now, or no
\* longer owed.
LEMMA StoreInv ==
    ASSUME IInv, NEW c \in Callers, Store(c)
    PROVE  IInv'
<1>1. PICK k \in CallerType : k = caller[c]
  BY DEF IInv, CallersOK
<1>2. /\ layout \in Layouts /\ StoreOK(stored) /\ CallersOK /\ OwedKept
      /\ CallerOK(k, layout, stored["mem0"]) /\ k.stage = "store" /\ UNCHANGED <<layout, adds>>
  BY <1>1 DEF IInv, CallersOK, Store
<1>3. /\ HasAllWords(k) /\ k.at \in 1..Len(layout) /\ k.text \in TextType /\ k.what \in TextType
      /\ ~IsSensitive(k.text) /\ ~IsSensitive(k.what) /\ k.at \in 1..2 /\ k.queue \in Seq(TextType)
      /\ (k.wrote => k.at = 2 /\ \E i \in DOMAIN stored["mem0"] : stored["mem0"][i] = Mine(k.what))
  BY <1>2 DEF CallerOK, CallerType
<1>4. PICK b \in Backends : b = layout[k.at] /\ b \in ToSet(layout) /\ (k.at < Len(layout) => b = "mem0")
  BY <1>2, <1>3, LayoutFacts
<1>5. stored[b] \in Seq(Entry)
  BY <1>2 DEF StoreOK
<1>6. PICK fails \in BOOLEAN :
        LET wrote == k.wrote \/ ~fails
        IN  /\ stored' = IF fails THEN stored ELSE [stored EXCEPT ![b] = Added(b, k.what)]
            /\ IF k.at < Len(layout)
               THEN /\ caller' = [caller EXCEPT ![c] = [k EXCEPT !.at = @ + 1, !.wrote = wrote]]
                    /\ UNCHANGED owed
               ELSE /\ caller' = [caller EXCEPT ![c] =
                           Idle(IF fails /\ Len(layout) = 1 THEN <<>> ELSE k.queue)]
                    /\ owed' = IF wrote THEN owed \cup {u \in {k.text} : KeepsLonger(k) => Covers(k.what, u)}
                               ELSE {u \in owed : Covers(k.what, u) => Held(u, Backends)}
  BY <1>1, <1>4, Zenon DEF Store
<1>7. PICK wrote \in BOOLEAN : wrote <=> (k.wrote \/ ~fails)
  BY Zenon
<1>8. PICK s \in Seq(Entry) :
        /\ stored' = [stored EXCEPT ![b] = s] /\ Within(stored[b], s)
        /\ \A i \in DOMAIN s : s[i] = Mine(k.what) \/ \E j \in DOMAIN stored[b] : s[i] = stored[b][j]
        /\ b = "sqlite" /\ NoneTwice(stored[b]) => NoneTwice(s)
        /\ ~fails => \E i \in DOMAIN s : s[i] = Mine(k.what)
  <2>1. CASE fails
    <3>1. stored' = stored
      BY <1>6, <2>1, Zenon
    <3>2. stored' = [stored EXCEPT ![b] = stored[b]] /\ Within(stored[b], stored[b])
      BY <1>2, <3>1 DEF StoreOK, Within
    <3> QED BY <1>5, <2>1, <3>2
  <2>2. CASE ~fails
    <3> DEFINE new == Added(b, k.what)
    <3>1. stored' = [stored EXCEPT ![b] = new]
      BY <1>6, <2>2, Zenon
    <3>2. /\ new \in Seq(Entry) /\ Within(stored[b], new)
          /\ \E i \in DOMAIN new : new[i] = Mine(k.what)
          /\ \A i \in DOMAIN new : new[i] = Mine(k.what) \/ \E j \in DOMAIN stored[b] : new[i] = stored[b][j]
          /\ b = "sqlite" /\ NoneTwice(stored[b]) => NoneTwice(new)
      BY <1>3, <1>5, AddedFacts
    <3> HIDE DEF new
    <3> QED BY <2>2, <3>1, <3>2
  <2> QED BY <2>1, <2>2
<1>9. stored' = [stored EXCEPT ![b] = s]
  BY <1>8
<1>10. stored'[b] = s /\ \A x \in Backends : x # b => stored'[x] = stored[x]
  BY <1>2, <1>9 DEF StoreOK
<1>11. StoreOK(stored')
  <2>1. \A i \in DOMAIN s : ~IsSensitive(s[i].text)
    <3>1. Mine(k.what).text = k.what
      BY DEF Mine
    <3> QED BY <1>2, <1>3, <1>8, <3>1 DEF StoreOK
  <2>2. \A j \in DOMAIN stored[b] : stored[b][j].user = Other => \E i \in DOMAIN s : s[i] = stored[b][j]
    BY <1>8 DEF Within
  <2>3. StoreOK([stored EXCEPT ![b] = s])
    BY <1>2, <1>8, <2>1, <2>2, StoreStep
  <2> QED BY <1>9, <2>3
<1>12. \A x \in Backends : Within(stored[x], stored'[x])
  <2> TAKE x \in Backends
  <2>1. CASE x = b
    BY <1>8, <1>10, <2>1
  <2>2. CASE x # b
    BY <1>10, <2>2 DEF Within
  <2> QED BY <2>1, <2>2
<1>13. Within(stored["mem0"], stored["mem0"]') /\ "mem0" \in Backends
  BY <1>12 DEF Backends
<1>14. \A u : \A x \in ToSet(layout) : HasText(stored[x], u) => HasText(stored'[x], u)
  BY <1>2, <1>12, LayoutFacts, HasTextFacts
<1>15. layout' \in Layouts /\ adds' \in 0..MaxAdds
  BY <1>2 DEF IInv
<1>16. CASE k.at < Len(layout)
  <2>1. k.at = 1 /\ Len(layout) = 2 /\ b = "mem0" /\ ~k.wrote
    <3>1. k.at = 1 /\ Len(layout) = 2
      BY <1>2, <1>3, <1>16, LayoutFacts
    <3> QED BY <1>3, <1>4, <3>1
  <2> DEFINE k2 == WroteOne(k, k.at + 1, wrote)
  <2>2. caller' = [caller EXCEPT ![c] = k2] /\ owed' = owed
    <3>1. (k.wrote \/ ~fails) = wrote
      BY <1>7, Zenon
    <3>2. caller' = [caller EXCEPT ![c] = [k EXCEPT !.at = @ + 1, !.wrote = k.wrote \/ ~fails]] /\ owed' = owed
      BY <1>6, <1>16, Zenon
    <3> QED BY <3>1, <3>2, Zenon DEF WroteOne
  <2>3. /\ k2 \in CallerType
        /\ k2.text = k.text /\ k2.what = k.what /\ k2.strategy = k.strategy /\ k2.conflict = k.conflict
        /\ k2.wrote = wrote /\ k2.stage = "store" /\ k2.at = 2
    <3>1. k.at + 1 \in 1..2 /\ k.at + 1 = 2
      BY <2>1
    <3>2. /\ k2 \in CallerType
          /\ k2.text = k.text /\ k2.what = k.what /\ k2.strategy = k.strategy /\ k2.conflict = k.conflict
          /\ k2.wrote = wrote /\ k2.stage = k.stage /\ k2.at = k.at + 1
      <4>1. k \in CallerType
        BY <1>1
      <4>2. wrote \in BOOLEAN
        BY <1>7
      <4>3. PICK n \in 1..2 : n = k.at + 1
        BY <3>1
      <4>4. AsBefore(WroteOne(k, n, wrote), k, n, wrote)
        BY <4>1, <4>2, <4>3, CallerWrites
      <4>5. AsBefore(k2, k, k.at + 1, wrote)
        BY <4>3, <4>4
      <4> HIDE DEF k2
      <4> QED BY <4>5, Zenon DEF AsBefore
    <3> HIDE DEF k2
    <3> QED BY <1>2, <3>1, <3>2
  <2> HIDE DEF k2
  <2>4. CallersOK'
    <3>1. HasAllWords(k2)
      BY <1>3, <2>3 DEF HasAllWords, KeepsLonger
    <3>2. ASSUME k2.wrote PROVE \E i \in DOMAIN stored'["mem0"] : stored'["mem0"][i] = Mine(k2.what)
      <4>1. ~fails
        BY <1>7, <2>1, <2>3, <3>2, Zenon
      <4> QED BY <1>8, <1>10, <2>1, <2>3, <4>1
    <3>3. k2.at \in 1..Len(layout)
      BY <2>1, <2>3
    <3>4. CallerOK(k2, layout, stored["mem0"]')
      BY <1>3, <2>3, <3>1, <3>2, <3>3 DEF CallerOK
    <3> QED BY <1>2, <1>13, <2>2, <2>3, <3>4, CallerStep
  <2>5. caller'[c] = k2 /\ \A d \in Callers : d # c => caller'[d] = caller[d]
    BY <1>2, <2>2 DEF CallersOK
  <2>6. OwedKept'
    <3>1. ASSUME NEW u \in owed
          PROVE  \/ \E x \in ToSet(layout) : HasText(stored'[x], u)
                 \/ \E d \in Callers : caller'[d].stage = "store" /\ Covers(caller'[d].what, u)
      <4>1. CASE \E x \in ToSet(layout) : HasText(stored[x], u)
        BY <1>14, <4>1
      <4>2. CASE \E d \in Callers : caller[d].stage = "store" /\ Covers(caller[d].what, u)
        <5>1. PICK d \in Callers : caller[d].stage = "store" /\ Covers(caller[d].what, u)
          BY <4>2
        <5>2. caller'[d].stage = "store" /\ caller'[d].what = caller[d].what
          BY <1>1, <2>3, <2>5, <5>1
        <5> QED BY <5>1, <5>2
      <4> QED BY <1>2, <4>1, <4>2 DEF OwedKept
    <3> QED BY <1>2, <2>2, <3>1 DEF OwedKept
  <2> QED BY <1>11, <1>15, <2>2, <2>4, <2>6 DEF IInv
<1>17. CASE ~(k.at < Len(layout))
  <2>1. PICK queue \in Seq(TextType) : queue = IF fails /\ Len(layout) = 1 THEN <<>> ELSE k.queue
    <3>1. <<>> \in Seq(TextType)
      OBVIOUS
    <3> QED BY <1>3, <3>1, Zenon
  <2>2. caller' = [caller EXCEPT ![c] = Idle(queue)]
    BY <1>6, <1>17, <2>1, Zenon
  <2>3. owed' = IF wrote THEN owed \cup {u \in {k.text} : KeepsLonger(k) => Covers(k.what, u)}
                ELSE {u \in owed : Covers(k.what, u) => Held(u, Backends)}
    <3>1. owed' = IF k.wrote \/ ~fails THEN owed \cup {u \in {k.text} : KeepsLonger(k) => Covers(k.what, u)}
                  ELSE {u \in owed : Covers(k.what, u) => Held(u, Backends)}
      BY <1>6, <1>17, Zenon
    <3> QED BY <1>7, <3>1, Zenon
  <2>4. owed' \subseteq TextType
    BY <1>3, <2>3 DEF IInv
  <2>5. CallersOK'
    <3>1. Idle(queue) \in CallerType /\ CallerOK(Idle(queue), layout, stored["mem0"]')
      BY <1>2, <2>1, IdleFacts
    <3> QED BY <1>2, <1>13, <2>2, <3>1, CallerStep
  <2>6. \A d \in Callers : d # c => caller'[d] = caller[d]
    BY <1>2, <2>2 DEF CallersOK
  <2>7. ASSUME wrote, NEW u, Covers(k.what, u)
        PROVE  \E x \in ToSet(layout) : HasText(stored'[x], u)
    <3>1. CASE ~fails
      <4>1. HasText(s, u)
        BY <1>8, <2>7, <3>1, HasTextFacts
      <4> QED BY <1>4, <1>10, <4>1
    <3>2. CASE k.wrote
      <4>1. HasText(stored["mem0"], u)
        BY <1>3, <2>7, <3>2, HasTextFacts
      <4>2. "mem0" \in ToSet(layout)
        <5>1. k.at = 2 /\ k.at \in 1..Len(layout)
          BY <1>3, <3>2
        <5>2. layout = <<"mem0", "vector">>
          <6>1. Len(<<"sqlite">>) = 1
            OBVIOUS
          <6>2. layout # <<"sqlite">>
            <7> SUFFICES ASSUME layout = <<"sqlite">> PROVE FALSE
              OBVIOUS
            <7>1. Len(layout) = 1
              BY <6>1
            <7> QED BY <5>1, <7>1
          <6> QED BY <1>2, <6>2, LayoutFacts
        <5> QED BY <5>2 DEF ToSet
      <4> QED BY <1>14, <4>1, <4>2
    <3> QED BY <1>7, <2>7, <3>1, <3>2
  <2>8. ASSUME NEW u \in owed, wrote \/ ~Covers(k.what, u)
        PROVE  \/ \E x \in ToSet(layout) : HasText(stored'[x], u)
               \/ \E d \in Callers : caller'[d].stage = "store" /\ Covers(caller'[d].what, u)
    <3>1. CASE \E x \in ToSet(layout) : HasText(stored[x], u)
      BY <1>14, <3>1
    <3>2. CASE \E d \in Callers : caller[d].stage = "store" /\ Covers(caller[d].what, u)
      <4>1. PICK d \in Callers : caller[d].stage = "store" /\ Covers(caller[d].what, u)
        BY <3>2
      <4>2. CASE d = c
        BY <1>1, <2>7, <2>8, <4>1, <4>2
      <4>3. CASE d # c
        BY <2>6, <4>1, <4>3
      <4> QED BY <4>2, <4>3
    <3> QED BY <1>2, <3>1, <3>2 DEF OwedKept
  <2>9. ASSUME NEW u \in owed'
        PROVE  \/ \E x \in ToSet(layout) : HasText(stored'[x], u)
               \/ \E d \in Callers : caller'[d].stage = "store" /\ Covers(caller'[d].what, u)
    <3>1. CASE wrote
      <4>1. u \in owed \/ (u = k.text /\ (KeepsLonger(k) => Covers(k.what, u)))
        BY <2>3, <3>1
      <4>2. CASE u \in owed
        BY <2>8, <3>1, <4>2
      <4>3. CASE u = k.text /\ (KeepsLonger(k) => Covers(k.what, u))
        <5>1. Covers(k.what, u)
          BY <1>3, <4>3 DEF HasAllWords
        <5> QED BY <2>7, <3>1, <5>1
      <4> QED BY <4>1, <4>2, <4>3
    <3>2. CASE ~wrote
      <4>1. u \in owed /\ (Covers(k.what, u) => Held(u, Backends))
        BY <2>3, <3>2
      <4>2. CASE Covers(k.what, u)
        <5>1. layout \in Layouts /\ stored \in [Backends -> Seq(Entry)]
          BY <1>2 DEF StoreOK
        <5>2. \E x \in ToSet(layout) : HasText(stored[x], u)
          BY <4>1, <4>2, <5>1, HeldFacts
        <5> QED BY <1>14, <5>2
      <4>3. CASE ~Covers(k.what, u)
        BY <2>8, <4>1, <4>3
      <4> QED BY <4>2, <4>3
    <3> QED BY <3>1, <3>2
  <2>10. OwedKept'
    BY <1>2, <2>9 DEF OwedKept
  <2> QED BY <1>11, <1>15, <2>4, <2>5, <2>10 DEF IInv
<1> QED BY <1>16, <1>17

\* The deletion from the command line keeps it.
LEMMA DeleteInv ==
    ASSUME IInv, Delete
    PROVE  IInv'
<1>1. /\ layout \in Layouts /\ StoreOK(stored) /\ CallersOK /\ OwedKept
      /\ layout = <<"sqlite">> /\ UNCHANGED <<layout, caller, adds>>
  BY DEF IInv, Delete
<1>2. PICK t \in ToSet(TextsIn("sqlite")) :
        /\ stored' = [stored EXCEPT !["sqlite"] = Removed("sqlite", t)]
        /\ owed' = {u \in owed : ~Covers(t, u)}
  BY Zenon DEF Delete
<1>3. "sqlite" \in Backends /\ "mem0" \in Backends /\ "mem0" # "sqlite"
  BY DEF Backends
<1>4. stored["sqlite"] \in Seq(Entry)
  BY <1>1, <1>3 DEF StoreOK
<1>5. PICK s \in Seq(Entry) :
        /\ stored' = [stored EXCEPT !["sqlite"] = s] /\ Within(s, stored["sqlite"])
        /\ \A j \in DOMAIN stored["sqlite"] : stored["sqlite"][j] # Mine(t) =>
              \E i \in DOMAIN s : s[i] = stored["sqlite"][j]
        /\ NoneTwice(stored["sqlite"]) => NoneTwice(s)
  <2> DEFINE new == Removed("sqlite", t)
  <2>1. /\ new \in Seq(Entry) /\ Within(new, stored["sqlite"])
        /\ \A j \in DOMAIN stored["sqlite"] : "sqlite" = "mem0" \/ stored["sqlite"][j] # Mine(t) =>
              \E i \in DOMAIN new : new[i] = stored["sqlite"][j]
        /\ NoneTwice(stored["sqlite"]) => NoneTwice(new)
    BY <1>4, RemovedFacts
  <2>2. stored' = [stored EXCEPT !["sqlite"] = new]
    BY <1>2
  <2> HIDE DEF new
  <2> QED BY <2>1, <2>2
<1>6. stored' = [stored EXCEPT !["sqlite"] = s]
  BY <1>5
<1>7. stored'["sqlite"] = s /\ \A x \in Backends : x # "sqlite" => stored'[x] = stored[x]
  BY <1>1, <1>3, <1>6 DEF StoreOK
<1>8. StoreOK(stored')
  <2>1. \A i \in DOMAIN s : ~IsSensitive(s[i].text)
    BY <1>1, <1>3, <1>5 DEF StoreOK, Within
  <2>2. \A j \in DOMAIN stored["sqlite"] : stored["sqlite"][j].user = Other =>
            \E i \in DOMAIN s : s[i] = stored["sqlite"][j]
    <3>1. User # Other
      BY ConstantsAssumption, Zenon
    <3>2. Mine(t).user = User
      BY DEF Mine
    <3> QED BY <1>5, <3>1, <3>2
  <2>3. StoreOK([stored EXCEPT !["sqlite"] = s])
    BY <1>1, <1>3, <1>5, <2>1, <2>2, StoreStep
  <2> QED BY <1>6, <2>3
<1>9. CallersOK'
  <2>1. stored["mem0"]' = stored["mem0"]
    BY <1>3, <1>7
  <2> QED BY <1>1, <2>1 DEF CallersOK
<1>10. ASSUME NEW u \in owed'
       PROVE  \/ \E x \in ToSet(layout) : HasText(stored'[x], u)
              \/ \E d \in Callers : caller[d].stage = "store" /\ Covers(caller[d].what, u)
  <2>1. u \in owed /\ ~Covers(t, u)
    BY <1>2
  <2>2. ToSet(layout) = {"sqlite"}
    BY <1>1 DEF ToSet
  <2>3. ASSUME HasText(stored["sqlite"], u) PROVE HasText(s, u)
    <3>1. PICK i \in DOMAIN stored["sqlite"] : stored["sqlite"][i].user = User /\ Covers(stored["sqlite"][i].text, u)
      BY <2>3 DEF HasText
    <3>2. stored["sqlite"][i] # Mine(t)
      BY <2>1, <3>1 DEF Mine
    <3>3. PICK n \in DOMAIN s : s[n] = stored["sqlite"][i]
      BY <1>5, <3>2
    <3> QED BY <3>1, <3>3 DEF HasText
  <2> QED BY <1>1, <1>7, <2>1, <2>2, <2>3 DEF OwedKept
<1>11. OwedKept'
  BY <1>1, <1>10 DEF OwedKept
<1>12. owed' \subseteq TextType /\ adds' \in 0..MaxAdds /\ layout' \in Layouts
  BY <1>1, <1>2 DEF IInv
<1> QED BY <1>8, <1>9, <1>11, <1>12 DEF IInv

\* A crash keeps it.
LEMMA CrashInv ==
    ASSUME IInv, Crash
    PROVE  IInv'
<1>1. /\ layout \in Layouts /\ StoreOK(stored) /\ UNCHANGED <<layout, adds>>
      /\ caller' = [c \in Callers |-> Idle(<<>>)] /\ stored' = [stored EXCEPT !["vector"] = <<>>]
      /\ owed' = {u \in owed : Held(u, {"sqlite", "mem0"})}
  BY DEF IInv, Crash
<1>2. \A x \in {"sqlite", "mem0"} : x \in Backends /\ x # "vector"
  BY DEF Backends
<1>3. "vector" \in Backends
  BY DEF Backends
<1>4. stored'["vector"] = <<>> /\ \A x \in Backends : x # "vector" => stored'[x] = stored[x]
  BY <1>1, <1>3 DEF StoreOK
<1>5. StoreOK(stored')
  <2>1. stored' \in [Backends -> Seq(Entry)]
    <3>1. <<>> \in Seq(Entry)
      OBVIOUS
    <3> QED BY <1>1, <3>1 DEF StoreOK
  <2>2. NoneTwice(stored'["sqlite"])
    BY <1>1, <1>2, <1>4 DEF StoreOK
  <2>3. ASSUME NEW x \in Backends, NEW i \in DOMAIN stored'[x]
        PROVE  ~IsSensitive(stored'[x][i].text)
    <3>1. CASE x = "vector"
      BY <1>4, <3>1
    <3>2. CASE x # "vector"
      BY <1>1, <1>4, <3>2 DEF StoreOK
    <3> QED BY <3>1, <3>2
  <2>4. \A x \in {"sqlite", "mem0"} : \E i \in DOMAIN stored'[x] : stored'[x][i].user = Other
    BY <1>1, <1>2, <1>4 DEF StoreOK
  <2> QED BY <2>1, <2>2, <2>3, <2>4 DEF StoreOK
<1>6. CallersOK'
  <2>1. <<>> \in Seq(TextType)
    OBVIOUS
  <2>2. \A c \in Callers : caller'[c] = Idle(<<>>)
    BY <1>1
  <2>3. Idle(<<>>) \in CallerType /\ CallerOK(Idle(<<>>), layout, stored["mem0"]')
    BY <1>1, <2>1, IdleFacts
  <2> QED BY <1>1, <2>2, <2>3 DEF CallersOK
<1>7. ASSUME NEW u \in owed' PROVE \E x \in ToSet(layout) : HasText(stored'[x], u)
  <2>1. stored \in [Backends -> Seq(Entry)] /\ Held(u, {"sqlite", "mem0"})
    BY <1>1 DEF StoreOK
  <2>2. PICK x \in {"sqlite", "mem0"} \cap ToSet(layout) : HasText(stored[x], u)
    BY <1>1, <2>1, HeldFacts
  <2>3. stored'[x] = stored[x]
    BY <1>2, <1>4
  <2> QED BY <2>2, <2>3
<1>8. OwedKept'
  BY <1>1, <1>7 DEF OwedKept
<1>9. owed' \subseteq TextType /\ adds' \in 0..MaxAdds /\ layout' \in Layouts
  BY <1>1 DEF IInv
<1> QED BY <1>5, <1>6, <1>8, <1>9 DEF IInv

\* Every step keeps it.
LEMMA NextInv ==
    ASSUME IInv, [Next]_vars
    PROVE  IInv'
<1>1. CASE UNCHANGED vars
  BY <1>1 DEF vars, IInv, CallersOK, OwedKept
<1>2. ASSUME NEW c \in Callers, Add(c) PROVE IInv'
  BY <1>2, AddInv
<1>3. ASSUME NEW c \in Callers, AddFromTask(c) PROVE IInv'
  BY <1>3, AddFromTaskInv
<1>4. ASSUME NEW c \in Callers, NextFragment(c) PROVE IInv'
  BY <1>4, NextFragmentInv
<1>5. ASSUME NEW c \in Callers, Find(c) PROVE IInv'
  BY <1>5, FindInv
<1>6. ASSUME NEW c \in Callers, RemoveOld(c) PROVE IInv'
  BY <1>6, RemoveOldInv
<1>7. ASSUME NEW c \in Callers, Store(c) PROVE IInv'
  BY <1>7, StoreInv
<1>8. CASE Delete
  BY <1>8, DeleteInv
<1>9. CASE Crash
  BY <1>9, CrashInv
<1> QED BY <1>1, <1>2, <1>3, <1>4, <1>5, <1>6, <1>7, <1>8, <1>9 DEF Next

\* The inductive invariant is an invariant.
THEOREM Invariant == Spec => []IInv
<1>1. Init => IInv
  BY InitInv
<1>2. IInv /\ [Next]_vars => IInv'
  BY NextInv
<1> QED BY <1>1, <1>2, PTL DEF Spec

----------------------------------------------------------------------------
(* The properties that the runs check.                                      *)

\* The variables have their types, and the SQLite backend has no text twice.
THEOREM TypeCorrect == Spec => []TypeOK
<1>1. IInv => TypeOK
  BY InvariantGives
<1> QED BY <1>1, Invariant, PTL

\* A text that add acknowledged is in a backend in use or in the write of a
\* merge under way, whatever callers, failures of a backend and crashes do
\* between, until add, delete or a crash gives it up in the open.
THEOREM AcknowledgedRetained == Spec => []Retained
<1>1. IInv => Retained
  BY InvariantGives
<1> QED BY <1>1, Invariant, PTL

\* Nothing sensitive is stored: neither by add, forced or not, nor from a task,
\* nor as part of a merge.
THEOREM NothingSensitiveStored == Spec => []NoSecrets
<1>1. IInv => NoSecrets
  BY InvariantGives
<1> QED BY <1>1, Invariant, PTL

\* Whatever fails, a search answers with memories of its user only, within the
\* limit, in the composite with none that duplicates another, and with something
\* if a working backend of ours has a memory with a word of the query.
THEOREM SearchesAnswer == Spec => []SearchAnswers
<1>1. TypeOK => SearchAnswers
  BY SearchAnswersFacts
<1> QED BY <1>1, TypeCorrect, PTL
=============================================================================
