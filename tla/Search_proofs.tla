---------------------------- MODULE Search_proofs ----------------------------
(* What a client finds that reads the pages of a search one after the other, *)
(* and what a scan finds while hooks write: for any finite set of nodes, any *)
(* rows, titles and query, and any number of hooks.                          *)
EXTENDS Search, SequenceTheorems, FiniteSetTheorems, WellFoundedInduction, TLAPS

-----------------------------------------------------------------------------
(* The order of the records                                                  *)

LEMMA LeastPosition ==
    ASSUME NEW S \in SUBSET Nat, S # {}
    PROVE  \E k \in S : \A j \in S : ~(j < k)
<1> DEFINE R == OpToRel(<, Nat)
<1>1. IsWellFoundedOn(R, Nat)
  BY NatLessThanWellFounded
<1>2. \A x, y \in Nat : y < x => <<y, x>> \in R
  BY DEF OpToRel
<1> HIDE DEF R
<1>3. PICK k \in S : \A j \in S : ~(<<j, k>> \in R)
  BY <1>1, WFMin
<1>4. QED
  BY <1>2, <1>3

(* The order of strings is total: two that differ, differ first somewhere.   *)
LEMMA EarlierIrreflexive ==
    ASSUME NEW s \in Seq(Nat)
    PROVE  ~Earlier(s, s)
BY DEF Earlier

LEMMA EarlierTransitive ==
    ASSUME NEW s \in Seq(Nat), NEW t \in Seq(Nat), NEW u \in Seq(Nat),
           Earlier(s, t), Earlier(t, u)
    PROVE  Earlier(s, u)
<1> DEFINE At(a, b, i) == /\ i \in DOMAIN b
                          /\ \A j \in 1 .. i - 1 : j \in DOMAIN a /\ a[j] = b[j]
                          /\ i \in DOMAIN a => a[i] < b[i]
<1>1. PICK i \in DOMAIN t : At(s, t, i)
  BY DEF Earlier
<1>2. PICK k \in DOMAIN u : At(t, u, k)
  BY DEF Earlier
<1>3. CASE i < k
  <2>1. i \in 1 .. k - 1
    BY <1>3
  <2>2. i \in DOMAIN u /\ t[i] = u[i]
    BY <2>1, <1>2
  <2>3. \A j \in 1 .. i - 1 : j \in DOMAIN s /\ s[j] = u[j]
    BY <1>1, <1>2, <1>3
  <2>4. i \in DOMAIN s => s[i] < u[i]
    BY <1>1, <2>2
  <2>5. QED
    BY <2>2, <2>3, <2>4 DEF Earlier
<1>4. CASE k <= i
  <2>1. \A j \in 1 .. k - 1 : j \in DOMAIN s /\ s[j] = u[j]
    <3>1. SUFFICES ASSUME NEW j \in 1 .. k - 1 PROVE j \in DOMAIN s /\ s[j] = u[j]
      OBVIOUS
    <3>2. i \in Nat /\ k \in Nat
      OBVIOUS
    <3>3. j \in 1 .. i - 1
      BY <1>4, <3>2
    <3>4. QED
      BY <1>1, <1>2, <3>3
  <2>2. k \in DOMAIN s => s[k] < u[k]
    <3>1. SUFFICES ASSUME k \in DOMAIN s PROVE s[k] < u[k]
      OBVIOUS
    <3>2. k \in DOMAIN t
      BY <1>4
    <3>3. t[k] < u[k] /\ t[k] \in Nat /\ u[k] \in Nat /\ s[k] \in Nat
      BY <1>2, <3>1, <3>2
    <3>4. s[k] = t[k] \/ s[k] < t[k]
      <4>1. CASE k = i
        BY <1>1, <3>1, <4>1
      <4>2. CASE k # i
        <5>1. i \in Nat /\ k \in Nat \ {0}
          OBVIOUS
        <5>2. k \in 1 .. i - 1
          BY <1>4, <4>2, <5>1
        <5>3. QED
          BY <1>1, <5>2
      <4>3. QED
        BY <4>1, <4>2
    <3>5. QED
      BY <3>3, <3>4
  <2>3. QED
    BY <1>2, <2>1, <2>2 DEF Earlier
<1>5. QED
  BY <1>3, <1>4

LEMMA EarlierTotal ==
    ASSUME NEW s \in Seq(Nat), NEW t \in Seq(Nat), s # t
    PROVE  Earlier(s, t) \/ Earlier(t, s)
<1> DEFINE Same(i) == i \in DOMAIN s /\ i \in DOMAIN t /\ s[i] = t[i]
           D == {i \in DOMAIN s \cup DOMAIN t : ~Same(i)}
<1>1. D # {}
  <2>1. SUFFICES ASSUME D = {} PROVE s = t
    OBVIOUS
  <2>2. \A i \in DOMAIN s \cup DOMAIN t : Same(i)
    BY <2>1
  <2>3. DOMAIN s = DOMAIN t
    BY <2>2
  <2>4. Len(s) = Len(t)
    BY <2>3
  <2>5. QED
    BY <2>2, <2>4
<1>2. D \in SUBSET Nat
  OBVIOUS
<1>3. PICK k \in D : \A j \in D : ~(j < k)
  <2> HIDE DEF D
  <2>1. QED
    BY <1>1, <1>2, LeastPosition
<1>4. k \in Nat \ {0} /\ ~Same(k)
  BY <1>3
<1>5. \A j \in 1 .. k - 1 : Same(j)
  <2>1. SUFFICES ASSUME NEW j \in 1 .. k - 1 PROVE Same(j)
    OBVIOUS
  <2>2. j \in DOMAIN s \cup DOMAIN t
    BY <1>3, <1>4
  <2>3. j < k
    BY <1>4
  <2>4. QED
    BY <1>3, <2>2, <2>3
<1>6. CASE k \notin DOMAIN s
  BY <1>3, <1>5, <1>6 DEF Earlier
<1>7. CASE k \notin DOMAIN t
  BY <1>3, <1>5, <1>7 DEF Earlier
<1>8. CASE k \in DOMAIN s /\ k \in DOMAIN t
  <2>1. s[k] \in Nat /\ t[k] \in Nat /\ s[k] # t[k]
    BY <1>4, <1>8
  <2>2. s[k] < t[k] \/ t[k] < s[k]
    BY <2>1
  <2>3. QED
    BY <1>5, <1>8, <2>2 DEF Earlier
<1>9. QED
  BY <1>6, <1>7, <1>8

(* The first part of the key is a weak order on the records, and node_id     *)
(* decides where it does not: no two records are left in no order.           *)
LEMMA RowFacts ==
    ASSUME NEW r \in Rows
    PROVE  /\ r.id \in Nat /\ r.updated \in Nat
           /\ Fold[r.title] \in Seq(Nat)
<1>1. r.id \in Id /\ r.updated \in 0 .. MaxTime /\ r.title \in DOMAIN Fold
  BY DEF Rows
<1>2. r.id \in Nat
  BY <1>1, IdAssumption, Zenon
<1>3. r.updated \in Nat
  BY <1>1, BoundAssumption
<1>4. Fold[r.title] \in Seq(Nat)
  BY <1>1, TitleAssumption
<1>5. QED
  BY <1>2, <1>3, <1>4

LEMMA KeyOrder ==
    ASSUME NEW sort, NEW a \in Rows, NEW b \in Rows, NEW c \in Rows
    PROVE  /\ ~KeyBefore(sort, a, a)
           /\ KeyBefore(sort, a, b) /\ KeyBefore(sort, b, c) => KeyBefore(sort, a, c)
           /\ KeyBefore(sort, a, c) => KeyBefore(sort, a, b) \/ KeyBefore(sort, b, c)
<1> DEFINE s == Fold[a.title]
           t == Fold[b.title]
           u == Fold[c.title]
<1>1. s \in Seq(Nat) /\ t \in Seq(Nat) /\ u \in Seq(Nat)
  BY RowFacts
<1>2. a.updated \in Nat /\ b.updated \in Nat /\ c.updated \in Nat
  BY RowFacts
<1>3. /\ ~Earlier(s, s)
      /\ Earlier(s, t) /\ Earlier(t, u) => Earlier(s, u)
      /\ Earlier(s, u) => Earlier(s, t) \/ Earlier(t, u)
  <2> HIDE DEF s, t, u
  <2>1. ~Earlier(s, s) /\ (Earlier(s, t) /\ Earlier(t, u) => Earlier(s, u))
    BY <1>1, EarlierIrreflexive, EarlierTransitive
  <2>2. ASSUME Earlier(s, u), ~Earlier(s, t) PROVE Earlier(t, u)
    <3>1. s = t \/ Earlier(t, s)
      BY <1>1, <2>2, EarlierTotal
    <3>2. QED
      BY <1>1, <2>2, <3>1, EarlierTransitive
  <2>3. QED
    BY <2>1, <2>2
<1>4. CASE sort \in {"title_asc", "title_desc"}
  BY <1>3, <1>4 DEF KeyBefore
<1>5. CASE sort \notin {"title_asc", "title_desc"}
  BY <1>2, <1>5 DEF KeyBefore
<1>6. QED
  BY <1>4, <1>5

LEMMA BeforeOrder ==
    ASSUME NEW sort, NEW a \in Rows, NEW b \in Rows, NEW c \in Rows
    PROVE  /\ ~Before(sort, a, a)
           /\ Before(sort, a, b) /\ Before(sort, b, c) => Before(sort, a, c)
           /\ a.id # b.id => Before(sort, a, b) \/ Before(sort, b, a)
<1> DEFINE Up(x, y) == KeyBefore(sort, x, y) \/ (~KeyBefore(sort, y, x) /\ x.id < y.id)
<1>1. \A x, y, z \in Rows :
          /\ ~KeyBefore(sort, x, x)
          /\ KeyBefore(sort, x, y) /\ KeyBefore(sort, y, z) => KeyBefore(sort, x, z)
          /\ KeyBefore(sort, x, z) => KeyBefore(sort, x, y) \/ KeyBefore(sort, y, z)
  BY KeyOrder
<1>2. \A x \in Rows : x.id \in Nat
  BY RowFacts
<1>3. \A x \in Rows : ~Up(x, x)
  BY <1>1, <1>2
<1>4. \A x, y, z \in Rows : Up(x, y) /\ Up(y, z) => Up(x, z)
  BY <1>1, <1>2
<1>5. \A x, y \in Rows : x.id # y.id => Up(x, y) \/ Up(y, x)
  BY <1>1, <1>2
<1>6. \A x, y : Before(sort, x, y)
                    = IF sort \in {"updated_at_desc", "title_desc"} THEN Up(y, x) ELSE Up(x, y)
  BY DEF Before
<1> HIDE DEF Up
<1>7. QED
  BY <1>3, <1>4, <1>5, <1>6

LEMMA BeforeInOrder ==
    ASSUME NEW sort, NEW a \in Rows, NEW b \in Rows, Before(sort, a, b)
    PROVE  InOrder(sort, a, b)
<1>1. \A x, y \in Rows : KeyBefore(sort, x, y) => ~KeyBefore(sort, y, x)
  BY KeyOrder
<1>2. QED
  BY <1>1 DEF Before, InOrder

-----------------------------------------------------------------------------
(* Counting what comes before                                                *)

(* In a finite set in a strict total order, L the pairs in that order, the   *)
(* number of elements up to one of them is its place in the list of all.     *)
Up(S, L) == [a \in S |-> Cardinality({b \in S : <<b, a>> \in L}) + 1]

LEMMA RankOrder ==
    ASSUME NEW S, IsFiniteSet(S), NEW L,
           \A a \in S : <<a, a>> \notin L,
           \A a, b, c \in S : <<a, b>> \in L /\ <<b, c>> \in L => <<a, c>> \in L,
           \A a, b \in S : a = b \/ <<a, b>> \in L \/ <<b, a>> \in L
    PROVE  /\ Up(S, L) \in Bijection(S, 1 .. Cardinality(S))
           /\ \A a, b \in S : Up(S, L)[a] < Up(S, L)[b] <=> <<a, b>> \in L
<1> DEFINE D(a) == {b \in S : <<b, a>> \in L}
           N == Cardinality(S)
           f == Up(S, L)
<1>1. N \in Nat
  BY FS_CardinalityType
<1>2. \A a \in S : IsFiniteSet(D(a)) /\ Cardinality(D(a)) \in Nat /\ Cardinality(D(a)) < N
  <2>1. SUFFICES ASSUME NEW a \in S
                 PROVE  IsFiniteSet(D(a)) /\ Cardinality(D(a)) \in Nat /\ Cardinality(D(a)) < N
    OBVIOUS
  <2>2. D(a) \in SUBSET S /\ a \notin D(a)
    OBVIOUS
  <2> HIDE DEF D
  <2>3. IsFiniteSet(D(a)) /\ Cardinality(D(a)) <= N /\ (N = Cardinality(D(a)) => S = D(a))
    BY <2>2, FS_Subset
  <2>4. Cardinality(D(a)) \in Nat
    BY <2>3, FS_CardinalityType
  <2>5. QED
    BY <1>1, <2>2, <2>3, <2>4
<1>3. \A a, b \in S : <<a, b>> \in L => Cardinality(D(a)) < Cardinality(D(b))
  <2>1. SUFFICES ASSUME NEW a \in S, NEW b \in S, <<a, b>> \in L
                 PROVE  Cardinality(D(a)) < Cardinality(D(b))
    OBVIOUS
  <2>2. D(a) \in SUBSET D(b)
    BY <2>1
  <2>3. a \in D(b) /\ a \notin D(a)
    BY <2>1
  <2> HIDE DEF D
  <2>4. Cardinality(D(a)) <= Cardinality(D(b)) /\ (Cardinality(D(b)) = Cardinality(D(a)) => D(b) = D(a))
    BY <1>2, <2>2, FS_Subset
  <2>5. QED
    BY <1>2, <2>3, <2>4
<1>4. \A a \in S : f[a] = Cardinality(D(a)) + 1
  BY DEF Up
<1> HIDE DEF D
<1>5. f \in [S -> 1 .. N]
  <2>1. DOMAIN f = S /\ f = [a \in S |-> f[a]]
    BY DEF Up
  <2>2. \A a \in S : f[a] \in 1 .. N
    BY <1>1, <1>2, <1>4
  <2> HIDE DEF f
  <2>3. QED
    BY <2>1, <2>2
<1>6. \A a, b \in S : f[a] < f[b] <=> <<a, b>> \in L
  <2>1. \A a, b \in S : <<a, b>> \in L => f[a] < f[b]
    BY <1>2, <1>3, <1>4
  <2>2. \A a \in S : f[a] \in Nat
    BY <1>2, <1>4
  <2> HIDE DEF f
  <2>3. ASSUME NEW a \in S, NEW b \in S, f[a] < f[b] PROVE <<a, b>> \in L
    <3>1. CASE a = b
      BY <2>2, <2>3, <3>1
    <3>2. CASE <<b, a>> \in L
      <4>1. f[b] < f[a]
        BY <2>1, <3>2
      <4>2. QED
        BY <2>2, <2>3, <4>1
    <3>3. QED
      BY <3>1, <3>2
  <2>4. QED
    BY <2>1, <2>3
<1>7. \A a, b \in S : f[a] = f[b] => a = b
  <2>1. \A a \in S : f[a] \in Nat
    BY <1>2, <1>4
  <2> HIDE DEF f
  <2>2. QED
    BY <1>6, <2>1
<1>8. f \in Injection(S, 1 .. N)
  <2> HIDE DEF f
  <2>1. QED
    BY <1>5, <1>7 DEF Injection, IsInjective
<1>9. Cardinality(1 .. N) = N /\ IsFiniteSet(1 .. N)
  BY <1>1, FS_Interval
<1>10. f \in Surjection(S, 1 .. N)
  <2> HIDE DEF f
  <2>1. QED
    BY <1>8, <1>9, FS_Injection
<1>11. QED
  BY <1>6, <1>8, <1>10 DEF Bijection

(* The two pages' ends: Min of two numbers.                                  *)
LEMMA MinOfTwo ==
    ASSUME NEW a \in Nat, NEW b \in Nat
    PROVE  Min({a, b}) = IF a <= b THEN a ELSE b
<1>1. \E x \in {a, b} : \A y \in {a, b} : x <= y
  OBVIOUS
<1>2. Min({a, b}) \in {a, b} /\ \A y \in {a, b} : Min({a, b}) <= y
  BY <1>1 DEF Min
<1>3. QED
  BY <1>2

-----------------------------------------------------------------------------
(* sorted() over records with ids of their own: every one of them once, each *)
(* at the place the number of those before it gives.                         *)
Firsts(sort, list, S) == {p \in S \X S : Before(sort, list[p[1]], list[p[2]])}

LEMMA SortedList ==
    ASSUME NEW sort, NEW list \in Seq(Rows), NEW S \in SUBSET DOMAIN list,
           \A i, j \in DOMAIN list : list[i].id = list[j].id => i = j
    PROVE  LET f == Sorted(sort, list, S)
               rank == Up(S, Firsts(sort, list, S))
           IN  /\ IsFiniteSet(S) /\ Cardinality(S) \in Nat
               /\ f \in Seq(Rows) /\ Len(f) = Cardinality(S)
               /\ rank \in Bijection(S, 1 .. Cardinality(S))
               /\ \A i, j \in S : rank[i] < rank[j] <=> Before(sort, list[i], list[j])
               /\ \A i \in S : f[rank[i]] = list[i]
<1> DEFINE L == Firsts(sort, list, S)
           f == Sorted(sort, list, S)
           rank == Up(S, L)
           N == Cardinality(S)
<1>1. \A i \in S : i \in DOMAIN list /\ list[i] \in Rows
  OBVIOUS
<1>2. IsFiniteSet(S) /\ N \in Nat
  <2>1. Len(list) \in Nat /\ DOMAIN list = 1 .. Len(list)
    OBVIOUS
  <2>2. IsFiniteSet(1 .. Len(list))
    BY <2>1, FS_Interval
  <2>3. QED
    BY <2>1, <2>2, FS_Subset, FS_CardinalityType
<1>3. \A i, j \in S : <<i, j>> \in L <=> Before(sort, list[i], list[j])
  BY DEF Firsts
<1>4. /\ \A i \in S : <<i, i>> \notin L
      /\ \A i, j, k \in S : <<i, j>> \in L /\ <<j, k>> \in L => <<i, k>> \in L
      /\ \A i, j \in S : i = j \/ <<i, j>> \in L \/ <<j, i>> \in L
  <2>1. \A i, j, k \in S : /\ ~Before(sort, list[i], list[i])
                           /\ Before(sort, list[i], list[j]) /\ Before(sort, list[j], list[k])
                                 => Before(sort, list[i], list[k])
                           /\ list[i].id # list[j].id
                                 => Before(sort, list[i], list[j]) \/ Before(sort, list[j], list[i])
    BY <1>1, BeforeOrder
  <2>2. \A i, j \in S : i # j => list[i].id # list[j].id
    BY <1>1
  <2> HIDE DEF L
  <2>3. QED
    BY <1>3, <2>1, <2>2
<1> HIDE DEF L
<1>5. /\ rank \in Bijection(S, 1 .. N)
      /\ \A i, j \in S : rank[i] < rank[j] <=> <<i, j>> \in L
  BY <1>2, <1>4, RankOrder
<1>6. f = [k \in 1 .. N |-> list[CHOOSE i \in S : rank[i] = k]]
  <2> DEFINE First(i, j) == \/ Before(sort, list[i], list[j])
                            \/ ~Before(sort, list[j], list[i]) /\ i < j
             own == [i \in S |-> Cardinality({j \in S : First(j, i)}) + 1]
  <2>1. \A i, j \in S : First(j, i) <=> <<j, i>> \in L
    <3>1. SUFFICES ASSUME NEW i \in S, NEW j \in S PROVE First(j, i) <=> <<j, i>> \in L
      OBVIOUS
    <3>2. i = j => ~(j < i)
      BY <1>1
    <3>3. QED
      BY <1>3, <1>4, <3>2
  <2>2. \A i \in S : {j \in S : First(j, i)} = {j \in S : <<j, i>> \in L}
    BY <2>1
  <2>3. own = rank
    <3> HIDE DEF First
    <3>1. QED
      BY <2>2 DEF Up
  <2>4. f = [k \in 1 .. N |-> list[CHOOSE i \in S : own[i] = k]]
    BY DEF Sorted
  <2> HIDE DEF own, rank
  <2>5. QED
    BY <2>3, <2>4
<1> HIDE DEF rank, f
<1>7. \A k \in 1 .. N : (CHOOSE i \in S : rank[i] = k) \in S /\ rank[CHOOSE i \in S : rank[i] = k] = k
  <2>1. \A k \in 1 .. N : \E i \in S : rank[i] = k
    BY <1>5 DEF Bijection, Surjection
  <2>2. QED
    BY <2>1
<1>8. \A k \in 1 .. N : f[k] \in Rows
  BY <1>1, <1>6, <1>7
<1>9. f \in Seq(Rows) /\ Len(f) = N
  <2>1. f \in [1 .. N -> Rows]
    BY <1>6, <1>8
  <2>2. QED
    BY <1>2, <2>1
<1>10. \A i \in S : f[rank[i]] = list[i]
  <2>1. SUFFICES ASSUME NEW i \in S PROVE f[rank[i]] = list[i]
    OBVIOUS
  <2>2. rank[i] \in 1 .. N
    BY <1>5 DEF Bijection, Surjection
  <2>3. (CHOOSE j \in S : rank[j] = rank[i]) = i
    <3>1. \A j \in S : rank[j] = rank[i] => j = i
      BY <1>5 DEF Bijection, Injection, IsInjective
    <3>2. QED
      BY <3>1
  <2>4. QED
    BY <1>6, <2>2, <2>3
<1>11. QED
  BY <1>2, <1>3, <1>5, <1>9, <1>10 DEF rank, f, L

(* The records a query asks for, and the place of each in the whole answer:  *)
(* what the pages, put one after the other, should come to.                  *)
Wanted(q) == {n \in DOMAIN rows : Passes(q, rows[n])}
Ahead(q) == {p \in Wanted(q) \X Wanted(q) : Before(q.sort, rows[p[1]], rows[p[2]])}
Place(q) == Up(Wanted(q), Ahead(q))

RowsOk ==
    /\ DOMAIN rows \subseteq Id /\ IsFiniteSet(DOMAIN rows)
    /\ rows \in [DOMAIN rows -> Rows]
    /\ \A n \in DOMAIN rows : rows[n].id = n

LEMMA PlaceOrder ==
    ASSUME RowsOk, NEW q
    PROVE  /\ IsFiniteSet(Wanted(q)) /\ Cardinality(Wanted(q)) \in Nat
           /\ Place(q) \in Bijection(Wanted(q), 1 .. Cardinality(Wanted(q)))
           /\ \A m, n \in Wanted(q) :
                 Place(q)[m] < Place(q)[n] <=> Before(q.sort, rows[m], rows[n])
<1> DEFINE W == Wanted(q)
           L == Ahead(q)
<1>1. IsFiniteSet(W) /\ Cardinality(W) \in Nat
  <2>1. W \in SUBSET DOMAIN rows
    BY DEF Wanted
  <2> HIDE DEF W
  <2>2. QED
    BY <2>1, FS_Subset, FS_CardinalityType DEF RowsOk
<1>2. \A n \in W : rows[n] \in Rows /\ rows[n].id = n
  BY DEF Wanted, RowsOk
<1>3. \A m, n \in W : <<m, n>> \in L <=> Before(q.sort, rows[m], rows[n])
  BY DEF Ahead
<1> HIDE DEF W, L
<1>4. /\ \A n \in W : ~Before(q.sort, rows[n], rows[n])
      /\ \A k, m, n \in W : Before(q.sort, rows[k], rows[m]) /\ Before(q.sort, rows[m], rows[n])
                               => Before(q.sort, rows[k], rows[n])
      /\ \A m, n \in W : m # n => Before(q.sort, rows[m], rows[n]) \/ Before(q.sort, rows[n], rows[m])
  <2>1. \A n \in W : ~Before(q.sort, rows[n], rows[n])
    BY <1>2, BeforeOrder
  <2>2. ASSUME NEW k \in W, NEW m \in W, NEW n \in W,
               Before(q.sort, rows[k], rows[m]), Before(q.sort, rows[m], rows[n])
        PROVE  Before(q.sort, rows[k], rows[n])
    <3>1. rows[k] \in Rows /\ rows[m] \in Rows /\ rows[n] \in Rows
      BY <1>2
    <3>2. QED
      BY <2>2, <3>1, BeforeOrder
  <2>3. ASSUME NEW m \in W, NEW n \in W, m # n
        PROVE  Before(q.sort, rows[m], rows[n]) \/ Before(q.sort, rows[n], rows[m])
    <3>1. rows[m] \in Rows /\ rows[n] \in Rows /\ rows[m].id # rows[n].id
      BY <1>2, <2>3
    <3>2. QED
      BY <3>1, BeforeOrder
  <2>4. QED
    BY <2>1, <2>2, <2>3
<1>5. /\ \A n \in W : <<n, n>> \notin L
      /\ \A k, m, n \in W : <<k, m>> \in L /\ <<m, n>> \in L => <<k, n>> \in L
      /\ \A m, n \in W : m = n \/ <<m, n>> \in L \/ <<n, m>> \in L
  BY <1>3, <1>4
<1>6. /\ Up(W, L) \in Bijection(W, 1 .. Cardinality(W))
      /\ \A m, n \in W : Up(W, L)[m] < Up(W, L)[n] <=> <<m, n>> \in L
  BY <1>1, <1>5, RankOrder
<1>7. QED
  BY <1>1, <1>3, <1>6 DEF Place, W, L

Answered(q, got) == Sorted(q.sort, got, {i \in DOMAIN got : Passes(q, got[i])})

(* A scan that has read every row as it is: its answer is all that the query *)
(* asks for, each record at its place.                                       *)
LEMMA WholeAnswer ==
    ASSUME RowsOk, NEW q, NEW got \in Seq(Rows),
           \A i, j \in DOMAIN got : got[i].id = got[j].id => i = j,
           \A n \in DOMAIN rows : \E i \in DOMAIN got : got[i].id = n,
           \A i \in DOMAIN got : got[i].id \in DOMAIN rows /\ got[i] = rows[got[i].id]
    PROVE  /\ Len(Answered(q, got)) = Cardinality(Wanted(q))
           /\ \A k \in 1 .. Len(Answered(q, got)) :
                 /\ Answered(q, got)[k].id \in Wanted(q)
                 /\ Place(q)[Answered(q, got)[k].id] = k
<1> DEFINE S == {i \in DOMAIN got : Passes(q, got[i])}
           f == Sorted(q.sort, got, S)
           L == Firsts(q.sort, got, S)
           rank == Up(S, L)
           W == Wanted(q)
           id == [i \in S |-> got[i].id]
<1>1. S \in SUBSET DOMAIN got
  OBVIOUS
<1>2. /\ IsFiniteSet(S) /\ Cardinality(S) \in Nat
      /\ f \in Seq(Rows) /\ Len(f) = Cardinality(S)
      /\ rank \in Bijection(S, 1 .. Cardinality(S))
      /\ \A i \in S : f[rank[i]] = got[i]
  <2> HIDE DEF S
  <2>1. QED
    BY <1>1, SortedList
<1>3. \A i \in S : got[i].id \in W /\ got[i] = rows[got[i].id]
  BY DEF Wanted
<1>4. \A n \in W : \E i \in S : got[i].id = n
  BY DEF Wanted
<1>5. \A i, j \in S : got[i].id = got[j].id => i = j
  OBVIOUS
<1>6. \A i, j \in S : <<i, j>> \in L <=> <<got[i].id, got[j].id>> \in Ahead(q)
  BY <1>3 DEF Firsts, Ahead
<1> HIDE DEF S, W
<1>7. id \in [S -> W] /\ \A i \in S : id[i] = got[i].id
  BY <1>3
<1> HIDE DEF id, L
<1>8. id \in Bijection(S, W)
  BY <1>4, <1>5, <1>7 DEF Bijection, Injection, Surjection, IsInjective
<1>9. IsFiniteSet(W) /\ Cardinality(W) = Cardinality(S)
  BY <1>2, <1>8, FS_Bijection DEF ExistsBijection
<1>10. \A i \in S : rank[i] = Place(q)[got[i].id]
  <2>1. SUFFICES ASSUME NEW i \in S PROVE rank[i] = Place(q)[got[i].id]
    OBVIOUS
  <2> DEFINE A == {j \in S : <<j, i>> \in L}
             B == {n \in W : <<n, got[i].id>> \in Ahead(q)}
             part == [j \in A |-> id[j]]
  <2>2. rank[i] = Cardinality(A) + 1
    BY DEF Up
  <2>3. Place(q)[got[i].id] = Cardinality(B) + 1
    BY <1>3 DEF Place, Up, W
  <2>4. part \in Bijection(A, B)
    <3>1. part \in [A -> B]
      BY <1>6, <1>7
    <3>2. \A n \in B : \E j \in A : part[j] = n
      <4>1. SUFFICES ASSUME NEW n \in B PROVE \E j \in A : part[j] = n
        OBVIOUS
      <4>2. PICK j \in S : got[j].id = n
        BY <1>4
      <4>3. j \in A
        BY <1>6, <4>2
      <4>4. part[j] = n
        BY <1>7, <4>2, <4>3
      <4>5. QED
        BY <4>3, <4>4
    <3>3. \A j, k \in A : part[j] = part[k] => j = k
      BY <1>5, <1>7
    <3> HIDE DEF part, A, B
    <3>4. QED
      BY <3>1, <3>2, <3>3 DEF Bijection, Injection, Surjection, IsInjective
  <2>5. IsFiniteSet(A)
    <3>1. A \in SUBSET S
      OBVIOUS
    <3> HIDE DEF A
    <3>2. QED
      BY <1>2, <3>1, FS_Subset
  <2> HIDE DEF part, A, B
  <2>6. Cardinality(A) = Cardinality(B)
    BY <2>4, <2>5, FS_Bijection DEF ExistsBijection
  <2>7. QED
    BY <2>2, <2>3, <2>6
<1> HIDE DEF rank, f
<1>11. \A k \in 1 .. Len(f) : f[k].id \in W /\ Place(q)[f[k].id] = k
  <2>1. SUFFICES ASSUME NEW k \in 1 .. Len(f) PROVE f[k].id \in W /\ Place(q)[f[k].id] = k
    OBVIOUS
  <2>2. PICK i \in S : rank[i] = k
    BY <1>2 DEF Bijection, Surjection
  <2>3. f[k] = got[i]
    BY <1>2, <2>2
  <2>4. QED
    BY <1>3, <1>10, <2>2, <2>3
<1>12. QED
  <2>1. f = Answered(q, got)
    BY DEF f, S, Answered
  <2>2. QED
    BY <1>2, <1>9, <1>11, <2>1 DEF W

(* The same, in one piece each.                                              *)
ReadAll(got) ==
    /\ got \in Seq(Rows)
    /\ \A i, j \in DOMAIN got : got[i].id = got[j].id => i = j
    /\ \A n \in DOMAIN rows : \E i \in DOMAIN got : got[i].id = n
    /\ \A i \in DOMAIN got : got[i].id \in DOMAIN rows /\ got[i] = rows[got[i].id]

InPlace(q, list) ==
    /\ Len(list) = Cardinality(Wanted(q))
    /\ \A k \in 1 .. Len(list) : list[k].id \in Wanted(q) /\ Place(q)[list[k].id] = k

LEMMA ReadAllAnswer ==
    ASSUME RowsOk, NEW q, NEW got, ReadAll(got)
    PROVE  InPlace(q, Answered(q, got))
<1>1. got \in Seq(Rows)
  BY DEF ReadAll
<1>2. \A i, j \in DOMAIN got : got[i].id = got[j].id => i = j
  BY DEF ReadAll
<1>3. \A n \in DOMAIN rows : \E i \in DOMAIN got : got[i].id = n
  BY DEF ReadAll
<1>4. \A i \in DOMAIN got : got[i].id \in DOMAIN rows /\ got[i] = rows[got[i].id]
  BY DEF ReadAll
<1>5. QED
  BY <1>1, <1>2, <1>3, <1>4, WholeAnswer DEF InPlace

Start(q, page, n) == IF page * q.size <= n THEN page * q.size ELSE n
End(q, page, n) == IF Start(q, page, n) + q.size <= n THEN Start(q, page, n) + q.size ELSE n

(* The page: size records from page * size on, as far as there are so many.  *)
LEMMA PageFacts ==
    ASSUME NEW q, q.size \in Nat \ {0}, NEW page \in Nat, NEW list \in Seq(Rows)
    PROVE  /\ Start(q, page, Len(list)) \in 0 .. Len(list)
           /\ End(q, page, Len(list)) \in Start(q, page, Len(list)) .. Len(list)
           /\ PageOf(q, page, list) \in Seq(Rows)
           /\ Len(PageOf(q, page, list)) = End(q, page, Len(list)) - Start(q, page, Len(list))
           /\ \A i \in 1 .. End(q, page, Len(list)) - Start(q, page, Len(list)) :
                 PageOf(q, page, list)[i] = list[Start(q, page, Len(list)) + i]
<1> DEFINE N == Len(list)
           from == page * q.size
           start == Start(q, page, N)
           end == End(q, page, N)
<1>1. N \in Nat /\ from \in Nat /\ q.size \in Nat \ {0}
  OBVIOUS
<1>0. /\ start = IF from <= N THEN from ELSE N
      /\ end = IF start + q.size <= N THEN start + q.size ELSE N
  BY DEF Start, End
<1> HIDE DEF from, start, end
<1>2. start \in 0 .. N /\ end \in start .. N /\ start + q.size \in Nat /\ start \in Nat
  BY <1>0, <1>1
<1>3. Min({from, N}) = start
  BY <1>0, <1>1, MinOfTwo
<1>4. Min({start + q.size, N}) = end
  BY <1>0, <1>1, <1>2, MinOfTwo
<1>5. PageOf(q, page, list) = SubSeq(list, start + 1, end)
  BY <1>3, <1>4 DEF PageOf, from
<1>6. \A i \in start + 1 .. end : list[i] \in Rows
  BY <1>2
<1>7. /\ SubSeq(list, start + 1, end) \in Seq(Rows)
      /\ Len(SubSeq(list, start + 1, end)) = IF start + 1 <= end THEN end - (start + 1) + 1 ELSE 0
      /\ \A i \in 1 .. end - (start + 1) + 1 :
            SubSeq(list, start + 1, end)[i] = list[(start + 1) + i - 1]
  <2>1. start + 1 \in Int /\ end \in Int
    BY <1>1, <1>2
  <2>2. QED
    BY <1>6, <2>1, SubSeqProperties
<1>8. Len(SubSeq(list, start + 1, end)) = end - start
  BY <1>1, <1>2, <1>7
<1>9. \A i \in 1 .. end - start : SubSeq(list, start + 1, end)[i] = list[start + i]
  <2>1. SUFFICES ASSUME NEW i \in 1 .. end - start
                 PROVE  SubSeq(list, start + 1, end)[i] = list[start + i]
    OBVIOUS
  <2>2. i \in 1 .. end - (start + 1) + 1 /\ (start + 1) + i - 1 = start + i
    BY <1>1, <1>2
  <2>3. QED
    BY <1>7, <2>2
<1>10. QED
  BY <1>2, <1>5, <1>7, <1>8, <1>9 DEF start, end

(* The ids as the database lists them: each once, in some order.             *)
LEMMA ListedOnce ==
    ASSUME NEW S, IsFiniteSet(S), NEW ids \in SetToSeqs(S)
    PROVE  /\ ids \in Seq(S)
           /\ \A i, j \in DOMAIN ids : ids[i] = ids[j] => i = j
           /\ \A n \in S : \E i \in DOMAIN ids : ids[i] = n
<1> DEFINE N == Cardinality(S)
<1>1. N \in Nat
  BY FS_CardinalityType
<1>2. ids \in [1 .. N -> S] /\ \A i, j \in 1 .. N : i # j => ids[i] # ids[j]
  BY DEF SetToSeqs
<1>3. ids \in Injection(1 .. N, S)
  BY <1>2 DEF Injection, IsInjective
<1>4. Cardinality(1 .. N) = N
  BY <1>1, FS_Interval
<1>5. ids \in Surjection(1 .. N, S)
  <2> HIDE DEF N
  <2>1. N = Cardinality(S)
    BY DEF N
  <2>2. QED
    BY <1>3, <1>4, <2>1, FS_Injection
<1>6. ids \in Seq(S) /\ DOMAIN ids = 1 .. N
  BY <1>1, <1>2
<1>7. QED
  BY <1>2, <1>5, <1>6 DEF Surjection

-----------------------------------------------------------------------------
(* The invariant                                                             *)
Open == {"scanning", "answered", "past"}

Shape ==
    /\ now \in 0 .. MaxTime
    /\ scan \in [state: Open \cup {"idle", "failed", "refused"}, page: Nat, left: Seq(Id),
                 got: Seq(Rows), total: Nat, steady: SUBSET Id]
    /\ walk = NoWalk \/ walk \in [state: {"reading"}, query: Requests, hits: Seq(Id),
                                  writes: 0 .. MaxWrites]
    /\ scan.state = "idle" <=> walk = NoWalk
    /\ scan.state \in Open => Valid(walk.query, scan.page)
    /\ scan.state \in {"answered", "past"} => scan.left = << >>

(* No id is listed twice, so no row is read twice.                           *)
Single ==
    /\ \A i, j \in DOMAIN scan.left : scan.left[i] = scan.left[j] => i = j
    /\ \A i, j \in DOMAIN scan.got : scan.got[i].id = scan.got[j].id => i = j
    /\ \A i \in DOMAIN scan.left, j \in DOMAIN scan.got : scan.left[i] # scan.got[j].id

(* A row that no hook has touched is still to be read, or was read as it is. *)
Covered ==
    /\ scan.steady \subseteq DOMAIN rows
    /\ scan.state \in Open =>
          \A n \in scan.steady : \/ \E i \in DOMAIN scan.left : scan.left[i] = n
                                 \/ \E i \in DOMAIN scan.got : scan.got[i] = rows[n]

(* Where no hook ran, all rows are untouched and what was read is theirs.    *)
Untouched ==
    scan.state \in Open /\ walk.writes = 0 =>
        /\ scan.steady = DOMAIN rows
        /\ \A i \in DOMAIN scan.got :
              scan.got[i].id \in DOMAIN rows /\ scan.got[i] = rows[scan.got[i].id]

(* And the pages read so far are the beginning of the whole answer.          *)
Prefix ==
    scan.state \in Open /\ walk.writes = 0 =>
        LET size == walk.query.size
            read == scan.page * size + (IF scan.state = "scanning" THEN 0 ELSE size)
            all == Cardinality(Wanted(walk.query))
        IN  /\ Len(walk.hits) = IF read <= all THEN read ELSE all
            /\ \A i \in DOMAIN walk.hits :
                  walk.hits[i] \in Wanted(walk.query) /\ Place(walk.query)[walk.hits[i]] = i
            /\ scan.state # "scanning" => scan.total = all
            /\ scan.state = "past" => Len(walk.hits) = all

PagesInv == RowsOk /\ Shape /\ Single /\ Covered /\ Untouched /\ Prefix

LEMMA InitInv ==
    ASSUME Init
    PROVE  PagesInv
<1>1. PICK S \in SUBSET Id : \E c \in [S -> Content], time \in [S -> 0 .. MaxTime] :
          rows = [n \in S |-> RowOf(n, c[n], time[n])]
  BY DEF Init
<1>2. PICK c \in [S -> Content], time \in [S -> 0 .. MaxTime] :
          rows = [n \in S |-> RowOf(n, c[n], time[n])]
  BY <1>1
<1>3. RowsOk
  <2>1. DOMAIN rows = S /\ \A n \in S : rows[n] = RowOf(n, c[n], time[n])
    BY <1>2
  <2>2. \A n \in S : rows[n] \in Rows /\ rows[n].id = n
    BY <1>2, <2>1, TitleAssumption DEF RowOf, Rows
  <2>3. IsFiniteSet(S)
    BY IdAssumption, FS_Subset
  <2>4. rows \in [S -> Rows]
    BY <1>2, <2>1, <2>2
  <2>5. QED
    BY <2>1, <2>2, <2>3, <2>4 DEF RowsOk
<1>4. scan = NoScan /\ walk = NoWalk /\ now \in 0 .. MaxTime
  BY DEF Init
<1>5. Shape
  BY <1>4 DEF Shape, NoScan, Open
<1>6. Single /\ Covered /\ Untouched /\ Prefix
  BY <1>4 DEF Single, Covered, Untouched, Prefix, NoScan, Open
<1>7. QED
  BY <1>3, <1>5, <1>6 DEF PagesInv

(* A request begins with nothing read and every id still to be read, or it   *)
(* is refused or fails.                                                      *)
LEMMA BeginFacts ==
    ASSUME RowsOk, NEW q, NEW page \in Nat, BeginSearch(q, page)
    PROVE  \/ \E st \in {"refused", "failed"} : scan' = [NoScan EXCEPT !.state = st, !.page = page]
           \/ /\ Valid(q, page)
              /\ scan' \in [state: {"scanning"}, page: {page}, left: Seq(Id), got: {<< >>},
                            total: {0}, steady: {DOMAIN rows}]
              /\ \A i, j \in DOMAIN scan'.left : scan'.left[i] = scan'.left[j] => i = j
              /\ \A n \in DOMAIN rows : \E i \in DOMAIN scan'.left : scan'.left[i] = n
              /\ \A i \in DOMAIN scan'.left : scan'.left[i] \in DOMAIN rows
<1>1. CASE scan' = [NoScan EXCEPT !.state = IF Valid(q, page) THEN "failed" ELSE "refused",
                                  !.page = page]
  BY <1>1
<1>2. ASSUME NEW ids \in SetToSeqs(DOMAIN rows), Valid(q, page),
             scan' = [NoScan EXCEPT !.state = "scanning", !.page = page, !.left = ids,
                                    !.steady = DOMAIN rows]
      PROVE  /\ scan' \in [state: {"scanning"}, page: {page}, left: Seq(Id), got: {<< >>},
                            total: {0}, steady: {DOMAIN rows}]
             /\ \A i, j \in DOMAIN scan'.left : scan'.left[i] = scan'.left[j] => i = j
             /\ \A n \in DOMAIN rows : \E i \in DOMAIN scan'.left : scan'.left[i] = n
             /\ \A i \in DOMAIN scan'.left : scan'.left[i] \in DOMAIN rows
  <2>1. /\ ids \in Seq(DOMAIN rows)
        /\ \A i, j \in DOMAIN ids : ids[i] = ids[j] => i = j
        /\ \A n \in DOMAIN rows : \E i \in DOMAIN ids : ids[i] = n
    BY ListedOnce DEF RowsOk
  <2>2. scan' = [state |-> "scanning", page |-> page, left |-> ids, got |-> << >>,
                 total |-> 0, steady |-> DOMAIN rows]
    BY <1>2 DEF NoScan
  <2>3. ids \in Seq(Id) /\ \A i \in DOMAIN ids : ids[i] \in DOMAIN rows
    BY <2>1 DEF RowsOk
  <2>4. QED
    BY <2>1, <2>2, <2>3
<1>3. QED
  BY <1>1, <1>2 DEF BeginSearch, AllNodeIds

LEMMA AskInv ==
    ASSUME PagesInv, NEW asked \in Query, Ask(asked)
    PROVE  PagesInv'
<1> DEFINE q == RequestOf(asked)
<1>1. walk' = [state |-> "reading", query |-> q, hits |-> << >>, writes |-> 0]
      /\ UNCHANGED <<rows, now>> /\ BeginSearch(q, 0)
      /\ q \in Requests
  BY DEF Ask, Requests
<1> HIDE DEF q
<1>2. RowsOk /\ now \in 0 .. MaxTime
  BY DEF PagesInv, Shape
<1>3. RowsOk'
  BY <1>1, <1>2 DEF RowsOk
<1>4. walk' # NoWalk /\ walk' \in [state: {"reading"}, query: Requests, hits: Seq(Id), writes: 0 .. MaxWrites]
  BY <1>1, BoundAssumption DEF NoWalk
<1>5. ASSUME NEW st \in {"refused", "failed"}, scan' = [NoScan EXCEPT !.state = st, !.page = 0]
      PROVE  PagesInv'
  <2>1. scan' = [state |-> st, page |-> 0, left |-> << >>, got |-> << >>,
                 total |-> 0, steady |-> {}]
    BY <1>5 DEF NoScan
  <2>2. Shape'
    BY <1>1, <1>2, <1>4, <2>1 DEF Shape, Open
  <2>3. QED
    BY <1>3, <2>1, <2>2 DEF PagesInv, Single, Covered, Untouched, Prefix, Open
<1>6. CASE /\ Valid(q, 0)
           /\ scan' \in [state: {"scanning"}, page: {0}, left: Seq(Id), got: {<< >>},
                         total: {0}, steady: {DOMAIN rows}]
           /\ \A i, j \in DOMAIN scan'.left : scan'.left[i] = scan'.left[j] => i = j
           /\ \A n \in DOMAIN rows : \E i \in DOMAIN scan'.left : scan'.left[i] = n
           /\ \A i \in DOMAIN scan'.left : scan'.left[i] \in DOMAIN rows
  <2>1. /\ scan'.state = "scanning" /\ scan'.page = 0 /\ scan'.got = << >>
        /\ scan'.steady = DOMAIN rows /\ scan'.left \in Seq(Id)
        /\ scan' \in [state: Open \cup {"idle", "failed", "refused"}, page: Nat, left: Seq(Id),
                      got: Seq(Rows), total: Nat, steady: SUBSET Id]
    <3>1. << >> \in Seq(Rows) /\ DOMAIN rows \in SUBSET Id /\ 0 \in Nat
      BY <1>2 DEF RowsOk
    <3>2. QED
      BY <1>6, <3>1 DEF Open
  <2>2. Shape'
    <3>1. Valid(walk'.query, scan'.page)
      BY <1>1, <1>6, <2>1
    <3>2. QED
      BY <1>1, <1>2, <1>4, <2>1, <3>1 DEF Shape, Valid
  <2>3. Single' /\ Covered' /\ Untouched'
    BY <1>1, <1>6, <2>1 DEF Single, Covered, Untouched
  <2>4. Prefix'
    <3>1. Cardinality(Wanted(walk.query))' \in Nat
      <4>1. Wanted(walk.query)' = Wanted(q)
        BY <1>1 DEF Wanted
      <4>2. QED
        BY <1>2, <4>1, PlaceOrder
    <3>2. walk'.query.size \in Nat
      BY <1>1, <1>6, BoundAssumption DEF Valid
    <3>3. scan'.page * walk'.query.size + 0 = 0 /\ walk'.hits = << >>
      BY <1>1, <2>1, <3>2
    <3>4. QED
      BY <2>1, <3>1, <3>3 DEF Prefix
  <2>5. QED
    BY <1>3, <2>2, <2>3, <2>4 DEF PagesInv
<1>7. QED
  BY <1>1, <1>2, <1>5, <1>6, BeginFacts

LEMMA NextPageInv ==
    ASSUME PagesInv, NextPage
    PROVE  PagesInv'
<1> DEFINE q == walk.query
           page == scan.page + 1
<1>1. UNCHANGED <<rows, now, walk>> /\ BeginSearch(q, page) /\ scan.state = "answered"
  BY DEF NextPage
<1>2. RowsOk /\ Shape /\ Prefix /\ RowsOk'
  BY <1>1 DEF PagesInv, RowsOk
<1>3. /\ walk # NoWalk /\ Valid(q, scan.page) /\ scan.page \in Nat /\ page \in Nat
      /\ walk \in [state: {"reading"}, query: Requests, hits: Seq(Id), writes: 0 .. MaxWrites]
  BY <1>1, <1>2 DEF Shape, Open
<1>4. ASSUME NEW st \in {"refused", "failed"}, scan' = [NoScan EXCEPT !.state = st, !.page = page]
      PROVE  PagesInv'
  <2>1. scan' = [state |-> st, page |-> page, left |-> << >>, got |-> << >>,
                 total |-> 0, steady |-> {}]
    BY <1>4 DEF NoScan
  <2>2. Shape'
    BY <1>1, <1>2, <1>3, <2>1 DEF Shape, Open
  <2>3. QED
    BY <1>2, <2>1, <2>2 DEF PagesInv, Single, Covered, Untouched, Prefix, Open
<1>5. CASE /\ Valid(q, page)
           /\ scan' \in [state: {"scanning"}, page: {page}, left: Seq(Id), got: {<< >>},
                         total: {0}, steady: {DOMAIN rows}]
           /\ \A i, j \in DOMAIN scan'.left : scan'.left[i] = scan'.left[j] => i = j
           /\ \A n \in DOMAIN rows : \E i \in DOMAIN scan'.left : scan'.left[i] = n
           /\ \A i \in DOMAIN scan'.left : scan'.left[i] \in DOMAIN rows
  <2>1. /\ scan'.state = "scanning" /\ scan'.page = page /\ scan'.got = << >>
        /\ scan'.steady = DOMAIN rows /\ scan'.left \in Seq(Id)
        /\ scan' \in [state: Open \cup {"idle", "failed", "refused"}, page: Nat, left: Seq(Id),
                      got: Seq(Rows), total: Nat, steady: SUBSET Id]
    <3>1. << >> \in Seq(Rows) /\ DOMAIN rows \in SUBSET Id /\ 0 \in Nat
      BY <1>2 DEF RowsOk
    <3> HIDE DEF page
    <3>2. QED
      BY <1>3, <1>5, <3>1 DEF Open
  <2>2. Shape'
    <3>1. Valid(walk'.query, scan'.page)
      BY <1>1, <1>5, <2>1
    <3>2. walk' # NoWalk' /\ now' \in 0 .. MaxTime
      BY <1>1, <1>2, <1>3 DEF NoWalk, Shape
    <3> HIDE DEF page
    <3>3. QED
      BY <1>1, <1>3, <2>1, <3>1, <3>2 DEF Shape, Valid
  <2>3. Single' /\ Covered' /\ Untouched'
    <3> HIDE DEF page
    <3>1. QED
      BY <1>1, <1>5, <2>1 DEF Single, Covered, Untouched
  <2>4. Prefix'
    <3> DEFINE size == walk.query.size
    <3>1. size \in Nat
      BY <1>3, BoundAssumption DEF Valid
    <3>2. page * size + 0 = scan.page * size + size
      <4> HIDE DEF size
      <4>1. QED
        BY <1>3, <3>1
    <3>3. Wanted(walk.query)' = Wanted(walk.query) /\ Place(walk.query)' = Place(walk.query)
      BY <1>1 DEF Wanted, Place, Ahead
    <3> HIDE DEF page
    <3>4. QED
      BY <1>1, <1>2, <2>1, <3>2, <3>3 DEF Prefix, Open
  <2>5. QED
    BY <1>2, <2>2, <2>3, <2>4 DEF PagesInv
<1>6. QED
  <2> HIDE DEF page
  <2>1. QED
    BY <1>1, <1>2, <1>3, <1>4, <1>5, BeginFacts

LEMMA FetchInv ==
    ASSUME PagesInv, Fetch
    PROVE  PagesInv'
<1> DEFINE n == Head(scan.left)
<1>1. UNCHANGED <<rows, now, walk>> /\ scan.state = "scanning" /\ scan.left # << >>
  BY DEF Fetch
<1>2. RowsOk /\ Shape /\ Single /\ Covered /\ Untouched /\ Prefix /\ RowsOk'
  BY <1>1 DEF PagesInv, RowsOk
<1>3. /\ scan.left \in Seq(Id) /\ scan.got \in Seq(Rows)
      /\ scan \in [state: Open \cup {"idle", "failed", "refused"}, page: Nat, left: Seq(Id),
                   got: Seq(Rows), total: Nat, steady: SUBSET Id]
  BY <1>2 DEF Shape
<1>4. /\ n \in Id /\ Tail(scan.left) \in Seq(Id)
      /\ 1 \in DOMAIN scan.left /\ n = scan.left[1]
      /\ \A i \in DOMAIN Tail(scan.left) : i + 1 \in DOMAIN scan.left
                                           /\ Tail(scan.left)[i] = scan.left[i + 1]
      /\ \A i \in DOMAIN scan.left : i # 1 => i - 1 \in DOMAIN Tail(scan.left)
                                              /\ Tail(scan.left)[i - 1] = scan.left[i]
  BY <1>1, <1>3
<1>5. CASE scan' = [scan EXCEPT !.state = "failed"]
  <2>1. /\ scan'.state = "failed" /\ scan'.left = scan.left /\ scan'.got = scan.got
        /\ scan'.steady = scan.steady
        /\ scan' \in [state: Open \cup {"idle", "failed", "refused"}, page: Nat, left: Seq(Id),
                      got: Seq(Rows), total: Nat, steady: SUBSET Id]
    BY <1>3, <1>5
  <2>2. Shape'
    BY <1>1, <1>2, <2>1 DEF Shape, Open, NoWalk
  <2>3. Single' /\ Covered' /\ Untouched' /\ Prefix'
    BY <1>1, <1>2, <2>1 DEF Single, Covered, Untouched, Prefix, Open
  <2>4. QED
    BY <1>2, <2>2, <2>3 DEF PagesInv
<1>6. CASE n \in DOMAIN rows /\ scan' = [scan EXCEPT !.left = Tail(@), !.got = Append(@, rows[n])]
  <2>1. scan' = [scan EXCEPT !.left = Tail(@), !.got = Append(@, rows[n])]
    BY <1>6
  <2>2. rows[n] \in Rows /\ rows[n].id = n
    BY <1>2, <1>6 DEF RowsOk
  <2>3. /\ scan'.state = "scanning" /\ scan'.left = Tail(scan.left)
        /\ scan'.got = Append(scan.got, rows[n]) /\ scan'.page = scan.page
        /\ scan'.steady = scan.steady /\ scan'.total = scan.total
        /\ scan' \in [state: Open \cup {"idle", "failed", "refused"}, page: Nat, left: Seq(Id),
                      got: Seq(Rows), total: Nat, steady: SUBSET Id]
    <3>1. Append(scan.got, rows[n]) \in Seq(Rows)
      BY <1>3, <2>2
    <3>2. QED
      BY <1>1, <1>3, <1>4, <2>1, <3>1
  <2>4. /\ \A j \in DOMAIN scan'.got : \/ j \in DOMAIN scan.got /\ scan'.got[j] = scan.got[j]
                                       \/ j = Len(scan.got) + 1 /\ scan'.got[j] = rows[n]
        /\ \A j \in DOMAIN scan.got : j \in DOMAIN scan'.got /\ scan'.got[j] = scan.got[j]
        /\ Len(scan.got) + 1 \in DOMAIN scan'.got /\ scan'.got[Len(scan.got) + 1] = rows[n]
    BY <1>3, <2>2, <2>3
  <2>5. Shape'
    BY <1>1, <1>2, <2>3 DEF Shape, Open, NoWalk, Valid
  <2>6. Single'
    <3>1. \A i, j \in DOMAIN scan'.left : scan'.left[i] = scan'.left[j] => i = j
      <4>1. SUFFICES ASSUME NEW i \in DOMAIN Tail(scan.left), NEW j \in DOMAIN Tail(scan.left),
                            Tail(scan.left)[i] = Tail(scan.left)[j]
                     PROVE  i = j
        BY <2>3
      <4>2. i + 1 = j + 1
        BY <1>2, <1>4, <4>1 DEF Single
      <4>3. i \in Nat /\ j \in Nat
        BY <1>4
      <4>4. QED
        BY <4>2, <4>3
    <3>2. \A j \in DOMAIN scan.got : scan.got[j].id # n
      BY <1>2, <1>4 DEF Single
    <3>3. \A i, j \in DOMAIN scan'.got : scan'.got[i].id = scan'.got[j].id => i = j
      BY <1>2, <2>2, <2>4, <3>2 DEF Single
    <3>4. \A i \in DOMAIN scan'.left, j \in DOMAIN scan'.got : scan'.left[i] # scan'.got[j].id
      <4>1. SUFFICES ASSUME NEW i \in DOMAIN Tail(scan.left), NEW j \in DOMAIN scan'.got
                     PROVE  Tail(scan.left)[i] # scan'.got[j].id
        BY <2>3
      <4>2. i + 1 \in DOMAIN scan.left /\ Tail(scan.left)[i] = scan.left[i + 1] /\ i + 1 # 1
        BY <1>4, <4>1
      <4>3. scan.left[i + 1] # n
        BY <1>2, <1>4, <4>2 DEF Single
      <4>4. QED
        BY <1>2, <2>2, <2>4, <4>2, <4>3 DEF Single
    <3>5. QED
      BY <3>1, <3>3, <3>4 DEF Single
  <2>7. Covered'
    <3>1. SUFFICES ASSUME NEW m \in scan.steady
                   PROVE  \/ \E i \in DOMAIN scan'.left : scan'.left[i] = m
                          \/ \E i \in DOMAIN scan'.got : scan'.got[i] = rows[m]
      BY <1>1, <1>2, <2>3 DEF Covered
    <3>2. CASE \E i \in DOMAIN scan.got : scan.got[i] = rows[m]
      BY <2>4, <3>2
    <3>3. CASE m = n
      BY <2>4, <3>3
    <3>4. CASE m # n /\ \E i \in DOMAIN scan.left : scan.left[i] = m
      <4>1. PICK i \in DOMAIN scan.left : scan.left[i] = m
        BY <3>4
      <4>2. i - 1 \in DOMAIN Tail(scan.left) /\ Tail(scan.left)[i - 1] = m
        BY <1>4, <3>4, <4>1
      <4>3. QED
        BY <2>3, <4>2
    <3>5. QED
      BY <1>1, <1>2, <3>2, <3>3, <3>4 DEF Covered, Open
  <2>8. Untouched'
    BY <1>1, <1>2, <1>6, <2>2, <2>3, <2>4 DEF Untouched
  <2>9. Prefix'
    <3>1. Wanted(walk.query)' = Wanted(walk.query) /\ Place(walk.query)' = Place(walk.query)
      BY <1>1 DEF Wanted, Place, Ahead
    <3>2. QED
      BY <1>1, <1>2, <2>3, <3>1 DEF Prefix, Open
  <2>10. QED
    BY <1>2, <2>5, <2>6, <2>7, <2>8, <2>9 DEF PagesInv
<1>7. QED
  BY <1>5, <1>6 DEF Fetch

(* The answer puts the next records of the whole answer behind those the     *)
(* client has.                                                               *)
LEMMA AnswerInv ==
    ASSUME PagesInv, Answer
    PROVE  PagesInv'
<1> DEFINE q == walk.query
           S == Matching(q)
           found == Sorted(q.sort, scan.got, S)
           page == PageOf(q, scan.page, found)
           ids == [i \in DOMAIN page |-> page[i].id]
<1>1. /\ UNCHANGED <<rows, now>> /\ scan.state = "scanning" /\ scan.left = << >>
      /\ scan' = [scan EXCEPT !.state = IF page = << >> THEN "past" ELSE "answered",
                              !.total = Len(found)]
      /\ walk' = [walk EXCEPT !.hits = @ \o ids]
  BY DEF Answer
<1>2. RowsOk /\ Shape /\ Single /\ Covered /\ Untouched /\ Prefix /\ RowsOk'
  BY <1>1 DEF PagesInv, RowsOk
<1>3. /\ Valid(q, scan.page) /\ scan.page \in Nat /\ scan.got \in Seq(Rows)
      /\ scan \in [state: Open \cup {"idle", "failed", "refused"}, page: Nat, left: Seq(Id),
                   got: Seq(Rows), total: Nat, steady: SUBSET Id]
      /\ walk \in [state: {"reading"}, query: Requests, hits: Seq(Id), writes: 0 .. MaxWrites]
  BY <1>1, <1>2 DEF Shape, Open
<1>4. q.size \in Nat \ {0}
  BY <1>3, BoundAssumption DEF Valid
<1>5. S \in SUBSET DOMAIN scan.got
  BY DEF Matching
<1>6. \A i, j \in DOMAIN scan.got : scan.got[i].id = scan.got[j].id => i = j
  BY <1>2 DEF Single
<1>7. found \in Seq(Rows) /\ Len(found) \in Nat
  <2> HIDE DEF S
  <2>1. found \in Seq(Rows)
    BY <1>3, <1>5, <1>6, SortedList
  <2> HIDE DEF found
  <2>2. QED
    BY <2>1
<1> DEFINE start == Start(q, scan.page, Len(found))
           end == End(q, scan.page, Len(found))
<1> HIDE DEF found
<1>8. /\ start \in 0 .. Len(found) /\ end \in start .. Len(found)
      /\ page \in Seq(Rows) /\ Len(page) = end - start
      /\ \A i \in 1 .. end - start : page[i] = found[start + i]
  <2> HIDE DEF q
  <2>1. scan.page \in Nat /\ found \in Seq(Rows)
    BY <1>3, <1>7
  <2>2. QED
    BY <1>4, <2>1, PageFacts
<1> HIDE DEF page
<1>9. /\ ids \in Seq(Id) /\ Len(ids) = Len(page)
      /\ \A i \in 1 .. Len(page) : ids[i] = page[i].id
  <2>1. DOMAIN page = 1 .. Len(page) /\ Len(page) \in Nat
    BY <1>8
  <2>2. \A i \in DOMAIN page : page[i].id \in Id
    <3>1. \A i \in DOMAIN page : page[i] \in Rows
      BY <1>8
    <3>2. QED
      BY <3>1 DEF Rows
  <2>3. ids \in [1 .. Len(page) -> Id]
    BY <2>1, <2>2
  <2>4. QED
    BY <2>1, <2>3
<1> HIDE DEF ids
<1>10. /\ walk'.hits \in Seq(Id) /\ walk'.hits = walk.hits \o ids
       /\ Len(walk'.hits) = Len(walk.hits) + Len(ids)
       /\ \A i \in 1 .. Len(walk.hits) + Len(ids) :
             walk'.hits[i] = IF i <= Len(walk.hits) THEN walk.hits[i] ELSE ids[i - Len(walk.hits)]
       /\ walk'.query = q /\ walk'.writes = walk.writes /\ walk'.state = "reading"
       /\ walk' \in [state: {"reading"}, query: Requests, hits: Seq(Id), writes: 0 .. MaxWrites]
  <2>1. walk'.hits = walk.hits \o ids
    BY <1>1, <1>3
  <2>2. /\ walk.hits \o ids \in Seq(Id) /\ Len(walk.hits \o ids) = Len(walk.hits) + Len(ids)
        /\ \A i \in 1 .. Len(walk.hits) + Len(ids) :
              (walk.hits \o ids)[i] = IF i <= Len(walk.hits) THEN walk.hits[i] ELSE ids[i - Len(walk.hits)]
    <3>1. walk.hits \in Seq(Id) /\ ids \in Seq(Id)
      BY <1>3, <1>9
    <3>2. QED
      BY <3>1, ConcatProperties, Zenon
  <2>3. QED
    BY <1>1, <1>3, <2>1, <2>2
<1>11. /\ scan'.state = IF page = << >> THEN "past" ELSE "answered"
       /\ scan'.total = Len(found) /\ scan'.left = << >> /\ scan'.got = scan.got
       /\ scan'.page = scan.page /\ scan'.steady = scan.steady
       /\ scan' \in [state: Open \cup {"idle", "failed", "refused"}, page: Nat, left: Seq(Id),
                     got: Seq(Rows), total: Nat, steady: SUBSET Id]
  BY <1>1, <1>3, <1>7 DEF Open
<1>12. Shape'
  BY <1>1, <1>2, <1>3, <1>10, <1>11 DEF Shape, Open, NoWalk, Valid
<1>13. Single'
  BY <1>1, <1>2, <1>11 DEF Single
<1>14. Covered' /\ Untouched'
  BY <1>1, <1>2, <1>10, <1>11 DEF Covered, Untouched, Open
<1>15. Prefix'
  <2>1. CASE walk.writes # 0
    BY <1>10, <2>1 DEF Prefix
  <2>2. CASE walk.writes = 0
    <3> DEFINE all == Cardinality(Wanted(q))
    <3>1. Wanted(walk.query)' = Wanted(q) /\ Place(walk.query)' = Place(q)
      BY <1>1, <1>10 DEF Wanted, Place, Ahead
    <3>2. /\ Len(found) = all
          /\ \A k \in 1 .. Len(found) : found[k].id \in Wanted(q) /\ Place(q)[found[k].id] = k
      <4>1. \A n \in DOMAIN rows : \E i \in DOMAIN scan.got : scan.got[i].id = n
        <5>1. SUFFICES ASSUME NEW n \in DOMAIN rows
                       PROVE  \E i \in DOMAIN scan.got : scan.got[i].id = n
          OBVIOUS
        <5>2. n \in scan.steady
          BY <1>1, <1>2, <2>2 DEF Untouched, Open
        <5>3. PICK i \in DOMAIN scan.got : scan.got[i] = rows[n]
          BY <1>1, <1>2, <5>2 DEF Covered, Open
        <5>4. QED
          BY <1>2, <5>3 DEF RowsOk
      <4>2. \A i \in DOMAIN scan.got : scan.got[i].id \in DOMAIN rows /\ scan.got[i] = rows[scan.got[i].id]
        BY <1>1, <1>2, <2>2 DEF Untouched, Open
      <4>3. found = Answered(q, scan.got)
        BY DEF found, S, Matching, Answered
      <4> HIDE DEF S, q
      <4>4. RowsOk /\ ReadAll(scan.got)
        BY <1>2, <1>3, <1>6, <4>1, <4>2 DEF ReadAll
      <4>5. InPlace(q, Answered(q, scan.got))
        BY <4>4, ReadAllAnswer
      <4>6. QED
        BY <4>3, <4>5 DEF InPlace
    <3> DEFINE from == scan.page * q.size
    <3>3. /\ from \in Nat /\ Len(found) = all /\ all \in Nat
          /\ start = IF from <= all THEN from ELSE all
          /\ end = IF start + q.size <= all THEN start + q.size ELSE all
      BY <1>3, <1>4, <1>7, <3>2 DEF Start, End
    <3>4. /\ Len(walk.hits) = start
          /\ \A i \in DOMAIN walk.hits : walk.hits[i] \in Wanted(q) /\ Place(q)[walk.hits[i]] = i
      <4>1. from + 0 = from
        BY <1>3, <1>4
      <4>2. QED
        BY <1>1, <1>2, <2>2, <3>3, <4>1 DEF Prefix, Open
    <3> HIDE DEF from, start, end, all
    <3>5. /\ start \in 0 .. all /\ end \in start .. all /\ start \in Nat /\ end \in Nat
          /\ end = IF from + q.size <= all THEN from + q.size ELSE all
      BY <1>4, <3>3
    <3>6. Len(walk'.hits) = end
      BY <1>8, <1>9, <1>10, <3>4, <3>5
    <3>7. \A i \in 1 .. end : walk'.hits[i] \in Wanted(q) /\ Place(q)[walk'.hits[i]] = i
      <4>1. SUFFICES ASSUME NEW i \in 1 .. end
                     PROVE  walk'.hits[i] \in Wanted(q) /\ Place(q)[walk'.hits[i]] = i
        OBVIOUS
      <4>2. CASE i <= start
        <5>1. i \in DOMAIN walk.hits
          BY <1>3, <3>4, <3>5, <4>2
        <5>2. walk'.hits[i] = walk.hits[i]
          BY <1>8, <1>9, <1>10, <3>4, <3>5, <4>2
        <5>3. QED
          BY <3>4, <5>1, <5>2
      <4>3. CASE i > start
        <5>1. i - start \in 1 .. end - start /\ i \in 1 .. Len(found) /\ start + (i - start) = i
          BY <3>3, <3>5, <4>3
        <5>2. walk'.hits[i] = ids[i - start]
          <6>1. i \in 1 .. Len(walk.hits) + Len(ids) /\ ~(i <= Len(walk.hits)) /\ Len(walk.hits) = start
            BY <1>8, <1>9, <3>4, <3>5, <4>3
          <6>2. QED
            BY <1>10, <6>1
        <5>3. ids[i - start] = found[i].id
          BY <1>8, <1>9, <5>1
        <5>4. QED
          BY <3>2, <5>1, <5>2, <5>3
      <4>4. QED
        BY <3>5, <4>2, <4>3
    <3>8. scan'.state = "past" => end = all
      <4>1. SUFFICES ASSUME page = << >> PROVE end = all
        BY <1>11
      <4>2. end = start
        BY <1>8, <3>5, <4>1
      <4>3. QED
        BY <1>4, <3>3, <3>5, <4>2
    <3>9. DOMAIN walk'.hits = 1 .. end
      BY <1>10, <3>6
    <3>10. scan'.page * walk'.query.size + (IF scan'.state = "scanning" THEN 0 ELSE walk'.query.size)
              = from + q.size
      <4>1. scan'.state # "scanning" /\ scan'.page = scan.page /\ walk'.query = q
        BY <1>10, <1>11
      <4>2. QED
        BY <4>1 DEF from
    <3>11. QED
      <4>1. SUFFICES /\ Len(walk'.hits) = IF from + q.size <= all THEN from + q.size ELSE all
                     /\ \A i \in DOMAIN walk'.hits :
                           walk'.hits[i] \in Wanted(q) /\ Place(q)[walk'.hits[i]] = i
                     /\ scan'.total = all
                     /\ scan'.state = "past" => Len(walk'.hits) = all
        BY <1>10, <3>1, <3>10 DEF Prefix, all
      <4>2. QED
        BY <1>11, <3>3, <3>5, <3>6, <3>7, <3>8, <3>9
  <2>3. QED
    BY <2>1, <2>2
<1>16. QED
  BY <1>2, <1>12, <1>13, <1>14, <1>15 DEF PagesInv

LEMMA LeaveInv ==
    ASSUME PagesInv, Leave
    PROVE  PagesInv'
<1>1. UNCHANGED <<rows, now>> /\ scan' = NoScan /\ walk' = NoWalk
  BY DEF Leave
<1>2. RowsOk' /\ now' \in 0 .. MaxTime
  BY <1>1 DEF PagesInv, RowsOk, Shape
<1>3. Shape'
  BY <1>1, <1>2 DEF Shape, NoScan, Open
<1>4. Single' /\ Covered' /\ Untouched' /\ Prefix'
  BY <1>1 DEF Single, Covered, Untouched, Prefix, NoScan, Open
<1>5. QED
  BY <1>2, <1>3, <1>4 DEF PagesInv

(* A hook takes its row out of the steady ones, and ends what the pages      *)
(* promise together.                                                         *)
LEMMA HookFacts ==
    ASSUME PagesInv, NEW n \in Id, Hooked(n), scan' = [scan EXCEPT !.steady = @ \ {n}],
           now' \in 0 .. MaxTime,
           \A m \in DOMAIN rows \ {n} : m \in DOMAIN rows' /\ rows'[m] = rows[m],
           RowsOk'
    PROVE  PagesInv'
<1>1. Shape /\ Single /\ Covered
  BY DEF PagesInv
<1>2. /\ walk \in [state: {"reading"}, query: Requests, hits: Seq(Id), writes: 0 .. MaxWrites]
      /\ walk # NoWalk
      /\ scan \in [state: Open \cup {"idle", "failed", "refused"}, page: Nat, left: Seq(Id),
                   got: Seq(Rows), total: Nat, steady: SUBSET Id]
  BY <1>1 DEF Shape, Hooked, NoWalk
<1>3. /\ walk' \in [state: {"reading"}, query: Requests, hits: Seq(Id), writes: 0 .. MaxWrites]
      /\ walk'.query = walk.query /\ walk'.writes = walk.writes + 1 /\ walk'.writes # 0
  <2>1. walk.writes + 1 \in 0 .. MaxWrites /\ walk.writes + 1 # 0
    BY <1>2, BoundAssumption DEF Hooked
  <2>2. walk' = [walk EXCEPT !.writes = walk.writes + 1]
    BY DEF Hooked
  <2>3. QED
    BY <1>2, <2>1, <2>2
<1>4. walk' # NoWalk'
  BY <1>3 DEF NoWalk
<1>5. /\ scan'.state = scan.state /\ scan'.page = scan.page /\ scan'.left = scan.left
      /\ scan'.got = scan.got /\ scan'.total = scan.total
      /\ scan'.steady = scan.steady \ {n}
      /\ scan' \in [state: Open \cup {"idle", "failed", "refused"}, page: Nat, left: Seq(Id),
                    got: Seq(Rows), total: Nat, steady: SUBSET Id]
  BY <1>2
<1>6. Shape'
  BY <1>1, <1>2, <1>3, <1>4, <1>5 DEF Shape, Valid, Open
<1>7. Single'
  BY <1>1, <1>5 DEF Single
<1>8. Covered'
  <2>1. scan'.steady \subseteq DOMAIN rows'
    BY <1>1, <1>5 DEF Covered
  <2>2. \A m \in scan'.steady : m \in scan.steady /\ rows'[m] = rows[m]
    BY <1>1, <1>5 DEF Covered
  <2>3. QED
    BY <1>1, <1>5, <2>1, <2>2 DEF Covered
<1>9. Untouched' /\ Prefix'
  BY <1>3 DEF Untouched, Prefix
<1>10. QED
  BY <1>6, <1>7, <1>8, <1>9 DEF PagesInv

LEMMA UpsertInv ==
    ASSUME PagesInv, NEW n \in Id, NEW c \in Content, Upsert(n, c)
    PROVE  PagesInv'
<1>0. PICK time \in Stamps(n, c, now') :
          rows' = [m \in DOMAIN rows \cup {n} |-> IF m = n THEN RowOf(n, c, time) ELSE rows[m]]
  BY DEF Upsert
<1>1. /\ Hooked(n) /\ now' \in {now, now + 1} /\ now' <= MaxTime
      /\ rows' = [m \in DOMAIN rows \cup {n} |-> IF m = n THEN RowOf(n, c, time) ELSE rows[m]]
      /\ scan' = [scan EXCEPT !.steady = @ \ {n}]
  BY <1>0 DEF Upsert
<1>2. RowsOk /\ Shape
  BY DEF PagesInv
<1>3. now' \in 0 .. MaxTime
  BY <1>1, <1>2, BoundAssumption DEF Shape
<1>4. time \in 0 .. MaxTime
  BY <1>2, <1>3 DEF Stamps, RowsOk, Rows
<1>5. RowOf(n, c, time) \in Rows /\ RowOf(n, c, time).id = n
  BY <1>4, TitleAssumption DEF RowOf, Rows
<1>6. RowsOk'
  <2>1. DOMAIN rows' = DOMAIN rows \cup {n}
    BY <1>1
  <2>2. \A m \in DOMAIN rows' : rows'[m] \in Rows /\ rows'[m].id = m
    BY <1>1, <1>2, <1>5, <2>1 DEF RowsOk
  <2>3. IsFiniteSet(DOMAIN rows \cup {n})
    BY <1>2, FS_AddElement DEF RowsOk
  <2>4. DOMAIN rows' \subseteq Id
    BY <1>2, <2>1 DEF RowsOk
  <2>5. rows' \in [DOMAIN rows' -> Rows]
    BY <1>1, <2>1, <2>2
  <2>6. QED
    BY <2>1, <2>2, <2>3, <2>4, <2>5 DEF RowsOk
<1>7. \A m \in DOMAIN rows \ {n} : m \in DOMAIN rows' /\ rows'[m] = rows[m]
  BY <1>1
<1>8. QED
  BY <1>1, <1>3, <1>6, <1>7, HookFacts

LEMMA DeleteRowInv ==
    ASSUME PagesInv, NEW n \in Id, DeleteRow(n)
    PROVE  PagesInv'
<1>1. /\ Hooked(n) /\ n \in DOMAIN rows /\ now' = now
      /\ rows' = [m \in DOMAIN rows \ {n} |-> rows[m]]
      /\ scan' = [scan EXCEPT !.steady = @ \ {n}]
  BY DEF DeleteRow
<1>2. RowsOk /\ now' \in 0 .. MaxTime
  BY <1>1 DEF PagesInv, Shape
<1>3. RowsOk'
  <2>1. DOMAIN rows' = DOMAIN rows \ {n} /\ \A m \in DOMAIN rows' : rows'[m] = rows[m]
    BY <1>1
  <2>2. IsFiniteSet(DOMAIN rows \ {n})
    BY <1>2, FS_RemoveElement DEF RowsOk
  <2>3. \A m \in DOMAIN rows' : rows'[m] \in Rows /\ rows'[m].id = m
    BY <1>2, <2>1 DEF RowsOk
  <2>4. rows' \in [DOMAIN rows' -> Rows]
    BY <1>1, <2>1, <2>3
  <2>5. QED
    BY <1>2, <2>1, <2>2, <2>3, <2>4 DEF RowsOk
<1>4. \A m \in DOMAIN rows \ {n} : m \in DOMAIN rows' /\ rows'[m] = rows[m]
  BY <1>1
<1>5. QED
  BY <1>1, <1>2, <1>3, <1>4, HookFacts

LEMMA StutterInv ==
    ASSUME PagesInv, UNCHANGED vars
    PROVE  PagesInv'
<1>1. rows' = rows /\ now' = now /\ scan' = scan /\ walk' = walk
  BY DEF vars
<1>2. Wanted(walk.query)' = Wanted(walk.query) /\ Place(walk.query)' = Place(walk.query)
  BY <1>1 DEF Wanted, Place, Ahead
<1>3. RowsOk' /\ Shape' /\ Single' /\ Covered' /\ Untouched'
  BY <1>1 DEF PagesInv, RowsOk, Shape, Single, Covered, Untouched, NoWalk, Open, Valid
<1>4. Prefix'
  BY <1>1, <1>2 DEF PagesInv, Prefix
<1>5. QED
  BY <1>3, <1>4 DEF PagesInv

LEMMA PagesAlways == Spec => []PagesInv
<1>1. Init => PagesInv
  BY InitInv
<1>2. PagesInv /\ [Next]_vars => PagesInv'
  BY AskInv, NextPageInv, FetchInv, AnswerInv, LeaveInv, UpsertInv, DeleteRowInv, StutterInv DEF Next
<1>3. QED
  BY <1>1, <1>2, PTL DEF Spec

-----------------------------------------------------------------------------
(* TypeOK: the scan and the pages hold ids and records, the clock and the    *)
(* hooks keep their bounds, and a steady row is a row.                       *)
THEOREM SearchTypeCorrect == Spec => []TypeOK
<1>1. PagesInv => TypeOK
  <2>1. SUFFICES ASSUME PagesInv PROVE TypeOK
    OBVIOUS
  <2>2. RowsOk /\ Shape /\ scan.steady \subseteq DOMAIN rows
    BY <2>1 DEF PagesInv, Covered
  <2>3. << >> \in Seq(Id) /\ 0 \in 0 .. MaxWrites
    BY BoundAssumption
  <2>4. walk.state \in {"idle", "reading"} /\ walk.hits \in Seq(Id) /\ walk.writes \in 0 .. MaxWrites
    <3>1. CASE walk = NoWalk
      BY <2>3, <3>1 DEF NoWalk
    <3>2. CASE walk # NoWalk
      BY <2>2, <3>2 DEF Shape
    <3>3. QED
      BY <3>1, <3>2
  <2>5. QED
    BY <2>2, <2>4 DEF TypeOK, RowsOk, Shape, Open
<1>2. QED
  BY <1>1, PagesAlways, PTL

(* PagesPartition: a client that reads pages until one is empty, no row      *)
(* changing meanwhile, has every matching row exactly once and in the order  *)
(* asked for, though every page is a search of its own (search, _apply_sort).*)
THEOREM PagesMakeOneAnswer == Spec => []PagesPartition
<1>1. PagesInv => PagesPartition
  <2>1. SUFFICES ASSUME PagesInv, scan.state = "past", walk.writes = 0
                 PROVE  /\ IsInjective(walk.hits)
                        /\ ToSet(walk.hits) = Wanted(walk.query)
                        /\ \A i, j \in DOMAIN walk.hits :
                              i < j => InOrder(walk.query.sort, rows[walk.hits[i]], rows[walk.hits[j]])
                        /\ scan.total = Len(walk.hits)
    BY DEF PagesPartition, Wanted
  <2> DEFINE W == Wanted(walk.query)
             at == Place(walk.query)
  <2>2. RowsOk /\ Shape /\ Prefix
    BY <2>1 DEF PagesInv
  <2>3. walk.hits \in Seq(Id)
    BY <2>1, <2>2 DEF Shape, NoWalk
  <2>4. /\ Len(walk.hits) = Cardinality(W) /\ scan.total = Len(walk.hits)
        /\ \A i \in DOMAIN walk.hits : walk.hits[i] \in W /\ at[walk.hits[i]] = i
    BY <2>1, <2>2 DEF Prefix, Open
  <2>5. /\ at \in Bijection(W, 1 .. Cardinality(W))
        /\ \A m, n \in W : at[m] < at[n] <=> Before(walk.query.sort, rows[m], rows[n])
    BY <2>2, PlaceOrder
  <2>6. \A n \in W : rows[n] \in Rows
    BY <2>2 DEF RowsOk, Wanted
  <2> HIDE DEF W, at
  <2>7. IsInjective(walk.hits)
    BY <2>4 DEF IsInjective
  <2>8. ToSet(walk.hits) = W
    <3>1. ToSet(walk.hits) \subseteq W
      BY <2>4 DEF ToSet
    <3>2. ASSUME NEW n \in W PROVE n \in ToSet(walk.hits)
      <4>1. at[n] \in DOMAIN walk.hits
        BY <2>3, <2>4, <2>5 DEF Bijection, Surjection
      <4>2. at[walk.hits[at[n]]] = at[n] /\ walk.hits[at[n]] \in W
        BY <2>4, <4>1
      <4>3. walk.hits[at[n]] = n
        BY <2>5, <4>2 DEF Bijection, Injection, IsInjective
      <4>4. QED
        BY <4>1, <4>3 DEF ToSet
    <3>3. QED
      BY <3>1, <3>2
  <2>9. ASSUME NEW i \in DOMAIN walk.hits, NEW j \in DOMAIN walk.hits, i < j
        PROVE  InOrder(walk.query.sort, rows[walk.hits[i]], rows[walk.hits[j]])
    <3>1. Before(walk.query.sort, rows[walk.hits[i]], rows[walk.hits[j]])
      BY <2>4, <2>5, <2>9
    <3>2. QED
      BY <2>4, <2>6, <3>1, BeforeInOrder
  <2>10. QED
    BY <2>4, <2>7, <2>8, <2>9 DEF W
<1>2. QED
  BY <1>1, PagesAlways, PTL

(* ScanComplete: a scan that reads row by row while hooks insert, rewrite    *)
(* and delete others, if it answers, has counted every matching row that     *)
(* nobody touched, and no row twice (_scan_all, get, all_node_ids).          *)
THEOREM ScansMissNothing == Spec => []ScanComplete
<1>1. PagesInv => ScanComplete
  <2>1. SUFFICES ASSUME PagesInv, scan.state \in {"answered", "past"}
                 PROVE  /\ \A n \in scan.steady : Passes(walk.query, rows[n]) =>
                              \E i \in Matching(walk.query) : scan.got[i] = rows[n]
                        /\ \A i, j \in Matching(walk.query) :
                              scan.got[i].id = scan.got[j].id => i = j
    BY DEF ScanComplete
  <2>2. Shape /\ Single /\ Covered
    BY <2>1 DEF PagesInv
  <2>3. ASSUME NEW n \in scan.steady, Passes(walk.query, rows[n])
        PROVE  \E i \in Matching(walk.query) : scan.got[i] = rows[n]
    <3>1. DOMAIN scan.left = {}
      BY <2>1, <2>2 DEF Shape
    <3>2. PICK i \in DOMAIN scan.got : scan.got[i] = rows[n]
      BY <2>1, <2>2, <3>1 DEF Covered, Open
    <3>3. QED
      BY <2>3, <3>2 DEF Matching
  <2>4. \A i, j \in Matching(walk.query) : scan.got[i].id = scan.got[j].id => i = j
    BY <2>2 DEF Single, Matching
  <2>5. QED
    BY <2>3, <2>4
<1>2. QED
  BY <1>1, PagesAlways, PTL
=============================================================================
