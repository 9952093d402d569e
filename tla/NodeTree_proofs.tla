--------------------------- MODULE NodeTree_proofs ---------------------------
(* Facts about the operators of NodeTree that the invariants rest on.        *)
EXTENDS NodeTree, SequenceTheorems, FiniteSetTheorems, WellFoundedInduction, TLAPS

(* Reach(succ, r) holds r, is closed under succ, and lies within every set   *)
(* that is: the subtree walks of the code in the form the proofs use.        *)
LEMMA ReachSelf ==
    ASSUME NEW succ, NEW r \in DOMAIN succ
    PROVE  r \in Reach(succ, r)
BY DEF Reach

LEMMA ReachClosed ==
    ASSUME NEW succ, NEW r, NEW x \in Reach(succ, r), NEW y \in succ[x], y \in DOMAIN succ
    PROVE  y \in Reach(succ, r)
BY DEF Reach

LEMMA ReachLeast ==
    ASSUME NEW succ, NEW r, NEW S \in SUBSET DOMAIN succ,
           r \in S, \A x \in S : succ[x] \subseteq S
    PROVE  Reach(succ, r) \subseteq S
BY DEF Reach

LEMMA ReachWithin == ASSUME NEW succ, NEW r PROVE Reach(succ, r) \subseteq DOMAIN succ
BY DEF Reach

LEMMA ReachFrom ==
    ASSUME NEW succ, \A x \in DOMAIN succ : succ[x] \subseteq DOMAIN succ,
           NEW r \in DOMAIN succ, NEW x \in Reach(succ, r), x # r
    PROVE  \E y \in Reach(succ, r) : x \in succ[y]
<1> DEFINE T == Reach(succ, r) \ {x}
<1>1. SUFFICES ASSUME \A y \in Reach(succ, r) : x \notin succ[y] PROVE FALSE
  OBVIOUS
<1>2. T \in SUBSET DOMAIN succ /\ r \in T
  BY ReachWithin, ReachSelf
<1>3. \A z \in T : succ[z] \subseteq T
  BY <1>1, ReachWithin, ReachClosed
<1> HIDE DEF T
<1>4. Reach(succ, r) \subseteq T
  BY <1>2, <1>3, ReachLeast
<1>5. QED
  BY <1>4 DEF T

LEMMA ReachTransitive ==
    ASSUME NEW succ, \A x \in DOMAIN succ : succ[x] \subseteq DOMAIN succ,
           NEW r, NEW x \in Reach(succ, r)
    PROVE  Reach(succ, x) \subseteq Reach(succ, r)
<1>1. Reach(succ, r) \in SUBSET DOMAIN succ
  BY ReachWithin
<1>2. \A y \in Reach(succ, r) : succ[y] \subseteq Reach(succ, r)
  BY <1>1, ReachClosed
<1>3. QED
  BY <1>1, <1>2, ReachLeast

-----------------------------------------------------------------------------
(* Parent links stay free of circles when a leaf is added, when nodes are    *)
(* dropped, and when a node is hung under one that is not below it.          *)
LEMMA RootedAdd ==
    ASSUME NEW f, NEW g, NEW n, n \notin DOMAIN f, Rooted(f),
           DOMAIN g = DOMAIN f \cup {n},
           \A x \in DOMAIN f : g[x] = f[x] /\ f[x] # n,
           g[n] # n
    PROVE  Rooted(g)
<1>1. SUFFICES ASSUME NEW S \in SUBSET DOMAIN g, S # {} PROVE \E x \in S : g[x] \notin S
  BY DEF Rooted
<1>2. CASE S = {n}
  BY <1>2
<1>3. CASE S # {n}
  <2>1. S \ {n} \in SUBSET DOMAIN f /\ S \ {n} # {}
    BY <1>1, <1>3
  <2>2. PICK x \in S \ {n} : f[x] \notin S \ {n}
    BY <2>1 DEF Rooted
  <2>3. QED
    BY <2>1, <2>2
<1>4. QED
  BY <1>2, <1>3

LEMMA RootedRestrict ==
    ASSUME NEW f, NEW g, Rooted(f), DOMAIN g \subseteq DOMAIN f, \A x \in DOMAIN g : g[x] = f[x]
    PROVE  Rooted(g)
BY DEF Rooted

LEMMA RootedMove ==
    ASSUME NEW f, NEW g, NEW succ, NEW n \in DOMAIN f, Rooted(f),
           DOMAIN succ = DOMAIN f,
           \A x, y \in DOMAIN f : f[y] = x => y \in succ[x],
           g[n] \notin Reach(succ, n),
           DOMAIN g = DOMAIN f,
           \A x \in DOMAIN f \ {n} : g[x] = f[x]
    PROVE  Rooted(g)
<1> DEFINE below == Reach(succ, n)
<1>1. SUFFICES ASSUME NEW S \in SUBSET DOMAIN g, S # {}, \A x \in S : g[x] \in S PROVE FALSE
  BY DEF Rooted
<1>2. n \in below
  BY ReachSelf
<1>3. \A x \in S \ below : f[x] \in S \ below
  <2>1. TAKE x \in S \ below
  <2>2. f[x] \in S
    BY <1>1, <1>2
  <2>3. x \in succ[f[x]]
    BY <1>1, <2>2
  <2>4. f[x] \notin below
    BY <1>1, <2>3, ReachClosed
  <2>5. QED
    BY <2>2, <2>4
<1>4. S \ below = {}
  BY <1>1, <1>3 DEF Rooted
<1>5. n \notin S
  BY <1>1, <1>4
<1>6. QED
  BY <1>1, <1>5 DEF Rooted

-----------------------------------------------------------------------------
(* What is reached from a node depends on the part of the tree that is       *)
(* closed around it only, and so does the root Story above a node.           *)
LEMMA ReachAgree ==
    ASSUME NEW f, NEW g, NEW S, S \subseteq DOMAIN f, S \subseteq DOMAIN g, NEW r \in S,
           \A x \in S : f[x] = g[x] /\ f[x] \subseteq S
    PROVE  Reach(f, r) = Reach(g, r)
<1>1. Reach(f, r) \subseteq S /\ Reach(g, r) \subseteq S
  BY ReachLeast
<1>2. r \in Reach(f, r) /\ r \in Reach(g, r)
  BY ReachSelf
<1>3. \A x \in Reach(f, r) : g[x] \subseteq Reach(f, r)
  BY <1>1, ReachClosed
<1>4. \A x \in Reach(g, r) : f[x] \subseteq Reach(g, r)
  BY <1>1, ReachClosed
<1>5. Reach(g, r) \subseteq Reach(f, r)
  BY <1>1, <1>2, <1>3, ReachLeast
<1>6. Reach(f, r) \subseteq Reach(g, r)
  BY <1>1, <1>2, <1>4, ReachLeast
<1>7. QED
  BY <1>5, <1>6

LEMMA StoryAgree ==
    ASSUME NEW t, NEW u, NEW S, S \subseteq DOMAIN t, S \subseteq DOMAIN u,
           Root \notin DOMAIN t, Root \notin DOMAIN u,
           \A x \in S : t[x].parent = u[x].parent /\ t[x].parent \in S \cup {Root},
           NEW n, NEW p \in S \cup {Root}
    PROVE  StoryOf(t, n, p) = StoryOf(u, n, p)
<1>1. CASE p = Root
  BY <1>1 DEF StoryOf
<1>2. CASE p # Root
  <2>1. p \in S /\ p \in DOMAIN t /\ p \in DOMAIN u
    BY <1>2
  <2>2. DOMAIN AboveIn(t) = DOMAIN t /\ DOMAIN AboveIn(u) = DOMAIN u
    BY DEF AboveIn
  <2>3. \A x \in S : AboveIn(t)[x] = AboveIn(u)[x] /\ AboveIn(t)[x] \subseteq S
    BY DEF AboveIn
  <2>4. Reach(AboveIn(t), p) = Reach(AboveIn(u), p)
    BY <2>1, <2>2, <2>3, ReachAgree
  <2>5. Reach(AboveIn(t), p) \subseteq S
    BY <2>1, <2>2, <2>3, ReachLeast
  <2> DEFINE A == {a \in Reach(AboveIn(t), p) : t[a].parent = Root}
             B == {a \in Reach(AboveIn(u), p) : u[a].parent = Root}
  <2>6. StoryOf(t, n, p) = IF p \in DOMAIN t /\ A # {} THEN CHOOSE a \in A : TRUE ELSE NoStory
    BY <1>2 DEF StoryOf
  <2>7. StoryOf(u, n, p) = IF p \in DOMAIN u /\ B # {} THEN CHOOSE a \in B : TRUE ELSE NoStory
    BY <1>2 DEF StoryOf
  <2>8. A = B
    BY <2>4, <2>5
  <2> HIDE DEF A, B
  <2>9. QED
    BY <2>1, <2>6, <2>7, <2>8
<1>3. QED
  BY <1>1, <1>2

(* A walk over lists that are part of a finite forest comes to an end: were  *)
(* there nodes each with a child among them, each would be the parent of one *)
(* of them, and as many children as parents means no parent is outside.      *)
LEMMA ForestWalkEnds ==
    ASSUME NEW f, IsFiniteSet(DOMAIN f), Rooted(f),
           NEW lists, DOMAIN lists = DOMAIN f,
           \A x \in DOMAIN f : \A c \in ListedIn(lists)[x] : f[c] = x,
           NEW r
    PROVE  WalkEnds(lists, r)
<1> DEFINE L == ListedIn(lists)
<1>1. DOMAIN L = DOMAIN f
  BY DEF ListedIn
<1>2. SUFFICES ASSUME NEW S \in SUBSET Subtree(lists, r), S # {}, \A x \in S : L[x] \cap S # {}
               PROVE  FALSE
  BY DEF WalkEnds
<1>3. S \subseteq DOMAIN f
  BY <1>1, ReachWithin DEF Subtree
<1> DEFINE child == [x \in S |-> CHOOSE c \in S : c \in L[x]]
<1>4. \A x \in S : child[x] \in S /\ child[x] \in L[x]
  BY <1>2
<1>5. child \in [S -> S] /\ \A x \in S : f[child[x]] = x
  BY <1>3, <1>4
<1> HIDE DEF child
<1>6. child \in Injection(S, S)
  BY <1>5 DEF Injection, IsInjective
<1>7. IsFiniteSet(S)
  BY <1>3, FS_Subset
<1>8. child \in Surjection(S, S)
  BY <1>6, <1>7, FS_Injection
<1>9. PICK y \in S : f[y] \notin S
  BY <1>2, <1>3 DEF Rooted
<1>10. PICK x \in S : child[x] = y
  BY <1>8 DEF Surjection
<1>11. QED
  BY <1>5, <1>9, <1>10

(* Where the lists are the inverse of the parents, a walk over them finds a  *)
(* node with all that have it above them, and no others.                     *)
LEMMA ListWalk ==
    ASSUME NEW tree, NEW lists, DOMAIN lists = DOMAIN tree, NEW r \in DOMAIN tree,
           \A p, c \in DOMAIN tree : c \in ToSet(lists[p]) <=> tree[c].parent = p
    PROVE  /\ Subtree(lists, r) \subseteq DOMAIN tree
           /\ r \in Subtree(lists, r)
           /\ \A x \in DOMAIN tree : tree[x].parent \in Subtree(lists, r) => x \in Subtree(lists, r)
           /\ \A x \in Subtree(lists, r) : x = r \/ tree[x].parent \in Subtree(lists, r)
<1> DEFINE L == ListedIn(lists)
<1>1. DOMAIN L = DOMAIN tree /\ \A x \in DOMAIN tree : L[x] = {c \in DOMAIN tree : tree[c].parent = x}
  BY DEF ListedIn
<1>2. Subtree(lists, r) = Reach(L, r)
  BY DEF Subtree
<1> HIDE DEF L
<1>3. Reach(L, r) \subseteq DOMAIN tree /\ r \in Reach(L, r)
  BY <1>1, ReachWithin, ReachSelf
<1>4. ASSUME NEW x \in DOMAIN tree, tree[x].parent \in Reach(L, r) PROVE x \in Reach(L, r)
  <2>1. x \in L[tree[x].parent]
    BY <1>1, <1>3, <1>4
  <2>2. QED
    BY <1>1, <1>4, <2>1, ReachClosed
<1>5. ASSUME NEW x \in Reach(L, r), x # r PROVE tree[x].parent \in Reach(L, r)
  <2>1. PICK y \in Reach(L, r) : x \in L[y]
    BY <1>1, <1>5, ReachFrom
  <2>2. QED
    BY <1>1, <1>3, <2>1
<1>6. QED
  BY <1>2, <1>3, <1>4, <1>5

-----------------------------------------------------------------------------
(* The code's list surgery, position by position.                            *)
LEMMA RemoveAtPositions ==
    ASSUME NEW T, NEW s \in Seq(T), NEW i \in 1 .. Len(s)
    PROVE  /\ RemoveAt(s, i) \in Seq(T)
           /\ Len(RemoveAt(s, i)) = Len(s) - 1
           /\ \A j \in 1 .. Len(s) - 1 : RemoveAt(s, i)[j] = IF j < i THEN s[j] ELSE s[j + 1]
<1> DEFINE u == SubSeq(s, 1, i - 1)
           v == SubSeq(s, i + 1, Len(s))
<1>0. Len(s) \in Nat /\ \A j \in 1 .. Len(s) : s[j] \in T
  OBVIOUS
<1>1. /\ u \in Seq(T)
      /\ Len(u) = i - 1
      /\ \A j \in 1 .. i - 1 : u[j] = s[j]
  <2>1. \A j \in 1 .. i - 1 : s[j] \in T
    BY <1>0
  <2>2. QED
    BY <1>0, <2>1, SubSeqProperties
<1>2. /\ v \in Seq(T)
      /\ Len(v) = Len(s) - i
      /\ \A j \in 1 .. Len(s) - i : v[j] = s[i + j]
  <2>1. \A j \in i + 1 .. Len(s) : s[j] \in T
    BY <1>0
  <2>2. /\ v \in Seq(T)
        /\ Len(v) = IF i + 1 <= Len(s) THEN Len(s) - (i + 1) + 1 ELSE 0
        /\ \A j \in 1 .. Len(s) - (i + 1) + 1 : v[j] = s[(i + 1) + j - 1]
    BY <1>0, <2>1, SubSeqProperties
  <2> HIDE DEF v
  <2>3. QED
    BY <1>0, <2>2
<1>3. RemoveAt(s, i) = u \o v
  BY DEF RemoveAt
<1> HIDE DEF u, v
<1>4. /\ u \o v \in Seq(T)
      /\ Len(u \o v) = Len(u) + Len(v)
      /\ \A j \in 1 .. Len(u) + Len(v) :
            (u \o v)[j] = IF j <= Len(u) THEN u[j] ELSE v[j - Len(u)]
  BY <1>1, <1>2, ConcatProperties
<1>5. QED
  BY <1>0, <1>1, <1>2, <1>3, <1>4

LEMMA InsertAtPositions ==
    ASSUME NEW T, NEW s \in Seq(T), NEW x \in T, NEW i \in 1 .. Len(s) + 1
    PROVE  /\ InsertAt(s, i, x) \in Seq(T)
           /\ Len(InsertAt(s, i, x)) = Len(s) + 1
           /\ \A j \in 1 .. i - 1 : InsertAt(s, i, x)[j] = s[j]
           /\ InsertAt(s, i, x)[i] = x
           /\ \A j \in i + 1 .. Len(s) + 1 : InsertAt(s, i, x)[j] = s[j - 1]
<1> DEFINE u == SubSeq(s, 1, i - 1)
           v == SubSeq(s, i, Len(s))
<1>0. Len(s) \in Nat /\ \A j \in 1 .. Len(s) : s[j] \in T
  OBVIOUS
<1>1. /\ u \in Seq(T)
      /\ Len(u) = i - 1
      /\ \A j \in 1 .. i - 1 : u[j] = s[j]
  <2>1. \A j \in 1 .. i - 1 : s[j] \in T
    BY <1>0
  <2>2. QED
    BY <1>0, <2>1, SubSeqProperties
<1>2. /\ v \in Seq(T)
      /\ Len(v) = Len(s) - i + 1
      /\ \A j \in 1 .. Len(s) - i + 1 : v[j] = s[i + j - 1]
  <2>1. \A j \in i .. Len(s) : s[j] \in T
    BY <1>0
  <2>2. /\ v \in Seq(T)
        /\ Len(v) = IF i <= Len(s) THEN Len(s) - i + 1 ELSE 0
        /\ \A j \in 1 .. Len(s) - i + 1 : v[j] = s[i + j - 1]
    BY <1>0, <2>1, SubSeqProperties
  <2> HIDE DEF v
  <2>3. QED
    BY <1>0, <2>2
<1>3. InsertAt(s, i, x) = (u \o <<x>>) \o v
  BY DEF InsertAt
<1> HIDE DEF u, v
<1> DEFINE one == <<x>>
<1>4. one \in Seq(T) /\ Len(one) = 1 /\ one[1] = x
  OBVIOUS
<1> HIDE DEF one
<1> DEFINE w == u \o one
<1>5. /\ w \in Seq(T)
      /\ Len(w) = i
      /\ \A j \in 1 .. i : w[j] = IF j < i THEN s[j] ELSE x
  <2>1. /\ w \in Seq(T)
        /\ Len(w) = Len(u) + Len(one)
        /\ \A j \in 1 .. Len(u) + Len(one) :
              w[j] = IF j <= Len(u) THEN u[j] ELSE one[j - Len(u)]
    BY <1>1, <1>4, ConcatProperties
  <2> HIDE DEF w
  <2>2. Len(w) = i
    BY <1>0, <1>1, <1>4, <2>1
  <2>3. ASSUME NEW j \in 1 .. i, j < i PROVE w[j] = s[j]
    BY <1>0, <1>1, <1>4, <2>1, <2>3
  <2>4. w[i] = one[1]
    <3>1. i \in 1 .. Len(u) + Len(one) /\ ~(i <= Len(u)) /\ i - Len(u) = 1
      BY <1>0, <1>1, <1>4
    <3>2. QED
      BY <2>1, <3>1
  <2>5. QED
    BY <1>4, <2>1, <2>2, <2>3, <2>4
<1> HIDE DEF w
<1>6. /\ w \o v \in Seq(T)
      /\ Len(w \o v) = Len(w) + Len(v)
      /\ \A j \in 1 .. Len(w) + Len(v) :
            (w \o v)[j] = IF j <= Len(w) THEN w[j] ELSE v[j - Len(w)]
  BY <1>2, <1>5, ConcatProperties
<1>7. InsertAt(s, i, x) = w \o v
  BY <1>3 DEF w, one
<1> DEFINE r == InsertAt(s, i, x)
<1>8. r \in Seq(T) /\ Len(r) = Len(s) + 1
  BY <1>0, <1>2, <1>5, <1>6, <1>7
<1>9. ASSUME NEW j \in 1 .. Len(s) + 1, j <= i
      PROVE  r[j] = IF j < i THEN s[j] ELSE x
  <2>1. j \in 1 .. Len(w) + Len(v) /\ j <= Len(w)
    BY <1>0, <1>2, <1>5, <1>9
  <2>2. QED
    BY <1>5, <1>6, <1>7, <2>1
<1>10. ASSUME NEW j \in 1 .. Len(s) + 1, j > i
       PROVE  r[j] = s[j - 1]
  <2>1. j \in 1 .. Len(w) + Len(v) /\ ~(j <= Len(w)) /\ j - i \in 1 .. Len(s) - i + 1
    BY <1>0, <1>2, <1>5, <1>10
  <2>2. r[j] = v[j - i]
    BY <1>5, <1>6, <1>7, <2>1
  <2>3. i + (j - i) - 1 = j - 1
    BY <1>0
  <2>4. QED
    BY <1>2, <2>1, <2>2, <2>3
<1> HIDE DEF r
<1>11. /\ \A j \in 1 .. i - 1 : r[j] = s[j]
       /\ r[i] = x
       /\ \A j \in i + 1 .. Len(s) + 1 : r[j] = s[j - 1]
  <2>1. ASSUME NEW j \in 1 .. i - 1 PROVE r[j] = s[j]
    BY <1>0, <1>9
  <2>2. r[i] = x
    BY <1>0, <1>9
  <2>3. ASSUME NEW j \in i + 1 .. Len(s) + 1 PROVE r[j] = s[j - 1]
    BY <1>0, <1>10
  <2>4. QED
    BY <2>1, <2>2, <2>3
<1>12. QED
  BY <1>8, <1>11 DEF r

(* Removing a child takes it out of the list and leaves the others once each. *)
LEMMA WithoutList ==
    ASSUME NEW T, NEW s \in Seq(T), Once(s), NEW x
    PROVE  /\ Without(s, x) \in Seq(T)
           /\ Once(Without(s, x))
           /\ ToSet(Without(s, x)) = ToSet(s) \ {x}
<1>1. CASE x \notin ToSet(s)
  BY <1>1 DEF Without
<1>2. CASE x \in ToSet(s)
  <2> DEFINE i == CHOOSE j \in DOMAIN s : s[j] = x
             t == RemoveAt(s, i)
  <2>1. i \in 1 .. Len(s) /\ s[i] = x
    BY <1>2 DEF ToSet
  <2>2. \A j \in 1 .. Len(s) : s[j] = x => j = i
    BY <2>1 DEF Once, IsInjective
  <2> HIDE DEF i
  <2>3. /\ t \in Seq(T)
        /\ Len(t) = Len(s) - 1
        /\ \A j \in 1 .. Len(s) - 1 : t[j] = IF j < i THEN s[j] ELSE s[j + 1]
    BY <2>1, RemoveAtPositions
  <2>4. Without(s, x) = t
    BY <1>2 DEF Without, i
  <2> HIDE DEF t
  <2>5. Once(t)
    <3>1. SUFFICES ASSUME NEW a \in 1 .. Len(t), NEW b \in 1 .. Len(t), t[a] = t[b]
                   PROVE  a = b
      BY <2>3 DEF Once, IsInjective
    <3> DEFINE p(j) == IF j < i THEN j ELSE j + 1
    <3>2. p(a) \in 1 .. Len(s) /\ p(b) \in 1 .. Len(s) /\ s[p(a)] = s[p(b)]
      BY <2>1, <2>3, <3>1
    <3>3. p(a) = p(b)
      BY <3>2 DEF Once, IsInjective
    <3>4. QED
      BY <2>1, <2>3, <3>3
  <2>6. ToSet(t) \subseteq ToSet(s) \ {x}
    BY <2>1, <2>2, <2>3 DEF ToSet
  <2>7. ASSUME NEW y \in ToSet(s), y # x PROVE y \in ToSet(t)
    <3>1. PICK j \in 1 .. Len(s) : s[j] = y
      BY DEF ToSet
    <3>2. j # i
      BY <2>1, <2>7, <3>1
    <3>3. CASE j < i
      BY <2>1, <2>3, <3>1, <3>3 DEF ToSet
    <3>4. CASE j > i
      <4>1. j - 1 \in 1 .. Len(t) /\ t[j - 1] = y
        BY <2>1, <2>3, <3>1, <3>4
      <4>2. QED
        BY <2>3, <4>1 DEF ToSet
    <3>5. QED
      BY <2>1, <3>1, <3>2, <3>3, <3>4
  <2>8. QED
    BY <2>3, <2>4, <2>5, <2>6, <2>7
<1>3. QED
  BY <1>1, <1>2

(* Appending a child that is not yet in the list, and putting it at an index. *)
LEMMA AppendList ==
    ASSUME NEW T, NEW s \in Seq(T), Once(s), NEW x \in T, x \notin ToSet(s)
    PROVE  /\ Append(s, x) \in Seq(T)
           /\ Once(Append(s, x))
           /\ ToSet(Append(s, x)) = ToSet(s) \cup {x}
<1> DEFINE t == Append(s, x)
<1>1. /\ t \in Seq(T)
      /\ Len(t) = Len(s) + 1
      /\ t[Len(s) + 1] = x
      /\ \A j \in 1 .. Len(s) : t[j] = s[j]
  OBVIOUS
<1> HIDE DEF t
<1>2. Once(t)
  <2>1. SUFFICES ASSUME NEW a \in 1 .. Len(t), NEW b \in 1 .. Len(t), t[a] = t[b]
                 PROVE  a = b
    BY <1>1 DEF Once, IsInjective
  <2>2. \A j \in 1 .. Len(s) : s[j] # x
    BY DEF ToSet
  <2>3. QED
    BY <1>1, <2>1, <2>2 DEF Once, IsInjective
<1>3. ToSet(t) \subseteq ToSet(s) \cup {x}
  BY <1>1 DEF ToSet
<1>4. ASSUME NEW y \in ToSet(s) PROVE y \in ToSet(t)
  BY <1>1 DEF ToSet
<1>5. x \in ToSet(t)
  BY <1>1 DEF ToSet
<1>6. QED
  BY <1>1, <1>2, <1>3, <1>4, <1>5 DEF t

LEMMA InsertAtList ==
    ASSUME NEW T, NEW s \in Seq(T), Once(s), NEW x \in T, x \notin ToSet(s),
           NEW i \in 1 .. Len(s) + 1
    PROVE  /\ InsertAt(s, i, x) \in Seq(T)
           /\ Once(InsertAt(s, i, x))
           /\ ToSet(InsertAt(s, i, x)) = ToSet(s) \cup {x}
<1> DEFINE t == InsertAt(s, i, x)
<1> HIDE DEF t
<1>1. /\ t \in Seq(T)
      /\ Len(t) = Len(s) + 1
      /\ \A j \in 1 .. Len(s) + 1 :
            t[j] = IF j < i THEN s[j] ELSE IF j = i THEN x ELSE s[j - 1]
  <2>1. /\ t \in Seq(T)
        /\ Len(t) = Len(s) + 1
        /\ \A j \in 1 .. i - 1 : t[j] = s[j]
        /\ t[i] = x
        /\ \A j \in i + 1 .. Len(s) + 1 : t[j] = s[j - 1]
    BY InsertAtPositions DEF t
  <2>2. QED
    BY <2>1
<1>0. Len(s) \in Nat /\ \A j \in 1 .. Len(s) : s[j] \in T /\ s[j] # x
  BY DEF ToSet
<1>2. Once(t)
  <2>1. SUFFICES ASSUME NEW a \in 1 .. Len(t), NEW b \in 1 .. Len(t), t[a] = t[b]
                 PROVE  a = b
    BY <1>1 DEF Once, IsInjective
  <2> DEFINE p(j) == IF j < i THEN j ELSE j - 1
  <2>2. ASSUME NEW j \in 1 .. Len(t), j # i
        PROVE  p(j) \in 1 .. Len(s) /\ t[j] = s[p(j)] /\ t[j] # x
    BY <1>0, <1>1, <2>2
  <2>3. t[i] = x
    BY <1>0, <1>1
  <2>4. CASE a = i \/ b = i
    BY <2>1, <2>2, <2>3, <2>4
  <2>5. CASE a # i /\ b # i
    <3>1. p(a) = p(b)
      BY <2>1, <2>2, <2>5 DEF Once, IsInjective
    <3>2. QED
      BY <1>0, <1>1, <2>5, <3>1
  <2>6. QED
    BY <2>4, <2>5
<1>3. ToSet(t) \subseteq ToSet(s) \cup {x}
  <2>1. SUFFICES ASSUME NEW j \in 1 .. Len(t), t[j] # x PROVE t[j] \in ToSet(s)
    BY <1>1 DEF ToSet
  <2>2. CASE j < i
    <3>1. j \in 1 .. Len(s) /\ t[j] = s[j]
      BY <1>0, <1>1, <2>2
    <3>2. QED
      BY <3>1 DEF ToSet
  <2>3. CASE j > i
    <3>1. Len(t) = Len(s) + 1 /\ j \in Nat /\ i \in Nat \ {0} /\ Len(s) \in Nat
      BY <1>0, <1>1
    <3>2. j - 1 \in 1 .. Len(s)
      BY <2>3, <3>1
    <3>3. ~(j < i) /\ j # i
      BY <2>3, <3>1
    <3>4. t[j] = s[j - 1]
      BY <1>1, <3>3
    <3>5. QED
      BY <3>2, <3>4 DEF ToSet
  <2>4. QED
    BY <1>0, <1>1, <2>1, <2>2, <2>3
<1>4. ASSUME NEW y \in ToSet(s) PROVE y \in ToSet(t)
  <2>1. PICK j \in 1 .. Len(s) : s[j] = y
    BY DEF ToSet
  <2>2. CASE j < i
    <3>1. j \in 1 .. Len(t) /\ t[j] = y
      BY <1>0, <1>1, <2>1, <2>2
    <3>2. DOMAIN t = 1 .. Len(t)
      BY <1>1
    <3>3. QED
      BY <3>1, <3>2 DEF ToSet
  <2>3. CASE j >= i
    <3>1. j + 1 \in 1 .. Len(t) /\ t[j + 1] = y
      BY <1>0, <1>1, <2>1, <2>3
    <3>2. DOMAIN t = 1 .. Len(t)
      BY <1>1
    <3>3. QED
      BY <3>1, <3>2 DEF ToSet
  <2>4. QED
    BY <1>0, <2>1, <2>2, <2>3
<1>5. x \in ToSet(t)
  <2>1. i \in 1 .. Len(t) /\ t[i] = x
    BY <1>0, <1>1
  <2>2. QED
    BY <1>1, <2>1 DEF ToSet
<1>6. QED
  BY <1>1, <1>2, <1>3, <1>4, <1>5 DEF t

(* A child created or moved in stands in the list once, with all the others. *)
LEMMA AppendedList ==
    ASSUME NEW T, NEW s \in Seq(T), Once(s), NEW x \in T
    PROVE  /\ Appended(s, x) \in Seq(T)
           /\ Once(Appended(s, x))
           /\ ToSet(Appended(s, x)) = ToSet(s) \cup {x}
<1>1. CASE x \in ToSet(s)
  BY <1>1 DEF Appended
<1>2. CASE x \notin ToSet(s)
  BY <1>2, AppendList DEF Appended
<1>3. QED
  BY <1>1, <1>2

LEMMA InsertedList ==
    ASSUME NEW T, NEW s \in Seq(T), Once(s), NEW x \in T, NEW pos \in Nat
    PROVE  /\ Inserted(s, x, pos) \in Seq(T)
           /\ Once(Inserted(s, x, pos))
           /\ ToSet(Inserted(s, x, pos)) = ToSet(s) \cup {x}
<1> DEFINE rest == Without(s, x)
<1>1. /\ rest \in Seq(T)
      /\ Once(rest)
      /\ ToSet(rest) = ToSet(s) \ {x}
  BY WithoutList
<1>2. Inserted(s, x, pos) = IF pos >= Len(rest) THEN Append(rest, x) ELSE InsertAt(rest, pos + 1, x)
  BY DEF Inserted
<1> HIDE DEF rest
<1>3. CASE pos >= Len(rest)
  <2>1. Append(rest, x) \in Seq(T) /\ Once(Append(rest, x)) /\ ToSet(Append(rest, x)) = ToSet(s) \cup {x}
    BY <1>1, AppendList
  <2>2. QED
    BY <1>2, <1>3, <2>1
<1>4. CASE ~(pos >= Len(rest))
  <2>1. pos + 1 \in 1 .. Len(rest) + 1
    BY <1>1, <1>4
  <2>2. /\ InsertAt(rest, pos + 1, x) \in Seq(T)
        /\ Once(InsertAt(rest, pos + 1, x))
        /\ ToSet(InsertAt(rest, pos + 1, x)) = ToSet(rest) \cup {x}
    BY <1>1, <2>1, InsertAtList
  <2>3. QED
    BY <1>1, <1>2, <1>4, <2>2
<1>5. QED
  BY <1>3, <1>4

(* Taking the child out again gives back the order the others had.           *)
LEMMA WithoutPut ==
    ASSUME NEW T, NEW s \in Seq(T), NEW t \in Seq(T), NEW x, x \notin ToSet(s),
           NEW i \in 1 .. Len(s) + 1, Len(t) = Len(s) + 1,
           \A j \in 1 .. i - 1 : t[j] = s[j],
           t[i] = x,
           \A j \in i + 1 .. Len(s) + 1 : t[j] = s[j - 1]
    PROVE  Without(t, x) = s
<1>1. Len(s) \in Nat /\ i \in 1 .. Len(t) /\ DOMAIN t = 1 .. Len(t)
  OBVIOUS
<1>2. \A j \in 1 .. Len(s) : s[j] # x
  BY DEF ToSet
<1>3. ASSUME NEW j \in 1 .. Len(t), t[j] = x PROVE j = i
  <2>1. CASE j < i
    BY <1>1, <1>2, <1>3, <2>1
  <2>2. CASE j > i
    <3>1. j - 1 \in 1 .. Len(s) /\ t[j] = s[j - 1]
      BY <1>1, <2>2
    <3>2. QED
      BY <1>2, <1>3, <3>1
  <2>3. QED
    BY <1>1, <2>1, <2>2
<1>4. x \in ToSet(t)
  <2>1. i \in DOMAIN t /\ t[i] = x
    BY <1>1
  <2>2. QED
    BY <2>1 DEF ToSet
<1>5. (CHOOSE j \in DOMAIN t : t[j] = x) = i
  BY <1>1, <1>3
<1>6. Without(t, x) = RemoveAt(t, i)
  BY <1>4, <1>5 DEF Without
<1> DEFINE u == RemoveAt(t, i)
<1> HIDE DEF u
<1>7. /\ u \in Seq(T)
      /\ Len(u) = Len(s)
      /\ \A j \in 1 .. Len(s) : u[j] = IF j < i THEN t[j] ELSE t[j + 1]
  <2>1. /\ u \in Seq(T)
        /\ Len(u) = Len(t) - 1
        /\ \A j \in 1 .. Len(t) - 1 : u[j] = IF j < i THEN t[j] ELSE t[j + 1]
    BY <1>1, RemoveAtPositions, Zenon DEF u
  <2>2. QED
    BY <1>1, <2>1
<1>8. ASSUME NEW j \in 1 .. Len(s) PROVE u[j] = s[j]
  <2>1. CASE j < i
    BY <1>1, <1>7, <2>1
  <2>2. CASE ~(j < i)
    <3>1. j + 1 \in i + 1 .. Len(s) + 1
      BY <1>1, <2>2
    <3>2. t[j + 1] = s[(j + 1) - 1] /\ (j + 1) - 1 = j
      BY <3>1
    <3>3. QED
      BY <1>7, <2>2, <3>2
  <2>3. QED
    BY <2>1, <2>2
<1>9. u = s
  BY <1>7, <1>8, SeqEqual
<1>10. QED
  BY <1>6, <1>9 DEF u

LEMMA WithoutTwice ==
    ASSUME NEW T, NEW s \in Seq(T), Once(s), NEW x
    PROVE  Without(Without(s, x), x) = Without(s, x)
<1>1. x \notin ToSet(Without(s, x))
  BY WithoutList
<1>2. QED
  BY <1>1 DEF Without

LEMMA WithoutAppend ==
    ASSUME NEW T, NEW s \in Seq(T), NEW x \in T, x \notin ToSet(s)
    PROVE  Without(Append(s, x), x) = s
<1> DEFINE t == Append(s, x)
<1>1. /\ t \in Seq(T)
      /\ Len(s) \in Nat /\ Len(t) = Len(s) + 1
      /\ t[Len(s) + 1] = x
      /\ \A j \in 1 .. Len(s) : t[j] = s[j]
  OBVIOUS
<1> HIDE DEF t
<1>2. Without(t, x) = s
  BY <1>1, WithoutPut
<1>3. QED
  BY <1>2 DEF t

LEMMA WithoutAppended ==
    ASSUME NEW T, NEW s \in Seq(T), NEW x \in T
    PROVE  Without(Appended(s, x), x) = Without(s, x)
<1>1. CASE x \in ToSet(s)
  BY <1>1 DEF Appended
<1>2. CASE x \notin ToSet(s)
  <2>1. Without(s, x) = s
    BY <1>2 DEF Without
  <2>2. QED
    BY <1>2, <2>1, WithoutAppend DEF Appended
<1>3. QED
  BY <1>1, <1>2

LEMMA WithoutInserted ==
    ASSUME NEW T, NEW s \in Seq(T), Once(s), NEW x \in T, NEW pos \in Nat
    PROVE  Without(Inserted(s, x, pos), x) = Without(s, x)
<1> DEFINE rest == Without(s, x)
<1>1. rest \in Seq(T) /\ x \notin ToSet(rest) /\ Len(rest) \in Nat
  BY WithoutList
<1>2. Inserted(s, x, pos) = IF pos >= Len(rest) THEN Append(rest, x) ELSE InsertAt(rest, pos + 1, x)
  BY DEF Inserted
<1> HIDE DEF rest
<1>3. CASE pos >= Len(rest)
  BY <1>1, <1>2, <1>3, WithoutAppend DEF rest
<1>4. CASE ~(pos >= Len(rest))
  <2> DEFINE i == pos + 1
             t == InsertAt(rest, i, x)
  <2>1. i \in 1 .. Len(rest) + 1
    BY <1>1, <1>4
  <2> HIDE DEF i, t
  <2>2. /\ t \in Seq(T)
        /\ Len(t) = Len(rest) + 1
        /\ \A j \in 1 .. i - 1 : t[j] = rest[j]
        /\ t[i] = x
        /\ \A j \in i + 1 .. Len(rest) + 1 : t[j] = rest[j - 1]
    <3>1. rest \in Seq(T)
      BY <1>1
    <3>2. QED
      BY <2>1, <3>1, InsertAtPositions DEF t
  <2>3. Without(t, x) = rest
    BY <1>1, <2>1, <2>2, WithoutPut
  <2>4. QED
    BY <1>2, <1>4, <2>3 DEF t, i, rest
<1>5. QED
  BY <1>3, <1>4

-----------------------------------------------------------------------------
(* _unique_slug: of N numbers one at least is free while no more than N names *)
(* are taken, so the search ends, and the name it returns is not in use.     *)
LEMMA LeastNumber ==
    ASSUME NEW S \in SUBSET Nat, S # {}
    PROVE  \E k \in S : \A j \in S : ~(j < k)
<1> DEFINE R == OpToRel(<, Nat)
<1>1. IsWellFoundedOn(R, Nat)
  BY NatLessThanWellFounded
<1>2. \A x, y \in Nat : y < x => <<y, x>> \in R
  BY DEF OpToRel
<1> HIDE DEF R
<1>3. PICK k \in S : \A j \in S : ~(<<j, k>> \in R)
  BY <1>1, WFMin
<1>4. QED
  BY <1>2, <1>3

LEMMA UniqueSlugFree ==
    ASSUME NEW N \in Nat, NEW taken, IsFiniteSet(taken), Cardinality(taken) <= N,
           NEW base \in Seq(Nat)
    PROVE  /\ UniqueSlug(taken, base, 2 .. N + 1) \notin taken
           /\ UniqueSlug(taken, base, 2 .. N + 1)
                 \in {base} \cup {Append(base, k) : k \in 2 .. N + 1}
<1> DEFINE K == 2 .. N + 1
           free == {k \in K : Append(base, k) \notin taken}
<1>1. CASE base \notin taken
  BY <1>1 DEF UniqueSlug
<1>2. CASE base \in taken
  <2>1. free # {}
    <3>1. SUFFICES ASSUME \A k \in K : Append(base, k) \in taken PROVE FALSE
      OBVIOUS
    <3> DEFINE rest == taken \ {base}
               f == [k \in K |-> Append(base, k)]
    <3>2. \A j, k \in K : Append(base, k) # base /\ (Append(base, j) = Append(base, k) => j = k)
      <4>1. \A k \in Nat : Append(base, k) # base
        <5>1. SUFFICES ASSUME NEW k \in Nat, Append(base, k) = base PROVE FALSE
          OBVIOUS
        <5>2. Len(Append(base, k)) = Len(base) + 1 /\ Len(base) \in Nat
          OBVIOUS
        <5>3. QED
          BY <5>1, <5>2
      <4>2. \A j, k \in Nat : Append(base, j) = Append(base, k) => j = k
        <5>1. \A k \in Nat : Append(base, k)[Len(base) + 1] = k
          OBVIOUS
        <5>2. QED
          BY <5>1
      <4>3. QED
        BY <4>1, <4>2
    <3>3. f \in [K -> rest]
      BY <3>1, <3>2
    <3>4. f \in Injection(K, rest)
      BY <3>2, <3>3 DEF Injection, IsInjective
    <3>5. IsFiniteSet(rest) /\ Cardinality(rest) = Cardinality(taken) - 1
      BY <1>2, FS_RemoveElement
    <3>6. Cardinality(K) <= Cardinality(rest)
      BY <3>4, <3>5, FS_Injection
    <3>7. Cardinality(K) = N
      BY FS_Interval
    <3>8. Cardinality(taken) \in Nat
      BY FS_CardinalityType
    <3>9. QED
      BY <3>5, <3>6, <3>7, <3>8
  <2>2. PICK k \in free : \A j \in free : ~(j < k)
    <3>1. free \in SUBSET Nat
      OBVIOUS
    <3> HIDE DEF free
    <3>2. QED
      BY <2>1, <3>1, LeastNumber
  <2> DEFINE First(k0) == /\ Append(base, k0) \notin taken
                         /\ \A j \in K : j < k0 => Append(base, j) \in taken
             pick == CHOOSE k0 \in K : First(k0)
  <2>3. k \in K /\ First(k)
    BY <2>2
  <2>4. pick \in K /\ First(pick)
    BY <2>3, Zenon
  <2>5. UniqueSlug(taken, base, K) = Append(base, pick)
    BY <1>2 DEF UniqueSlug
  <2> HIDE DEF pick
  <2>6. QED
    BY <2>4, <2>5
<1>3. QED
  BY <1>1, <1>2
-----------------------------------------------------------------------------
(* What is built downwards from the root, as a path is from the path of the  *)
(* parent, exists for every forest of parent links: two such functions agree *)
(* where both are defined, so they can be joined, and a node outside all of  *)
(* them whose parent is inside would make one larger.                        *)
Downwards(home, root, X, first, ext, f) ==
    /\ f \in [DOMAIN home -> X]
    /\ \A d \in DOMAIN home : f[d] = IF home[d] = root THEN first[d] ELSE ext[d][f[home[d]]]

LEMMA BuiltFromRoot ==
    ASSUME NEW home, Rooted(home), NEW root, root \notin DOMAIN home,
           \A d \in DOMAIN home : home[d] \in DOMAIN home \cup {root},
           NEW X, NEW first \in [DOMAIN home -> X], NEW ext \in [DOMAIN home -> [X -> X]]
    PROVE  \E f : Downwards(home, root, X, first, ext, f)
<1> DEFINE D == DOMAIN home
           Closed(E) == E \in SUBSET D /\ \A d \in E : home[d] \in E \cup {root}
           Built(E, f) == /\ f \in [E -> X]
                          /\ \A d \in E : f[d] = IF home[d] = root THEN first[d]
                                                 ELSE ext[d][f[home[d]]]
           Parts == {E \in SUBSET D : Closed(E) /\ \E f : Built(E, f)}
           U == UNION Parts
           on(E) == CHOOSE f : Built(E, f)
           h == [d \in U |-> on(CHOOSE E \in Parts : d \in E)[d]]
<1>1. ASSUME NEW E, NEW f, NEW G, NEW g, Closed(E), Built(E, f), Closed(G), Built(G, g),
             NEW d \in E \cap G
      PROVE  f[d] = g[d]
  <2> DEFINE B == {x \in E \cap G : f[x] # g[x]}
  <2>1. SUFFICES ASSUME B # {} PROVE FALSE
    OBVIOUS
  <2>2. PICK x \in B : home[x] \notin B
    BY <1>1, <2>1 DEF Rooted
  <2>3. home[x] = root \/ (home[x] \in E \cap G /\ f[home[x]] = g[home[x]])
    BY <1>1, <2>2
  <2>4. QED
    BY <1>1, <2>2, <2>3
<1>2. ASSUME NEW E \in Parts PROVE Closed(E) /\ Built(E, on(E))
  <2>1. \E f : Built(E, f)
    OBVIOUS
  <2> HIDE DEF Built
  <2>2. QED
    BY <2>1
<1>3. ASSUME NEW E \in Parts, NEW d \in E PROVE d \in U /\ h[d] = on(E)[d]
  <2> DEFINE G == CHOOSE G \in Parts : d \in G
  <2>1. d \in U
    OBVIOUS
  <2>2. G \in Parts /\ d \in G
    BY <2>1
  <2>3. h[d] = on(G)[d]
    BY <2>1
  <2> HIDE DEF G, Built, Closed, Parts, on, h
  <2>4. on(G)[d] = on(E)[d]
    BY <1>1, <1>2, <2>2
  <2>5. QED
    BY <2>1, <2>3, <2>4
<1>4. Closed(U)
  BY <1>2
<1>5. Built(U, h)
  <2>1. ASSUME NEW d \in U
        PROVE  h[d] \in X /\ h[d] = IF home[d] = root THEN first[d] ELSE ext[d][h[home[d]]]
    <3>1. PICK E \in Parts : d \in E
      OBVIOUS
    <3>2. Closed(E) /\ Built(E, on(E))
      BY <1>2
    <3> HIDE DEF h, on, Parts, U
    <3>3. h[d] = on(E)[d]
      BY <1>3, <3>1
    <3>4. home[d] # root => h[home[d]] = on(E)[home[d]]
      BY <1>3, <3>1, <3>2
    <3>5. QED
      BY <3>1, <3>2, <3>3, <3>4
  <2>2. h \in [U -> X]
    <3>1. h = [d \in U |-> h[d]]
      OBVIOUS
    <3> HIDE DEF h
    <3>2. QED
      BY <2>1, <3>1
  <2> HIDE DEF h
  <2>3. QED
    BY <2>1, <2>2
<1>6. ASSUME U # D PROVE FALSE
  <2>1. D \ U \in SUBSET D /\ D \ U # {}
    BY <1>4, <1>6
  <2>2. PICK x \in D \ U : home[x] \notin D \ U
    BY <2>1 DEF Rooted
  <2>3. home[x] \in U \cup {root}
    BY <2>2
  <2> DEFINE E == U \cup {x}
             k == [d \in E |-> IF d = x THEN IF home[x] = root THEN first[x] ELSE ext[x][h[home[x]]]
                               ELSE h[d]]
  <2> HIDE DEF h
  <2>4. Closed(E)
    BY <1>4, <2>2, <2>3
  <2>5. ASSUME NEW d \in E
        PROVE  k[d] \in X /\ k[d] = IF home[d] = root THEN first[d] ELSE ext[d][k[home[d]]]
    <3>1. CASE d = x
      <4>1. k[x] = IF home[x] = root THEN first[x] ELSE ext[x][h[home[x]]]
        OBVIOUS
      <4>2. home[x] # root => k[home[x]] = h[home[x]] /\ h[home[x]] \in X
        BY <1>5, <2>2, <2>3
      <4> HIDE DEF k
      <4>3. QED
        BY <2>2, <3>1, <4>1, <4>2
    <3>2. CASE d # x
      <4>1. d \in U /\ k[d] = h[d]
        BY <3>2
      <4>2. home[d] # root => home[d] \in U /\ k[home[d]] = h[home[d]]
        BY <1>4, <2>2, <4>1
      <4> HIDE DEF k
      <4>3. QED
        BY <1>5, <4>1, <4>2
    <3>3. QED
      BY <3>1, <3>2
  <2>6. k \in [E -> X]
    <3>1. k = [d \in E |-> k[d]]
      OBVIOUS
    <3> HIDE DEF k
    <3>2. QED
      BY <2>5, <3>1
  <2>7. Built(E, k)
    <3> HIDE DEF k
    <3>1. QED
      BY <2>5, <2>6
  <2>8. E \in Parts
    BY <2>4, <2>7
  <2>9. QED
    BY <2>2, <2>8
<1> HIDE DEF h, U
<1>7. QED
  BY <1>5, <1>6 DEF Downwards
(* Only keeps what it is to keep, each member once and in order.             *)
Keeps(T, s, S, f) ==
    /\ f \in [0 .. Len(s) -> Seq(T)]
    /\ f[0] = << >> /\ Only(s, S) = f[Len(s)]
    /\ \A i \in 1 .. Len(s) : f[i] = IF s[i] \in S THEN Append(f[i - 1], s[i]) ELSE f[i - 1]

LEMMA OnlySteps == ASSUME NEW T, NEW s \in Seq(T), NEW S PROVE \E f : Keeps(T, s, S, f)
<1> DEFINE N == Len(s)
           D == 0 .. N
           X == Seq(T)
           home == [i \in D |-> i - 1]
           first == [i \in D |-> << >>]
           ext == [i \in D |-> [t \in X |-> IF i # 0 /\ s[i] \in S THEN Append(t, s[i]) ELSE t]]
           Over(f) == [i \in D |-> IF i = 0 THEN << >>
                                   ELSE IF s[i] \in S THEN Append(f[i - 1], s[i]) ELSE f[i - 1]]
           kept == CHOOSE f : f = Over(f)
<1>1. N \in Nat /\ \A i \in 1 .. N : s[i] \in T
  OBVIOUS
<1>2. Only(s, S) = kept[N]
  BY DEF Only
<1>3. Rooted(home)
  <2>1. SUFFICES ASSUME NEW B \in SUBSET D, B # {} PROVE \E x \in B : x - 1 \notin B
    BY DEF Rooted
  <2>2. PICK k \in B : \A j \in B : ~(j < k)
    <3>1. B \in SUBSET Nat
      BY <1>1, <2>1
    <3>2. QED
      BY <2>1, <3>1, LeastNumber
  <2>3. k - 1 < k
    BY <1>1, <2>1
  <2>4. QED
    BY <2>2, <2>3
<1>4. DOMAIN home = D /\ -1 \notin D /\ \A i \in D : home[i] = i - 1 /\ home[i] \in D \cup {-1}
  BY <1>1
<1>5. first \in [D -> X] /\ ext \in [D -> [X -> X]]
  <2>1. << >> \in X
    OBVIOUS
  <2>2. ASSUME NEW i \in D, NEW t \in X
        PROVE  (IF i # 0 /\ s[i] \in S THEN Append(t, s[i]) ELSE t) \in X
    <3>1. CASE i # 0
      <4>1. s[i] \in T
        BY <1>1, <3>1
      <4>2. QED
        BY <4>1
    <3>2. CASE i = 0
      BY <3>2
    <3>3. QED
      BY <3>1, <3>2
  <2>3. QED
    BY <2>1, <2>2
<1>6. PICK f : /\ f \in [D -> X]
               /\ \A i \in D : f[i] = IF home[i] = -1 THEN first[i] ELSE ext[i][f[home[i]]]
  <2> HIDE DEF home, first, ext, X, D
  <2>1. /\ -1 \notin DOMAIN home /\ \A i \in DOMAIN home : home[i] \in DOMAIN home \cup {-1}
        /\ first \in [DOMAIN home -> X] /\ ext \in [DOMAIN home -> [X -> X]]
    BY <1>4, <1>5
  <2>2. \E f : Downwards(home, -1, X, first, ext, f)
    BY <1>3, <2>1, BuiltFromRoot
  <2>3. QED
    BY <1>4, <2>2 DEF Downwards
<1>7. ASSUME NEW i \in D
      PROVE  f[i] = IF i = 0 THEN << >>
                    ELSE IF s[i] \in S THEN Append(f[i - 1], s[i]) ELSE f[i - 1]
  <2>1. CASE i = 0
    <3>1. home[i] = -1
      BY <2>1
    <3>2. QED
      BY <1>6, <2>1, <3>1
  <2>2. CASE i # 0
    <3>1. home[i] = i - 1 /\ i - 1 \in D /\ home[i] # -1
      BY <1>1, <2>2
    <3>2. f[i - 1] \in X /\ f[i] = ext[i][f[i - 1]]
      <4> HIDE DEF home, ext, X, D
      <4>1. QED
        BY <1>6, <3>1
    <3>3. QED
      BY <2>2, <3>2
  <2>3. QED
    BY <2>1, <2>2
<1>8. kept = Over(kept)
  <2>1. f = Over(f)
    BY <1>6, <1>7
  <2> HIDE DEF Over
  <2>2. QED
    BY <2>1, Zenon
<1> HIDE DEF kept
<1>9. ASSUME NEW i \in D
      PROVE  kept[i] = IF i = 0 THEN << >>
                       ELSE IF s[i] \in S THEN Append(kept[i - 1], s[i]) ELSE kept[i - 1]
  <2>1. kept[i] = Over(kept)[i]
    <3> HIDE DEF Over
    <3>1. QED
      BY <1>8
  <2>2. QED
    BY <2>1
<1>10. \A i \in D : kept[i] \in X
  <2> DEFINE B == {i \in D : kept[i] \notin X}
  <2>1. SUFFICES ASSUME B # {} PROVE FALSE
    OBVIOUS
  <2>2. PICK k \in B : \A j \in B : ~(j < k)
    <3>1. B \in SUBSET Nat
      BY <1>1
    <3> HIDE DEF B
    <3>2. QED
      BY <2>1, <3>1, LeastNumber
  <2>3. k # 0
    <3>1. 0 \in D /\ << >> \in X
      BY <1>1
    <3>2. kept[0] = << >>
      BY <1>9, <3>1
    <3>3. kept[0] \in X
      BY <3>1, <3>2
    <3>4. QED
      BY <2>2, <3>3
  <2>4. k - 1 \in D /\ k - 1 < k /\ s[k] \in T
    BY <1>1, <2>3
  <2>5. kept[k - 1] \in X
    BY <2>2, <2>4
  <2>6. kept[k] \in X
    <3>1. kept[k] = IF s[k] \in S THEN Append(kept[k - 1], s[k]) ELSE kept[k - 1]
      BY <1>9, <2>2, <2>3
    <3>2. Append(kept[k - 1], s[k]) \in X
      BY <2>4, <2>5
    <3>3. QED
      BY <2>5, <3>1, <3>2
  <2>7. QED
    BY <2>2, <2>6
<1>11. kept \in [D -> X]
  <2>1. kept = [i \in D |-> kept[i]]
    BY <1>8, Zenon
  <2>2. QED
    BY <1>10, <2>1
<1>12. 0 \in D /\ \A i \in 1 .. N : i \in D /\ i # 0
  BY <1>1
<1>13. Keeps(T, s, S, kept)
  BY <1>2, <1>9, <1>11, <1>12 DEF Keeps
<1>14. QED
  BY <1>13

LEMMA OnlyList ==
    ASSUME NEW T, NEW s \in Seq(T), Once(s), NEW S
    PROVE  Only(s, S) \in Seq(T) /\ Once(Only(s, S)) /\ ToSet(Only(s, S)) = ToSet(s) \cap S
<1> DEFINE N == Len(s)
<1>1. PICK f : Keeps(T, s, S, f)
  BY OnlySteps
<1>2. /\ f \in [0 .. N -> Seq(T)]
      /\ f[0] = << >> /\ Only(s, S) = f[N]
      /\ \A i \in 1 .. N : f[i] = IF s[i] \in S THEN Append(f[i - 1], s[i]) ELSE f[i - 1]
  BY <1>1 DEF Keeps
<1> DEFINE Part(i) == {s[j] : j \in 1 .. i} \cap S
           Good(i) == Once(f[i]) /\ ToSet(f[i]) = Part(i)
           B == {i \in 0 .. N : ~Good(i)}
<1>3. N \in Nat /\ DOMAIN s = 1 .. N /\ \A i \in 1 .. N : s[i] \in T
  OBVIOUS
<1>4. B = {}
  <2>1. SUFFICES ASSUME B # {} PROVE FALSE
    OBVIOUS
  <2>2. PICK k \in B : \A j \in B : ~(j < k)
    <3>1. B \in SUBSET Nat
      BY <1>3
    <3> HIDE DEF B
    <3>2. QED
      BY <2>1, <3>1, LeastNumber
  <2>3. CASE k = 0
    <3>1. Once(<< >>) /\ ToSet(<< >>) = {}
      BY DEF Once, IsInjective, ToSet
    <3>2. Part(0) = {}
      OBVIOUS
    <3> HIDE DEF Part
    <3>3. QED
      BY <1>2, <2>2, <2>3, <3>1, <3>2
  <2>4. CASE k # 0
    <3>1. k \in 1 .. N /\ k - 1 \in 0 .. N /\ k - 1 < k
      BY <1>3, <2>4
    <3>2. Good(k - 1)
      BY <2>2, <3>1
    <3> DEFINE u == f[k - 1]
               x == s[k]
    <3>3. u \in Seq(T) /\ x \in T /\ Once(u) /\ ToSet(u) = Part(k - 1)
      BY <1>2, <1>3, <3>1, <3>2
    <3>4. Part(k) = IF x \in S THEN Part(k - 1) \cup {x} ELSE Part(k - 1)
      <4>1. 1 .. k = 1 .. k - 1 \cup {k}
        BY <1>3, <3>1
      <4>2. QED
        BY <4>1
    <3>5. x \notin Part(k - 1)
      <4>1. \A j \in 1 .. k - 1 : j \in DOMAIN s /\ k \in DOMAIN s /\ j # k
        BY <1>3, <3>1
      <4>2. QED
        BY <4>1 DEF Once, IsInjective
    <3>6. f[k] = IF x \in S THEN Append(u, x) ELSE u
      BY <1>2, <3>1
    <3> HIDE DEF u, x, Part
    <3>7. Once(f[k]) /\ ToSet(f[k]) = Part(k)
      <4>1. x \notin ToSet(u)
        BY <3>3, <3>5
      <4>2. Once(Append(u, x)) /\ ToSet(Append(u, x)) = ToSet(u) \cup {x}
        BY <3>3, <4>1, AppendList
      <4>3. QED
        BY <3>3, <3>4, <3>6, <4>2
    <3>8. QED
      BY <2>2, <3>7
  <2>5. QED
    BY <2>3, <2>4
<1>5. Good(N)
  <2>1. N \in 0 .. N
    BY <1>3
  <2> HIDE DEF Good, N
  <2>2. QED
    BY <1>4, <2>1
<1>6. Part(N) = ToSet(s) \cap S
  BY <1>3 DEF ToSet
<1>7. QED
  BY <1>2, <1>3, <1>5, <1>6

=============================================================================
