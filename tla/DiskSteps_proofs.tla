-------------------------- MODULE DiskSteps_proofs --------------------------
(* Proofs about DiskSteps: the types, that a crash harms nothing but what    *)
(* its request was about, that the next boot loads all the rest, and that    *)
(* the calls of a request which no crash cut come to one step of             *)
(* LocalFilesystem. Files are passed around as one record, since a proof has *)
(* to speak of those a request began with, those it has made so far and      *)
(* those it will leave.                                                      *)
EXTENDS DiskSteps, NodeTree_proofs

Homes(G) == [d \in DOMAIN G.place |-> G.place[d].home]
InsideOf(G) == [d \in DOMAIN G.place |-> {e \in DOMAIN G.place : G.place[e].home = d}]
BelowIn(G, d) == Reach(InsideOf(G), d)

(* What a crash now would harm, when the request is about a.                 *)
Hurt(G, a) == {a} \cup UNION {BelowIn(G, d) : d \in {a} \cap DOMAIN G.place}

FilesOK(G) ==
    /\ G.issued \subseteq Id /\ DOMAIN G.place \subseteq G.issued
    /\ DOMAIN G.node \cup DOMAIN G.canvas \subseteq DOMAIN G.place
    /\ G.place = [d \in DOMAIN G.place |-> [home |-> G.place[d].home, slug |-> G.place[d].slug]]
    /\ \A d \in DOMAIN G.place : G.place[d].home \in DOMAIN G.place \cup {Root}
    /\ G.node \in [DOMAIN G.node -> Record] /\ \A n \in DOMAIN G.node : G.node[n].parent # n
    /\ G.kids \in [DOMAIN G.node -> Seq(Id)] /\ \A n \in DOMAIN G.node : Once(G.kids[n])
    /\ G.canvas \in [DOMAIN G.canvas -> Canvas]

SoundIn(G, n) ==
    /\ G.node[n].parent = G.place[n].home
    /\ G.node[n].parent # Root => /\ G.node[n].parent \in DOMAIN G.node
                                  /\ n \in ToSet(G.kids[G.node[n].parent])
    /\ \A c \in ToSet(G.kids[n]) : /\ c \in DOMAIN G.node
                                   /\ G.node[c].parent = n /\ G.place[c].home = n

(* All but the nodes of C are sound, and no directory is inside itself.      *)
Sane(G, C) ==
    /\ FilesOK(G) /\ Rooted(Homes(G))
    /\ \A n \in DOMAIN G.node \ C : SoundIn(G, n)

(* No directory is without its two files.                                    *)
Whole(G) == DOMAIN G.place = DOMAIN G.node /\ DOMAIN G.canvas = DOMAIN G.node

-----------------------------------------------------------------------------
(* The steps of LocalFilesystem, from one record of files to another.        *)
NamesIn(F, p, own) ==
    {F.place[m].slug : m \in {m \in DOMAIN F.node \ own : F.place[m].home = p}}
FreeIn(F, p, own, t) ==
    [home |-> p, slug |-> UniqueSlug(NamesIn(F, p, own), SlugOf[t], Suffix)]

Created(F, H, n, p, t) ==
    /\ n \in Id \ F.issued /\ p \in DOMAIN F.node \cup {Root}
    /\ H = [place |-> With(F.place, n, FreeIn(F, p, {}, t)),
            node |-> With(F.node, n, [title |-> t, parent |-> p, meta |-> NoMeta]),
            kids |-> [x \in DOMAIN F.node \cup {n} |->
                         IF x = n THEN << >> ELSE IF x = p THEN Appended(F.kids[x], n) ELSE F.kids[x]],
            canvas |-> With(F.canvas, n, Blank),
            issued |-> F.issued \cup {n}]

Renamed(F, H, n, t) ==
    /\ n \in DOMAIN F.node
    /\ H = [place |-> [F.place EXCEPT ![n].slug = FreeIn(F, F.place[n].home, {n}, t).slug],
            node |-> [F.node EXCEPT ![n].title = t],
            kids |-> F.kids, canvas |-> F.canvas, issued |-> F.issued]

Noted(F, H, n, m) ==
    /\ n \in DOMAIN F.node
    /\ H = [F EXCEPT !.node = [F.node EXCEPT ![n].meta = m]]

Moved(F, H, n, p, pos) ==
    /\ n \in DOMAIN F.node /\ p \in (DOMAIN F.node \ BelowIn(F, n)) \cup {Root}
    /\ H = [place |-> [F.place EXCEPT ![n] = FreeIn(F, p, {}, F.node[n].title)],
            node |-> [F.node EXCEPT ![n].parent = p],
            kids |-> [x \in DOMAIN F.node |->
                         IF x = p THEN Inserted(F.kids[x], n, pos)
                         ELSE IF x = F.node[n].parent THEN Without(F.kids[x], n)
                         ELSE F.kids[x]],
            canvas |-> F.canvas, issued |-> F.issued]

Deleted(F, H, n) ==
    /\ n \in DOMAIN F.node
    /\ LET kept == DOMAIN F.node \ BelowIn(F, n)
       IN  H = [place |-> [x \in kept |-> F.place[x]],
                node |-> [x \in kept |-> F.node[x]],
                kids |-> [x \in kept |->
                             IF x = F.node[n].parent THEN Without(F.kids[x], n) ELSE F.kids[x]],
                canvas |-> [x \in kept |-> F.canvas[x]],
                issued |-> F.issued]

Written(F, H, n, c) ==
    /\ n \in DOMAIN F.node
    /\ H = [F EXCEPT !.canvas = [F.canvas EXCEPT ![n] = c]]

OneStep(F, H) ==
    \/ \E n \in Id, p \in Id \cup {Root}, t \in Title : Created(F, H, n, p, t)
    \/ \E n \in Id, t \in Title : Renamed(F, H, n, t)
    \/ \E n \in Id, m \in Meta : Noted(F, H, n, m)
    \/ \E n \in Id, p \in Id \cup {Root}, pos \in Position : Moved(F, H, n, p, pos)
    \/ \E n \in Id : Deleted(F, H, n)
    \/ \E n \in Id, c \in Canvas : Written(F, H, n, c)

Shape(G) == G = [place |-> G.place, node |-> G.node, kids |-> G.kids,
                 canvas |-> G.canvas, issued |-> G.issued]

(* The operators of the instance are those of this module.                   *)
LEMMA SameUniqueSlug ==
    ASSUME NEW s, NEW b, NEW S PROVE Atomic!UniqueSlug(s, b, S) = UniqueSlug(s, b, S)
BY DEF Atomic!UniqueSlug, UniqueSlug

LEMMA SameReach == ASSUME NEW f, NEW r PROVE Atomic!Reach(f, r) = Reach(f, r)
BY DEF Atomic!Reach, Reach

LEMMA SameLists ==
    ASSUME NEW s, NEW x, NEW i
    PROVE  /\ Atomic!Without(s, x) = Without(s, x)
           /\ Atomic!Appended(s, x) = Appended(s, x)
           /\ Atomic!Inserted(s, x, i) = Inserted(s, x, i)
BY DEF Atomic!Inserted, Inserted, Atomic!Without, Without, Atomic!InsertAt, InsertAt,
       Atomic!RemoveAt, RemoveAt, Atomic!ToSet, ToSet, Atomic!Appended, Appended

(* Where every directory has its files, a step from record to record is one  *)
(* of LocalFilesystem.                                                       *)
LEMMA AtomicNames ==
    ASSUME NEW p, NEW n, Whole(Shown)
    PROVE  /\ Atomic!SlugsIn(p) = NamesIn(Shown, p, {})
           /\ {Shown.place[m].slug : m \in {m \in DOMAIN Shown.node \ {n} : Shown.place[m].home = p}}
                 = NamesIn(Shown, p, {n})
           /\ Atomic!DirectoryTree(n) = BelowIn(Shown, n)
           /\ Atomic!Suffix = Suffix /\ Atomic!Live = DOMAIN Shown.node
<1>1. Atomic!Live = DOMAIN Shown.node /\ Atomic!Suffix = Suffix
  BY DEF Atomic!Live, Atomic!Suffix, Suffix, Atomic!Cardinality, Cardinality
<1>2. Atomic!SlugsIn(p) = NamesIn(Shown, p, {})
  BY <1>1 DEF Atomic!SlugsIn, NamesIn
<1>3. Atomic!Subdirs = InsideOf(Shown)
  BY <1>1 DEF Atomic!Subdirs, InsideOf, Whole
<1>4. Atomic!DirectoryTree(n) = BelowIn(Shown, n)
  BY <1>3, SameReach DEF Atomic!DirectoryTree, BelowIn
<1>5. QED
  BY <1>1, <1>2, <1>4 DEF NamesIn

LEMMA AtomicStep ==
    ASSUME Whole(Shown), FilesOK(Shown), Shape(Shown), OneStep(Shown, Shown')
    PROVE  Atomic!FsNext
<1> DEFINE F == Shown
           H == Shown'
<1>1. ASSUME NEW n \in Id, NEW p \in Id \cup {Root}, NEW t \in Title, Created(F, H, n, p, t)
      PROVE  Atomic!FsNext
  <2>1. Atomic!FsCreate(n, p, t)
    BY <1>1, AtomicNames, SameUniqueSlug, SameLists
    DEF Created, Whole, FreeIn, With, Atomic!FsCreate
  <2>2. QED
    BY <2>1 DEF Atomic!FsNext
<1>2. ASSUME NEW n \in Id, NEW t \in Title, Renamed(F, H, n, t)
      PROVE  Atomic!FsNext
  <2>1. Atomic!FsRename(n, t)
    BY <1>2, AtomicNames, SameUniqueSlug DEF Renamed, Shape, FreeIn, Atomic!FsRename
  <2>2. QED
    BY <2>1 DEF Atomic!FsNext
<1>3. ASSUME NEW n \in Id, NEW m \in Meta, Noted(F, H, n, m)
      PROVE  Atomic!FsNext
  <2>1. Atomic!FsSetMeta(n, m)
    BY <1>3, AtomicNames DEF Noted, Shape, FilesOK, Atomic!FsSetMeta, Atomic!FsWriteNode
  <2>2. QED
    BY <2>1 DEF Atomic!FsNext
<1>4. ASSUME NEW n \in Id, NEW p \in Id \cup {Root}, NEW pos \in Position, Moved(F, H, n, p, pos)
      PROVE  Atomic!FsNext
  <2>1. Atomic!FsMove(n, p, pos)
    BY <1>4, AtomicNames, SameUniqueSlug, SameLists DEF Moved, Shape, FreeIn, Atomic!FsMove
  <2>2. QED
    BY <2>1 DEF Atomic!FsNext
<1>5. ASSUME NEW n \in Id, Deleted(F, H, n) PROVE Atomic!FsNext
  <2>1. Atomic!FsDelete(n)
    BY <1>5, AtomicNames, SameLists DEF Deleted, Atomic!FsDelete
  <2>2. QED
    BY <2>1 DEF Atomic!FsNext
<1>6. ASSUME NEW n \in Id, NEW c \in Canvas, Written(F, H, n, c)
      PROVE  Atomic!FsNext
  <2>1. Atomic!FsWriteCanvas(n, c)
    BY <1>6, AtomicNames DEF Written, Shape, Atomic!FsWriteCanvas
  <2>2. QED
    BY <2>1 DEF Atomic!FsNext
<1>7. QED
  BY <1>1, <1>2, <1>3, <1>4, <1>5, <1>6 DEF OneStep

-----------------------------------------------------------------------------
(* One call made on a record of files.                                       *)
Put(G, u) ==
    [place |-> IF u.do = "dir" THEN With(G.place, u.at, u.to) ELSE G.place,
     node |-> IF u.do = "json" THEN With(G.node, u.at, u.record) ELSE G.node,
     kids |-> IF u.do = "json" THEN With(G.kids, u.at, u.list) ELSE G.kids,
     canvas |-> IF u.do = "canvas" THEN With(G.canvas, u.at, u.text) ELSE G.canvas,
     issued |-> G.issued]

(* Every list that is still to be trusted and names a is that of the node    *)
(* whose directory holds a, and which a names as its parent.                 *)
Listed(G, a, C) ==
    \A n \in DOMAIN G.node \ (C \cup {a}) :
        a \in ToSet(G.kids[n]) => /\ a \in DOMAIN G.node
                                  /\ G.node[a].parent = n /\ G.place[a].home = n
Unlisted(G, a, C) == \A n \in DOMAIN G.node \ (C \cup {a}) : a \notin ToSet(G.kids[n])

(* From F to G only a has changed, and where the lists of others name it.    *)
Mild(F, a, G) ==
    /\ DOMAIN G.place \ {a} = DOMAIN F.place \ {a}
    /\ \A d \in DOMAIN G.place \ {a} : G.place[d] = F.place[d]
    /\ DOMAIN G.node \ {a} = DOMAIN F.node \ {a}
    /\ \A x \in DOMAIN G.node \ {a} :
          /\ G.node[x] = F.node[x]
          /\ ToSet(G.kids[x]) \ {a} = ToSet(F.kids[x]) \ {a}

Safe(F, a, C, G) ==
    FilesOK(G) /\ Rooted(Homes(G)) /\ Mild(F, a, G) /\ Listed(G, a, C)

LEMMA ListMembers ==
    ASSUME NEW G, FilesOK(G), NEW n \in DOMAIN G.node, NEW c \in ToSet(G.kids[n])
    PROVE  c \in Id
<1>1. G.kids[n] \in Seq(Id)
  BY DEF FilesOK
<1>2. QED
  BY <1>1 DEF ToSet

(* What a request starts from is safe.                                       *)
LEMMA SafeStart ==
    ASSUME NEW F, NEW C, NEW a, Sane(F, C)
    PROVE  Safe(F, a, C, F)
BY DEF Sane, Safe, Mild, Listed, SoundIn

LEMMA SoundOthers ==
    ASSUME NEW F, NEW C, NEW a \in Id, NEW G, Safe(F, a, C, G),
           NEW n \in DOMAIN F.node, n \in DOMAIN G.node, n # a, n \notin C, SoundIn(F, n),
           G.node[n].parent = a => a \in DOMAIN G.node /\ n \in ToSet(G.kids[a])
    PROVE  SoundIn(G, n)
<1>1. G.node[n] = F.node[n] /\ G.place[n] = F.place[n]
  BY DEF Safe, Mild, FilesOK
<1>2. ASSUME NEW p, p = G.node[n].parent, p # Root
      PROVE  p \in DOMAIN G.node /\ n \in ToSet(G.kids[p])
  <2>1. CASE p = a
    BY <1>2, <2>1
  <2>2. CASE p # a
    <3>1. p \in DOMAIN F.node /\ n \in ToSet(F.kids[p])
      BY <1>1, <1>2 DEF SoundIn
    <3>2. p \in DOMAIN G.node
      BY <2>2, <3>1 DEF Safe, Mild
    <3>3. n \in ToSet(G.kids[p])
      BY <2>2, <3>1, <3>2 DEF Safe, Mild
    <3>4. QED
      BY <3>2, <3>3
  <2>3. QED
    BY <2>1, <2>2
<1>3. ASSUME NEW c \in ToSet(G.kids[n])
      PROVE  c \in DOMAIN G.node /\ G.node[c].parent = n /\ G.place[c].home = n
  <2>1. CASE c = a
    BY <2>1 DEF Safe, Listed
  <2>2. CASE c # a
    <3>1. c \in ToSet(F.kids[n])
      BY <2>2 DEF Safe, Mild
    <3>2. c \in DOMAIN F.node /\ F.node[c].parent = n /\ F.place[c].home = n
      BY <3>1 DEF SoundIn
    <3>3. c \in DOMAIN G.node /\ c \in DOMAIN G.place
      BY <2>2, <3>2 DEF Safe, Mild, FilesOK
    <3>4. QED
      BY <2>2, <3>2, <3>3 DEF Safe, Mild
  <2>3. QED
    BY <2>1, <2>2
<1>4. QED
  BY <1>1, <1>2, <1>3 DEF SoundIn

(* A crash there would harm a and what lies below it.                        *)
LEMMA SafeIsFine ==
    ASSUME NEW F, NEW C, NEW a \in Id, NEW G, Sane(F, C), Safe(F, a, C, G)
    PROVE  Sane(G, C \cup Hurt(G, a))
<1> SUFFICES ASSUME NEW n \in DOMAIN G.node, n \notin C, n \notin Hurt(G, a)
             PROVE  SoundIn(G, n)
  BY DEF Sane, Safe
<1>1. n # a /\ n \in DOMAIN F.node /\ n \in DOMAIN G.place /\ n \in Id
  BY DEF Hurt, Safe, Mild, FilesOK
<1>2. SoundIn(F, n) /\ G.node[n] = F.node[n] /\ G.place[n] = F.place[n]
  BY <1>1 DEF Sane, Safe, Mild
<1>3. G.node[n].parent # a
  <2>1. SUFFICES ASSUME G.place[n].home = a PROVE FALSE
    BY <1>2 DEF SoundIn
  <2>2. a \in DOMAIN G.place
    BY <1>1, <2>1, IdAssumption DEF Safe, FilesOK
  <2>3. a \in BelowIn(G, a)
    BY <2>2, ReachSelf DEF BelowIn, InsideOf
  <2>4. n \in InsideOf(G)[a] /\ n \in DOMAIN InsideOf(G)
    BY <1>1, <2>1, <2>2 DEF InsideOf
  <2>5. n \in BelowIn(G, a)
    BY <2>3, <2>4, ReachClosed DEF BelowIn
  <2>6. QED
    BY <2>2, <2>5 DEF Hurt
<1>4. QED
  BY <1>1, <1>2, <1>3, SoundOthers

(* Where it is done, nothing is harmed, if a is where it should be.          *)
LEMMA SafeIsSane ==
    ASSUME NEW F, NEW C, NEW a \in Id, NEW G, Sane(F, C), Safe(F, a, C, G),
           a \in DOMAIN F.node => a \in DOMAIN G.node /\ G.kids[a] = F.kids[a],
           a \in DOMAIN G.node \ DOMAIN F.node => G.kids[a] = << >>,
           a \in DOMAIN G.node \ C =>
               /\ G.node[a].parent = G.place[a].home
               /\ G.node[a].parent # Root => /\ G.node[a].parent \in DOMAIN G.node
                                             /\ a \in ToSet(G.kids[G.node[a].parent])
    PROVE  Sane(G, C)
<1> SUFFICES ASSUME NEW n \in DOMAIN G.node, n \notin C PROVE SoundIn(G, n)
  BY DEF Sane, Safe
<1>1. CASE n = a
  <2>1. CASE a \in DOMAIN F.node
    <3>1. SoundIn(F, a) /\ F.node[a].parent # a /\ G.kids[a] = F.kids[a]
      BY <1>1, <2>1 DEF Sane, FilesOK
    <3>2. ASSUME NEW c \in ToSet(G.kids[a])
          PROVE  c \in DOMAIN G.node /\ G.node[c].parent = a /\ G.place[c].home = a
      <4>1. c \in DOMAIN F.node /\ F.node[c].parent = a /\ F.place[c].home = a /\ c # a
        BY <3>1 DEF SoundIn
      <4>2. c \in DOMAIN G.node /\ c \in DOMAIN G.place
        BY <4>1 DEF Safe, Mild, FilesOK
      <4>3. QED
        BY <4>1, <4>2 DEF Safe, Mild
    <3>3. QED
      BY <1>1, <3>2 DEF SoundIn
  <2>2. CASE a \notin DOMAIN F.node
    BY <1>1, <2>2 DEF SoundIn, ToSet
  <2>3. QED
    BY <2>1, <2>2
<1>2. CASE n # a
  <2>1. n \in DOMAIN F.node /\ n \in DOMAIN G.place /\ n \in Id
    BY <1>2 DEF Safe, Mild, FilesOK
  <2>2. SoundIn(F, n) /\ G.node[n] = F.node[n] /\ G.place[n] = F.place[n]
    BY <1>2, <2>1 DEF Sane, Safe, Mild
  <2>3. CASE G.node[n].parent # a
    BY <1>2, <2>1, <2>2, <2>3, SoundOthers
  <2>4. CASE G.node[n].parent = a
    <3>1. a # Root /\ a \in DOMAIN F.node /\ n \in ToSet(F.kids[a])
      BY <2>2, <2>4, IdAssumption DEF SoundIn
    <3>2. a \in DOMAIN G.node /\ n \in ToSet(G.kids[a])
      BY <3>1
    <3>3. QED
      BY <1>2, <2>1, <2>2, <2>4, <3>2, SoundOthers
  <2>5. QED
    BY <2>3, <2>4
<1>3. QED
  BY <1>1, <1>2
-----------------------------------------------------------------------------
(* Each kind of call keeps the files safe.                                   *)
LEMMA PutDirParts ==
    ASSUME NEW G, NEW a, NEW w
    PROVE  Put(G, PutDir(a, w)) = [place |-> With(G.place, a, w), node |-> G.node,
                                   kids |-> G.kids, canvas |-> G.canvas, issued |-> G.issued]
BY DEF Put, PutDir

LEMMA PutJsonParts ==
    ASSUME NEW G, NEW a, NEW r, NEW l
    PROVE  Put(G, PutJson(a, r, l)) = [place |-> G.place, node |-> With(G.node, a, r),
                                       kids |-> With(G.kids, a, l), canvas |-> G.canvas,
                                       issued |-> G.issued]
BY DEF Put, PutJson

JsonMade(G, n, r, l, H) ==
    /\ H.place = G.place /\ H.canvas = G.canvas /\ H.issued = G.issued
    /\ H.node = [x \in DOMAIN H.node |-> H.node[x]]
    /\ H.kids = [x \in DOMAIN H.node |-> H.kids[x]]
    /\ DOMAIN H.node = DOMAIN G.node \cup {n}
    /\ H.node[n] = r /\ H.kids[n] = l
    /\ \A x \in DOMAIN G.node \ {n} : H.node[x] = G.node[x] /\ H.kids[x] = G.kids[x]

LEMMA JsonFields ==
    ASSUME NEW G, FilesOK(G), NEW n, NEW r, NEW l
    PROVE  JsonMade(G, n, r, l, Put(G, PutJson(n, r, l)))
<1> DEFINE H == Put(G, PutJson(n, r, l))
<1>1. /\ H.place = G.place /\ H.node = With(G.node, n, r) /\ H.kids = With(G.kids, n, l)
      /\ H.canvas = G.canvas /\ H.issued = G.issued
  BY PutJsonParts
<1>2. DOMAIN G.kids = DOMAIN G.node
  BY DEF FilesOK
<1>3. QED
  BY <1>1, <1>2 DEF With, JsonMade

LEMMA PutCanvasParts ==
    ASSUME NEW G, NEW a, NEW c
    PROVE  Put(G, PutCanvas(a, c)) = [place |-> G.place, node |-> G.node, kids |-> G.kids,
                                      canvas |-> With(G.canvas, a, c), issued |-> G.issued]
BY DEF Put, PutCanvas

LEMMA SafeDir ==
    ASSUME NEW F, NEW C, NEW a, NEW G, Safe(F, a, C, G), a \in G.issued,
           NEW h \in DOMAIN G.place \cup {Root}, NEW s, NEW H,
           H = Put(G, PutDir(a, [home |-> h, slug |-> s])), Rooted(Homes(H)),
           Unlisted(G, a, C) \/ (a \in DOMAIN G.place /\ h = G.place[a].home)
    PROVE  Safe(F, a, C, H)
<1> DEFINE w == [home |-> h, slug |-> s]
<1>1. /\ H.place = With(G.place, a, w) /\ H.node = G.node /\ H.kids = G.kids
      /\ H.canvas = G.canvas /\ H.issued = G.issued
  BY PutDirParts
<1>2. /\ DOMAIN H.place = DOMAIN G.place \cup {a} /\ H.place[a] = w
      /\ \A d \in DOMAIN G.place \ {a} : H.place[d] = G.place[d]
  BY <1>1 DEF With
<1>3. FilesOK(H)
  <2>1. FilesOK(G)
    BY DEF Safe
  <2>2. \A d \in DOMAIN H.place : H.place[d] = [home |-> H.place[d].home, slug |-> H.place[d].slug]
    <3>1. \A d \in DOMAIN G.place : G.place[d] = [home |-> G.place[d].home, slug |-> G.place[d].slug]
      BY <2>1 DEF FilesOK
    <3>2. QED
      BY <1>2, <3>1
  <2>3. H.place = [d \in DOMAIN H.place |-> H.place[d]]
    BY <1>1 DEF With
  <2>4. H.place = [d \in DOMAIN H.place |-> [home |-> H.place[d].home, slug |-> H.place[d].slug]]
    BY <2>2, <2>3, Zenon
  <2>5. \A d \in DOMAIN H.place : H.place[d].home \in DOMAIN H.place \cup {Root}
    BY <1>2, <2>1 DEF FilesOK
  <2>6. QED
    BY <1>1, <1>2, <2>1, <2>4, <2>5 DEF FilesOK
<1>4. Mild(F, a, H)
  BY <1>1, <1>2 DEF Safe, Mild
<1>5. Listed(H, a, C)
  BY <1>1, <1>2 DEF Safe, Listed, Unlisted
<1>6. QED
  BY <1>3, <1>4, <1>5 DEF Safe

LEMMA SafeJson ==
    ASSUME NEW F, NEW C, NEW a, NEW G, Safe(F, a, C, G), NEW n \in DOMAIN G.place,
           NEW r \in Record, r.parent # n, NEW l \in Seq(Id), Once(l), NEW H,
           H = Put(G, PutJson(n, r, l)),
           n # a => /\ n \in DOMAIN G.node /\ r = G.node[n]
                    /\ ToSet(l) \ {a} = ToSet(G.kids[n]) \ {a},
           Listed(H, a, C)
    PROVE  Safe(F, a, C, H)
<1>1. FilesOK(G)
  BY DEF Safe
<1>2. FilesOK(G) /\ JsonMade(G, n, r, l, H)
  BY <1>1, JsonFields
<1>3. /\ H.place = G.place /\ H.canvas = G.canvas /\ H.issued = G.issued
      /\ H.node = [x \in DOMAIN H.node |-> H.node[x]] /\ H.kids = [x \in DOMAIN H.node |-> H.kids[x]]
  BY <1>2 DEF JsonMade
<1>4. /\ DOMAIN H.node = DOMAIN G.node \cup {n}
      /\ H.node[n] = r /\ H.kids[n] = l
      /\ \A x \in DOMAIN G.node \ {n} : H.node[x] = G.node[x] /\ H.kids[x] = G.kids[x]
  BY <1>2 DEF JsonMade
<1>5. FilesOK(H)
  <2>1. H.node \in [DOMAIN H.node -> Record] /\ H.kids \in [DOMAIN H.node -> Seq(Id)]
    <3>1. \A x \in DOMAIN G.node : G.node[x] \in Record /\ G.kids[x] \in Seq(Id)
      BY <1>2 DEF FilesOK
    <3>2. \A x \in DOMAIN H.node : H.node[x] \in Record /\ H.kids[x] \in Seq(Id)
      BY <1>4, <3>1
    <3>3. QED
      BY <1>3, <3>2
  <2>2. \A x \in DOMAIN H.node : H.node[x].parent # x /\ Once(H.kids[x])
    BY <1>2, <1>4 DEF FilesOK
  <2>3. DOMAIN H.node \cup DOMAIN H.canvas \subseteq DOMAIN H.place
    BY <1>2, <1>3, <1>4 DEF FilesOK
  <2>4. QED
    BY <1>2, <1>3, <2>1, <2>2, <2>3 DEF FilesOK
<1>6. Mild(F, a, H)
  <2>1. Mild(F, a, G)
    BY DEF Safe
  <2>2. DOMAIN H.node \ {a} = DOMAIN G.node \ {a}
    BY <1>4
  <2>3. ASSUME NEW x \in DOMAIN G.node \ {a}
        PROVE  H.node[x] = G.node[x] /\ ToSet(H.kids[x]) \ {a} = ToSet(G.kids[x]) \ {a}
    <3>1. CASE x = n
      BY <1>4, <2>3, <3>1
    <3>2. CASE x # n
      BY <1>4, <3>2
    <3>3. QED
      BY <3>1, <3>2
  <2>4. QED
    BY <1>3, <2>1, <2>2, <2>3 DEF Mild
<1>7. Rooted(Homes(H))
  BY <1>3 DEF Safe, Homes
<1>8. QED
  BY <1>5, <1>6, <1>7 DEF Safe

(* The list of another node, and the node.json of a itself.                  *)
LEMMA SafeList ==
    ASSUME NEW F, NEW C, NEW a, NEW G, Safe(F, a, C, G), NEW n \in DOMAIN G.node, n # a,
           NEW l \in Seq(Id), Once(l), NEW H, H = Put(G, PutJson(n, G.node[n], l)),
           ToSet(l) \ {a} = ToSet(G.kids[n]) \ {a},
           a \in ToSet(l) => a \in DOMAIN G.node /\ G.node[a].parent = n /\ G.place[a].home = n
    PROVE  Safe(F, a, C, H)
<1>1. n \in DOMAIN G.place /\ G.node[n] \in Record /\ G.node[n].parent # n
  BY DEF Safe, FilesOK
<1>2. FilesOK(G)
  BY DEF Safe
<1>3. JsonMade(G, n, G.node[n], l, H)
  BY <1>2, JsonFields
<1>4. /\ DOMAIN H.node = DOMAIN G.node /\ H.place = G.place
      /\ \A x \in DOMAIN G.node : H.node[x] = G.node[x]
      /\ H.kids[n] = l /\ \A x \in DOMAIN G.node \ {n} : H.kids[x] = G.kids[x]
  BY <1>1, <1>3 DEF JsonMade
<1>5. Listed(H, a, C)
  BY <1>4 DEF Safe, Listed
<1>6. QED
  BY <1>1, <1>5, SafeJson

LEMMA SafeOwn ==
    ASSUME NEW F, NEW C, NEW a, NEW G, Safe(F, a, C, G), a \in DOMAIN G.place,
           NEW r \in Record, r.parent # a, NEW l \in Seq(Id), Once(l), NEW H,
           H = Put(G, PutJson(a, r, l)),
           Unlisted(G, a, C) \/ (a \in DOMAIN G.node /\ r.parent = G.node[a].parent)
    PROVE  Safe(F, a, C, H)
<1>1. FilesOK(G)
  BY DEF Safe
<1>2. JsonMade(G, a, r, l, H)
  BY <1>1, JsonFields
<1>3. /\ DOMAIN H.node = DOMAIN G.node \cup {a} /\ H.place = G.place
      /\ H.node[a] = r
      /\ \A x \in DOMAIN G.node \ {a} : H.kids[x] = G.kids[x]
  BY <1>2 DEF JsonMade
<1>4. Listed(H, a, C)
  BY <1>3 DEF Safe, Listed, Unlisted
<1>5. QED
  BY <1>4, SafeJson

LEMMA SafeCanvas ==
    ASSUME NEW F, NEW C, NEW a, NEW G, Safe(F, a, C, G), a \in DOMAIN G.place,
           NEW c \in Canvas, NEW H, H = Put(G, PutCanvas(a, c))
    PROVE  Safe(F, a, C, H)
<1>1. /\ H.place = G.place /\ H.node = G.node /\ H.kids = G.kids
      /\ H.canvas = With(G.canvas, a, c) /\ H.issued = G.issued
  BY PutCanvasParts
<1>2. DOMAIN H.canvas = DOMAIN G.canvas \cup {a} /\ H.canvas \in [DOMAIN H.canvas -> Canvas]
  <2>1. G.canvas \in [DOMAIN G.canvas -> Canvas]
    BY DEF Safe, FilesOK
  <2>2. QED
    BY <1>1, <2>1 DEF With
<1>3. FilesOK(H)
  BY <1>1, <1>2 DEF Safe, FilesOK
<1>4. QED
  BY <1>1, <1>3 DEF Safe, Mild, Listed, Homes

-----------------------------------------------------------------------------
(* A request that writes: a crash between any two of its calls leaves files  *)
(* that are fine, and the last call those that were to be made.              *)
Fine(G, a, C) == Sane(G, C \cup Hurt(G, a))

Way(G, calls, H, a, C) ==
    \/ \E u : calls = <<u>> /\ H = Put(G, u)
    \/ \E u, v : /\ calls = <<u, v>> /\ H = Put(Put(G, u), v)
                 /\ Fine(Put(G, u), a, C)
    \/ \E u, v, w : /\ calls = <<u, v, w>> /\ H = Put(Put(Put(G, u), v), w)
                    /\ Fine(Put(G, u), a, C) /\ Fine(Put(Put(G, u), v), a, C)
    \/ \E u, v, w, x : /\ calls = <<u, v, w, x>> /\ H = Put(Put(Put(Put(G, u), v), w), x)
                       /\ Fine(Put(G, u), a, C) /\ Fine(Put(Put(G, u), v), a, C)
                       /\ Fine(Put(Put(Put(G, u), v), w), a, C)

Plain(calls) == \A i \in DOMAIN calls : calls[i].do # "rmtree"

LEMMA WayOn ==
    ASSUME NEW G, NEW calls, NEW H, NEW a, NEW C, Way(G, calls, H, a, C), Plain(calls)
    PROVE  /\ calls # << >> /\ Plain(Tail(calls)) /\ Head(calls).do # "rmtree"
           /\ \/ Tail(calls) = << >> /\ H = Put(G, Head(calls))
              \/ /\ Tail(calls) # << >> /\ Fine(Put(G, Head(calls)), a, C)
                 /\ Way(Put(G, Head(calls)), Tail(calls), H, a, C)
<1>1. ASSUME NEW u, calls = <<u>>, H = Put(G, u)
      PROVE  calls # << >> /\ Head(calls) = u /\ Tail(calls) = << >>
  BY <1>1
<1>2. ASSUME NEW u, NEW v, calls = <<u, v>>, H = Put(Put(G, u), v)
      PROVE  /\ calls # << >> /\ Head(calls) = u /\ Tail(calls) = <<v>>
             /\ Way(Put(G, Head(calls)), Tail(calls), H, a, C)
  <2>1. calls # << >> /\ Head(calls) = u /\ Tail(calls) = <<v>>
    BY <1>2
  <2>2. QED
    BY <1>2, <2>1 DEF Way
<1>3. ASSUME NEW u, NEW v, NEW w, calls = <<u, v, w>>, H = Put(Put(Put(G, u), v), w),
             Fine(Put(Put(G, u), v), a, C)
      PROVE  /\ calls # << >> /\ Head(calls) = u /\ Tail(calls) = <<v, w>>
             /\ Way(Put(G, Head(calls)), Tail(calls), H, a, C)
  <2>1. calls # << >> /\ Head(calls) = u /\ Tail(calls) = <<v, w>>
    BY <1>3
  <2>2. QED
    BY <1>3, <2>1 DEF Way
<1>4. ASSUME NEW u, NEW v, NEW w, NEW x, calls = <<u, v, w, x>>,
             H = Put(Put(Put(Put(G, u), v), w), x),
             Fine(Put(Put(G, u), v), a, C), Fine(Put(Put(Put(G, u), v), w), a, C)
      PROVE  /\ calls # << >> /\ Head(calls) = u /\ Tail(calls) = <<v, w, x>>
             /\ Way(Put(G, Head(calls)), Tail(calls), H, a, C)
  <2>1. calls # << >> /\ Head(calls) = u /\ Tail(calls) = <<v, w, x>>
    BY <1>4
  <2>2. QED
    BY <1>4, <2>1 DEF Way
<1>5. /\ calls # << >>
      /\ \/ Tail(calls) = << >> /\ H = Put(G, Head(calls))
         \/ /\ Tail(calls) # << >> /\ Fine(Put(G, Head(calls)), a, C)
            /\ Way(Put(G, Head(calls)), Tail(calls), H, a, C)
  BY <1>1, <1>2, <1>3, <1>4 DEF Way
<1>6. calls \in Seq({calls[i] : i \in DOMAIN calls})
  BY DEF Way
<1>7. Plain(Tail(calls)) /\ Head(calls).do # "rmtree"
  BY <1>5, <1>6 DEF Plain
<1>8. QED
  BY <1>5, <1>7

(* What is promised at the beginning of a request about a, and what its      *)
(* calls are to lead to.                                                     *)
Goal(F, C, n, H) == Sane(H, C) /\ (n = 0 => Whole(H) /\ OneStep(F, H))

Begun(F, S, calls, a, C, n) ==
    /\ Fine(S, a, C) /\ Plain(calls)
    /\ \E H : Way(S, calls, H, a, C) /\ Goal(F, C, n, H)

LEMMA SameSequence ==
    ASSUME NEW T, NEW s \in Seq(T), NEW t \in Seq(T), NEW N, Len(s) = N, Len(t) = N,
           \A i \in 1 .. N : s[i] = t[i]
    PROVE  s = t
OBVIOUS

LEMMA NoMore == ASSUME NEW T, NEW s \in Seq(T) PROVE s \o << >> = s /\ << >> \o s = s
OBVIOUS

LEMMA OneTuple ==
    ASSUME NEW S, NEW x \in S
    PROVE  <<x>> \in Seq(S) /\ Len(<<x>>) = 1 /\ <<x>> # << >> /\ <<x>>[1] = x
OBVIOUS

LEMMA FirstOf ==
    ASSUME NEW S, NEW N \in Nat, NEW s, \A i \in 1 .. N : s[i] \in S
    PROVE  [i \in 1 .. N |-> s[i]] \in Seq(S) /\ Len([i \in 1 .. N |-> s[i]]) = N
OBVIOUS

LEMMA ThreeCalls ==
    ASSUME NEW T, NEW d \in Seq(T), NEW u \in T, NEW v \in T, NEW w \in T,
           Len(d) = 3, d[1] = u, d[2] = v, d[3] = w
    PROVE  d = <<u, v, w>>
<1> DEFINE c == <<u, v, w>>
<1>1. c \in Seq(T) /\ Len(c) = 3 /\ c[1] = u /\ c[2] = v /\ c[3] = w
  OBVIOUS
<1> HIDE DEF c
<1>2. ASSUME NEW i \in 1 .. 3 PROVE d[i] = c[i]
  <2>1. i = 1 \/ i = 2 \/ i = 3
    OBVIOUS
  <2>2. QED
    BY <1>1, <2>1
<1>3. d = c
  BY <1>1, <1>2, SameSequence
<1>4. QED
  BY <1>3 DEF c

LEMMA FourCalls ==
    ASSUME NEW T, NEW d \in Seq(T), NEW u \in T, NEW v \in T, NEW w \in T, NEW x \in T,
           Len(d) = 4, d[1] = u, d[2] = v, d[3] = w, d[4] = x
    PROVE  d = <<u, v, w, x>>
<1> DEFINE c == <<u, v, w, x>>
<1>1. c \in Seq(T) /\ Len(c) = 4 /\ c[1] = u /\ c[2] = v /\ c[3] = w /\ c[4] = x
  OBVIOUS
<1> HIDE DEF c
<1>2. ASSUME NEW i \in 1 .. 4 PROVE d[i] = c[i]
  <2>1. i = 1 \/ i = 2 \/ i = 3 \/ i = 4
    OBVIOUS
  <2>2. QED
    BY <1>1, <2>1
<1>3. d = c
  BY <1>1, <1>2, SameSequence
<1>4. QED
  BY <1>3 DEF c

(* The plans, put together from their parts.                                 *)
LEMMA OneAndOne == ASSUME NEW u, NEW v PROVE <<u>> \o <<v>> = <<u, v>>
<1> DEFINE c == <<u, v>>
           d == <<u>> \o <<v>>
<1>1. /\ c \in Seq({u, v}) /\ Len(c) = 2 /\ c[1] = u /\ c[2] = v
      /\ d \in Seq({u, v}) /\ Len(d) = 2 /\ d[1] = u /\ d[2] = v
  OBVIOUS
<1> HIDE DEF c, d
<1>2. ASSUME NEW i \in 1 .. 2 PROVE d[i] = c[i]
  <2>1. i = 1 \/ i = 2
    OBVIOUS
  <2>2. QED
    BY <1>1, <2>1
<1>3. d = c
  BY <1>1, <1>2, SameSequence
<1>4. QED
  BY <1>3 DEF c, d

LEMMA OneFirst == ASSUME NEW u, NEW v, NEW w PROVE <<u>> \o <<v, w>> = <<u, v, w>>
<1> DEFINE T == {u, v, w}
           d == <<u>> \o <<v, w>>
<1>1. /\ d \in Seq(T) /\ Len(d) = 3 /\ d[1] = u /\ d[2] = v /\ d[3] = w
      /\ u \in T /\ v \in T /\ w \in T
  OBVIOUS
<1> HIDE DEF T, d
<1>2. d = <<u, v, w>>
  BY <1>1, ThreeCalls
<1>3. QED
  BY <1>2 DEF d

LEMMA OneThird == ASSUME NEW u, NEW v, NEW w PROVE <<u, v>> \o <<w>> = <<u, v, w>>
<1> DEFINE T == {u, v, w}
           d == <<u, v>> \o <<w>>
<1>1. /\ d \in Seq(T) /\ Len(d) = 3 /\ d[1] = u /\ d[2] = v /\ d[3] = w
      /\ u \in T /\ v \in T /\ w \in T
  OBVIOUS
<1> HIDE DEF T, d
<1>2. d = <<u, v, w>>
  BY <1>1, ThreeCalls
<1>3. QED
  BY <1>2 DEF d

LEMMA OneMore == ASSUME NEW u, NEW v, NEW w, NEW x PROVE <<u, v, w>> \o <<x>> = <<u, v, w, x>>
<1> DEFINE T == {u, v, w, x}
           d == <<u, v, w>> \o <<x>>
<1>1. /\ d \in Seq(T) /\ Len(d) = 4 /\ d[1] = u /\ d[2] = v /\ d[3] = w /\ d[4] = x
      /\ u \in T /\ v \in T /\ w \in T /\ x \in T
  OBVIOUS
<1> HIDE DEF T, d
<1>2. d = <<u, v, w, x>>
  BY <1>1, FourCalls
<1>3. QED
  BY <1>2 DEF d

LEMMA TwoCalls ==
    ASSUME NEW u, NEW v, NEW w
    PROVE  /\ <<u, v>> \in Seq({u, v, w}) /\ <<u, v, w>> \in Seq({u, v, w})
           /\ <<u>> \o <<v, w>> = <<u, v, w>> /\ <<u, v>> \o <<w>> = <<u, v, w>>
           /\ << >> \o <<u, v>> = <<u, v>>
<1>1. <<u, v>> \in Seq({u, v, w}) /\ <<u, v, w>> \in Seq({u, v, w})
  OBVIOUS
<1>2. << >> \o <<u, v>> = <<u, v>>
  BY <1>1, NoMore
<1>3. QED
  BY <1>1, <1>2, OneFirst, OneThird

LEMMA FreeNames ==
    ASSUME Whole(Files), NEW p, NEW own, NEW t
    PROVE  Free(p, own, t) = FreeIn(Files, p, own, t)
<1>1. Taken(p, own) = NamesIn(Files, p, own)
  BY DEF Taken, NamesIn, Files, Whole, Dirs
<1>2. QED
  BY <1>1 DEF Free, FreeIn

LEMMA CreateBegins ==
    ASSUME Sane(Files, cut), cut \subseteq issued, crashes = 0 => Whole(Files),
           NEW n \in Id \ issued, NEW p \in Live \cup {Root}, NEW t \in Title
    PROVE  Begun(Files,
                 [place |-> place, node |-> node, kids |-> kids, canvas |-> canvas,
                  issued |-> issued \cup {n}],
                 <<PutDir(n, Free(p, {}, t)),
                   PutJson(n, [title |-> t, parent |-> p, meta |-> NoMeta], << >>),
                   PutCanvas(n, Blank)>>
                 \o (IF p = Root THEN << >> ELSE Relist(p, Appended(kids[p], n))),
                 n, cut, crashes)
<1> DEFINE r == [title |-> t, parent |-> p, meta |-> NoMeta]
           h == Free(p, {}, t)
           S == [place |-> place, node |-> node, kids |-> kids, canvas |-> canvas,
                 issued |-> issued \cup {n}]
           u == PutDir(n, h)
           v == PutJson(n, r, << >>)
           w == PutCanvas(n, Blank)
           S1 == Put(S, u)
           S2 == Put(S1, v)
           S3 == Put(S2, w)
           l == Appended(kids[p], n)
<1>1. /\ FilesOK(Files) /\ Live \subseteq Dirs /\ Dirs \subseteq issued /\ DOMAIN kids = Live
      /\ DOMAIN canvas \subseteq Dirs /\ issued \subseteq Id
      /\ n \notin Dirs /\ n # Root /\ p # n /\ n \notin cut
  <2>1. FilesOK(Files)
    BY DEF Sane
  <2>2. /\ Live \subseteq Dirs /\ Dirs \subseteq issued /\ DOMAIN kids = Live
        /\ DOMAIN canvas \subseteq Dirs /\ issued \subseteq Id
    BY <2>1 DEF FilesOK, Files, Dirs, Live
  <2>3. QED
    BY <2>1, <2>2, IdAssumption
<1>2. /\ S.place = place /\ S.node = node /\ S.kids = kids /\ S.canvas = canvas
      /\ S.issued = issued \cup {n}
  OBVIOUS
<1>3. /\ S1 = Put(S, PutDir(n, h)) /\ S2 = Put(S1, PutJson(n, r, << >>))
      /\ S3 = Put(S2, PutCanvas(n, Blank))
  OBVIOUS
<1>4. h = [home |-> p, slug |-> h.slug] /\ r \in Record /\ r.parent = p
  BY <1>1, DataAssumption DEF Free, Record, Live
<1>5. n \in Id /\ p \in Id \cup {Root}
  BY <1>1
<1> HIDE DEF S, S1, S2, S3, h, r, l
<1>6. Safe(Files, n, cut, S) /\ Unlisted(S, n, cut)
  <2>1. Safe(Files, n, cut, Files)
    BY SafeStart
  <2>2. Unlisted(S, n, cut)
    BY <1>1, <1>2 DEF Sane, SoundIn, Unlisted, Files, Live
  <2>3. FilesOK(S)
    BY <1>1, <1>2 DEF FilesOK, Files
  <2>4. QED
    BY <1>2, <2>1, <2>2, <2>3 DEF Safe, Mild, Listed, Files, Homes
<1>7. Safe(Files, n, cut, S1)
  <2>1. h.home = p /\ p \in DOMAIN S.place \cup {Root}
    BY <1>1, <1>2, <1>4 DEF Dirs
  <2>2. S1.place = With(place, n, h)
    BY <1>2, <1>3, PutDirParts
  <2>3. Rooted(Homes(S1))
    <3>1. Rooted(Homes(Files)) /\ DOMAIN Homes(Files) = Dirs
      BY DEF Sane, Homes, Files, Dirs
    <3>2. DOMAIN Homes(S1) = Dirs \cup {n} /\ Homes(S1)[n] = p
      BY <2>1, <2>2 DEF Homes, With, Dirs
    <3>3. \A d \in Dirs : Homes(S1)[d] = Homes(Files)[d] /\ Homes(Files)[d] # n
      BY <1>1, <2>2 DEF Homes, With, Dirs, FilesOK, Files
    <3>4. QED
      BY <1>1, <3>1, <3>2, <3>3, RootedAdd
  <2>4. n \in S.issued
    BY <1>2
  <2>5. QED
    BY <1>6, <1>3, <1>4, <2>1, <2>3, <2>4, SafeDir
<1>8. /\ S1.place = With(place, n, h) /\ S1.node = node /\ S1.kids = kids
      /\ S1.canvas = canvas /\ S1.issued = issued \cup {n}
  BY <1>2, <1>3, PutDirParts
<1>9. Safe(Files, n, cut, S2)
  <2>1. Unlisted(S1, n, cut)
    BY <1>6, <1>8, <1>2 DEF Unlisted
  <2>2. << >> \in Seq(Id) /\ Once(<< >>) /\ n \in DOMAIN S1.place
    BY <1>1, <1>8 DEF Once, IsInjective, With
  <2>3. QED
    BY <1>1, <1>7, <1>3, <1>4, <2>1, <2>2, SafeOwn
<1>10. /\ S2.place = With(place, n, h) /\ S2.node = With(node, n, r)
      /\ S2.kids = With(kids, n, << >>) /\ S2.canvas = canvas /\ S2.issued = issued \cup {n}
  BY <1>8, <1>3, PutJsonParts
<1>11. Safe(Files, n, cut, S3)
  <2>1. n \in DOMAIN S2.place
    BY <1>10 DEF With
  <2>2. QED
    BY <1>9, <1>3, <2>1, DataAssumption, SafeCanvas
<1>12. /\ S3.place = With(place, n, h) /\ S3.node = With(node, n, r)
      /\ S3.kids = With(kids, n, << >>) /\ S3.canvas = With(canvas, n, Blank)
      /\ S3.issued = issued \cup {n}
  BY <1>10, <1>3, PutCanvasParts
<1>13. Fine(S, n, cut) /\ Fine(S1, n, cut) /\ Fine(S2, n, cut) /\ Fine(S3, n, cut)
  BY <1>1, <1>6, <1>7, <1>9, <1>11, SafeIsFine DEF Fine
<1>14. /\ DOMAIN S3.node = Live \cup {n} /\ S3.node[n] = r /\ S3.place[n] = h /\ S3.kids[n] = << >>
       /\ \A x \in Live : S3.node[x] = node[x] /\ S3.kids[x] = kids[x]
  BY <1>1, <1>12 DEF With, Live
<1>15. n \notin DOMAIN Files.node /\ h.home = p
  BY <1>1, <1>4 DEF Files, Live
<1>16. ASSUME Whole(Files) PROVE h = FreeIn(Files, p, {}, t) /\ DOMAIN canvas = Live /\ Dirs = Live
  BY <1>16, FreeNames DEF Whole, Files, Live, Dirs, h
<1>17. u.do # "rmtree" /\ v.do # "rmtree" /\ w.do # "rmtree"
  BY DEF PutDir, PutJson, PutCanvas
<1> HIDE DEF u, v, w
<1>18. p \in Live => kids[p] \in Seq(Id) /\ Once(kids[p])
  BY <1>1 DEF FilesOK, Files, Live
<1>19. p \in Live => l \in Seq(Id) /\ Once(l) /\ ToSet(l) = ToSet(kids[p]) \cup {n}
  BY <1>18, AppendedList DEF l
<1>20. CASE p = Root \/ l = kids[p]
  <2>1. Sane(S3, cut)
    <3>1. p # Root => p \in DOMAIN S3.node /\ n \in ToSet(S3.kids[p])
      BY <1>14, <1>19, <1>20
    <3>2. QED
      BY <1>1, <1>4, <1>11, <1>14, <1>15, <3>1, SafeIsSane
  <2>2. ASSUME Whole(Files) PROVE Whole(S3) /\ OneStep(Files, S3)
    <3>1. S3.kids = [x \in Live \cup {n} |->
                        IF x = n THEN << >> ELSE IF x = p THEN Appended(kids[x], n) ELSE kids[x]]
      BY <1>1, <1>12, <1>20, IdAssumption DEF With, l, Live
    <3>2. Shape(S3)
      BY <1>3, PutCanvasParts DEF Shape
    <3>3. Created(Files, S3, n, p, t)
      BY <1>12, <1>16, <2>2, <3>1, <3>2 DEF Created, Files, Live, r, Shape
    <3>4. Whole(S3)
      BY <1>12, <1>14, <1>16, <2>2 DEF Whole, With, Dirs
    <3>5. QED
      BY <1>5, <3>3, <3>4 DEF OneStep
  <2>3. Goal(Files, cut, crashes, S3)
    BY <2>1, <2>2 DEF Goal
  <2>4. Way(S, <<u, v, w>>, S3, n, cut)
    BY <1>13 DEF Way, S1, S2, S3
  <2>5. Plain(<<u, v, w>>)
    BY <1>17 DEF Plain
  <2>6. Begun(Files, S, <<u, v, w>>, n, cut, crashes)
    BY <1>13, <2>3, <2>4, <2>5 DEF Begun
  <2>7. <<u, v, w>> \o (IF p = Root THEN << >> ELSE Relist(p, l)) = <<u, v, w>>
    <3>1. (IF p = Root THEN << >> ELSE Relist(p, l)) = << >>
      BY <1>20 DEF Relist
    <3>2. <<u, v, w>> \in Seq({u, v, w})
      OBVIOUS
    <3>3. QED
      BY <3>1, <3>2, NoMore
  <2>8. QED
    BY <2>6, <2>7 DEF S, u, v, w, h, r, l
<1>21. CASE p # Root /\ l # kids[p]
  <2> DEFINE x == PutJson(p, node[p], l)
             S4 == Put(S3, x)
  <2>1. S4 = Put(S3, PutJson(p, node[p], l)) /\ x.do # "rmtree"
    BY DEF PutJson
  <2> HIDE DEF x, S4
  <2>2. p \in DOMAIN S3.node /\ p # n /\ ToSet(l) \ {n} = ToSet(S3.kids[p]) \ {n}
    BY <1>1, <1>14, <1>19, <1>21
  <2>3. FilesOK(S3) /\ S3.node[p] = node[p] /\ S3.kids[p] = kids[p] /\ p \in Live
    BY <1>11, <1>14, <1>21 DEF Safe
  <2>4. JsonMade(S3, p, node[p], l, S4)
    BY <2>3, <2>1, JsonFields
  <2>5. Safe(Files, n, cut, S4)
    BY <1>1, <1>4, <1>11, <1>14, <1>15, <1>19, <2>3, <2>1, <2>2, SafeList
  <2>6. Sane(S4, cut)
    <3>1. /\ DOMAIN S4.node = Live \cup {n} /\ S4.node[n] = r /\ S4.place[n] = h
          /\ S4.kids[n] = << >> /\ S4.kids[p] = l
      BY <1>1, <1>14, <2>3, <2>4 DEF JsonMade
    <3>2. QED
      BY <1>1, <1>4, <1>15, <1>19, <2>3, <2>5, <3>1, SafeIsSane
  <2>7. ASSUME Whole(Files) PROVE Whole(S4) /\ OneStep(Files, S4)
    <3>1. /\ S4.place = S3.place /\ S4.node = With(S3.node, p, node[p])
          /\ S4.kids = With(S3.kids, p, l) /\ S4.canvas = S3.canvas /\ S4.issued = S3.issued
      BY <2>1, PutJsonParts
    <3>2. S4.kids = [y \in Live \cup {n} |->
                        IF y = n THEN << >> ELSE IF y = p THEN Appended(kids[y], n) ELSE kids[y]]
      BY <1>1, <1>12, <2>3, <3>1 DEF With, l, Live
    <3>3. S4.node = With(node, n, r)
      BY <1>1, <1>12, <2>3, <3>1 DEF With, Live
    <3>4. Shape(S4)
      BY <2>1, PutJsonParts DEF Shape
    <3>5. Created(Files, S4, n, p, t)
      BY <1>12, <1>16, <2>7, <3>1, <3>2, <3>3, <3>4 DEF Created, Files, Live, r, Shape
    <3>6. Whole(S4)
      BY <1>12, <1>16, <2>7, <3>1, <3>3 DEF Whole, With, Live, Dirs
    <3>7. QED
      BY <1>5, <3>5, <3>6 DEF OneStep
  <2>8. Goal(Files, cut, crashes, S4)
    BY <2>6, <2>7 DEF Goal
  <2>9. Way(S, <<u, v, w, x>>, S4, n, cut)
    BY <1>13 DEF Way, S1, S2, S3, S4
  <2>10. Plain(<<u, v, w, x>>)
    BY <1>17, <2>1 DEF Plain
  <2>11. Begun(Files, S, <<u, v, w, x>>, n, cut, crashes)
    BY <1>13, <2>8, <2>9, <2>10 DEF Begun
  <2>12. <<u, v, w>> \o (IF p = Root THEN << >> ELSE Relist(p, l)) = <<u, v, w, x>>
    <3>1. (IF p = Root THEN << >> ELSE Relist(p, l)) = <<x>>
      BY <1>21 DEF Relist, x
    <3>2. QED
      BY <3>1, OneMore
  <2>13. QED
    BY <2>11, <2>12 DEF S, u, v, w, h, r, l
<1>22. QED
  BY <1>20, <1>21

(* Rename, metadata and canvas: a stays where it is, and no list changes.    *)
LEMMA StaysSane ==
    ASSUME NEW F, NEW C, NEW a \in Id, NEW G, Sane(F, C), Safe(F, a, C, G), a \in DOMAIN F.node,
           DOMAIN G.node = DOMAIN F.node, \A x \in DOMAIN F.node : G.kids[x] = F.kids[x],
           G.node[a].parent = F.node[a].parent, G.place[a].home = F.place[a].home
    PROVE  Sane(G, C)
<1>1. ASSUME a \notin C
      PROVE  /\ G.node[a].parent = G.place[a].home
             /\ G.node[a].parent # Root => /\ G.node[a].parent \in DOMAIN G.node
                                           /\ a \in ToSet(G.kids[G.node[a].parent])
  BY <1>1 DEF Sane, SoundIn
<1>2. QED
  BY <1>1, SafeIsSane

LEMMA StartFacts ==
    ASSUME Sane(Files, cut)
    PROVE  /\ FilesOK(Files)
           /\ Live \subseteq Dirs /\ Dirs \subseteq issued /\ issued \subseteq Id
           /\ DOMAIN kids = Live /\ DOMAIN canvas \subseteq Dirs
           /\ \A n \in Live : /\ n \in Id /\ kids[n] \in Seq(Id) /\ Once(kids[n])
                              /\ node[n] \in Record /\ node[n].parent # n
           /\ \A d \in Dirs : /\ place[d] = [home |-> place[d].home, slug |-> place[d].slug]
                              /\ place[d].home \in Dirs \cup {Root}
<1>1. FilesOK(Files)
  BY DEF Sane
<1>2. \A d \in Dirs : place[d] = [home |-> place[d].home, slug |-> place[d].slug]
  BY <1>1 DEF FilesOK, Files, Dirs
<1>3. QED
  BY <1>1, <1>2, SafeStart DEF FilesOK, Files, Dirs, Live

LEMMA SetMetaBegins ==
    ASSUME Sane(Files, cut), crashes = 0 => Whole(Files), NEW n \in Live, NEW m \in Meta
    PROVE  Begun(Files, Files, <<PutJson(n, [node[n] EXCEPT !.meta = m], kids[n])>>, n, cut, crashes)
<1> DEFINE r == [node[n] EXCEPT !.meta = m]
           v == PutJson(n, r, kids[n])
           H == Put(Files, v)
<1>1. /\ FilesOK(Files) /\ n \in Id /\ n \in Dirs /\ kids[n] \in Seq(Id) /\ Once(kids[n])
      /\ node[n] \in Record /\ node[n].parent # n /\ DOMAIN kids = Live
  BY StartFacts
<1>2. r \in Record /\ r.parent = node[n].parent
  BY <1>1 DEF Record
<1>3. Safe(Files, n, cut, Files)
  BY SafeStart
<1>4. H = Put(Files, PutJson(n, r, kids[n])) /\ v.do # "rmtree"
  BY DEF PutJson
<1>5. /\ Files.place = place /\ Files.node = node /\ Files.kids = kids /\ Files.canvas = canvas
      /\ Files.issued = issued
  BY DEF Files
<1> HIDE DEF r, v, H
<1>6. Safe(Files, n, cut, H)
  BY <1>1, <1>2, <1>3, <1>4, <1>5, SafeOwn DEF Live, Dirs
<1>7. /\ H.place = place /\ H.node = With(node, n, r) /\ H.kids = With(kids, n, kids[n])
      /\ H.canvas = canvas /\ H.issued = issued
  BY <1>4, <1>5, PutJsonParts
<1>8. /\ DOMAIN H.node = Live /\ H.node[n] = r /\ \A x \in Live : H.kids[x] = kids[x]
  BY <1>1, <1>7 DEF With, Live
<1>9. Sane(H, cut)
  BY <1>1, <1>2, <1>5, <1>6, <1>7, <1>8, StaysSane DEF Live
<1>10. ASSUME Whole(Files) PROVE Whole(H) /\ OneStep(Files, H)
  <2>1. H.kids = kids
    <3>1. kids = [x \in Live |-> kids[x]]
      BY <1>1, <1>5 DEF FilesOK, Live
    <3>2. QED
      BY <1>1, <1>7, <3>1 DEF With
  <2>2. H.node = [node EXCEPT ![n].meta = m]
    <3>1. node = [x \in Live |-> node[x]]
      BY <1>1, <1>5 DEF FilesOK, Live
    <3>2. QED
      BY <1>1, <1>7, <3>1 DEF With, r, Live
  <2>3. Shape(H)
    BY <1>4, PutJsonParts DEF Shape
  <2>4. Noted(Files, H, n, m)
    BY <1>5, <1>7, <2>1, <2>2, <2>3 DEF Noted, Files, Live, Shape
  <2>5. Whole(H)
    BY <1>5, <1>7, <1>8, <1>10 DEF Whole, Live
  <2>6. QED
    BY <1>1, <2>4, <2>5 DEF OneStep
<1>11. Goal(Files, cut, crashes, H)
  BY <1>9, <1>10 DEF Goal
<1>12. Way(Files, <<v>>, H, n, cut) /\ Plain(<<v>>)
  BY <1>4 DEF Way, Plain, H
<1>13. Fine(Files, n, cut)
  BY <1>1, <1>3, SafeIsFine DEF Fine
<1>14. Begun(Files, Files, <<v>>, n, cut, crashes)
  BY <1>11, <1>12, <1>13 DEF Begun
<1>15. QED
  BY <1>14 DEF v, r

LEMMA WriteCanvasBegins ==
    ASSUME Sane(Files, cut), crashes = 0 => Whole(Files), NEW n \in Live, NEW c \in Canvas
    PROVE  Begun(Files, Files, <<PutCanvas(n, c)>>, n, cut, crashes)
<1> DEFINE v == PutCanvas(n, c)
           H == Put(Files, v)
<1>1. FilesOK(Files) /\ n \in Id /\ n \in Dirs
  BY StartFacts
<1>2. Safe(Files, n, cut, Files)
  BY SafeStart
<1>3. H = Put(Files, PutCanvas(n, c)) /\ v.do # "rmtree"
  BY DEF PutCanvas
<1>4. /\ Files.place = place /\ Files.node = node /\ Files.kids = kids /\ Files.canvas = canvas
      /\ Files.issued = issued
  BY DEF Files
<1> HIDE DEF v, H
<1>5. Safe(Files, n, cut, H)
  BY <1>1, <1>2, <1>3, <1>4, SafeCanvas DEF Dirs
<1>6. /\ H.place = place /\ H.node = node /\ H.kids = kids
      /\ H.canvas = With(canvas, n, c) /\ H.issued = issued
  BY <1>3, <1>4, PutCanvasParts
<1>7. Sane(H, cut)
  BY <1>1, <1>4, <1>5, <1>6, StaysSane DEF Live
<1>8. ASSUME Whole(Files) PROVE Whole(H) /\ OneStep(Files, H)
  <2>1. H.canvas = [canvas EXCEPT ![n] = c] /\ DOMAIN H.canvas = Live
    <3>1. canvas = [x \in Live |-> canvas[x]]
      BY <1>1, <1>4, <1>8 DEF FilesOK, Whole, Live
    <3>2. QED
      BY <1>6, <3>1 DEF With
  <2>2. Shape(H)
    BY <1>3, PutCanvasParts DEF Shape
  <2>3. Written(Files, H, n, c)
    BY <1>4, <1>6, <2>1, <2>2 DEF Written, Files, Live, Shape
  <2>4. Whole(H)
    BY <1>4, <1>6, <1>8, <2>1 DEF Whole, Live
  <2>5. QED
    BY <1>1, <2>3, <2>4 DEF OneStep
<1>9. Goal(Files, cut, crashes, H)
  BY <1>7, <1>8 DEF Goal
<1>10. Way(Files, <<v>>, H, n, cut) /\ Plain(<<v>>)
  BY <1>3 DEF Way, Plain, H
<1>11. Fine(Files, n, cut)
  BY <1>1, <1>2, SafeIsFine DEF Fine
<1>12. Begun(Files, Files, <<v>>, n, cut, crashes)
  BY <1>9, <1>10, <1>11 DEF Begun
<1>13. QED
  BY <1>12 DEF v

LEMMA RenameBegins ==
    ASSUME Sane(Files, cut), crashes = 0 => Whole(Files), NEW n \in Live, NEW t \in Title
    PROVE  Begun(Files, Files,
                 <<PutDir(n, Free(place[n].home, {n}, t)),
                   PutJson(n, [node[n] EXCEPT !.title = t], kids[n])>>, n, cut, crashes)
<1> DEFINE h == Free(place[n].home, {n}, t)
           r == [node[n] EXCEPT !.title = t]
           u == PutDir(n, h)
           v == PutJson(n, r, kids[n])
           S1 == Put(Files, u)
           H == Put(S1, v)
<1>1. /\ FilesOK(Files) /\ n \in Id /\ n \in Dirs /\ kids[n] \in Seq(Id) /\ Once(kids[n])
      /\ node[n] \in Record /\ node[n].parent # n /\ DOMAIN kids = Live /\ n \in issued
      /\ place[n].home \in Dirs \cup {Root}
      /\ place[n] = [home |-> place[n].home, slug |-> place[n].slug]
  BY StartFacts
<1>2. /\ r \in Record /\ r.parent = node[n].parent
      /\ h = [home |-> place[n].home, slug |-> h.slug] /\ h.home = place[n].home
  BY <1>1 DEF Record, Free
<1>3. Safe(Files, n, cut, Files)
  BY SafeStart
<1>4. /\ S1 = Put(Files, PutDir(n, h)) /\ H = Put(S1, PutJson(n, r, kids[n]))
      /\ u.do # "rmtree" /\ v.do # "rmtree"
  BY DEF PutJson, PutDir
<1>5. /\ Files.place = place /\ Files.node = node /\ Files.kids = kids /\ Files.canvas = canvas
      /\ Files.issued = issued
  BY DEF Files
<1> HIDE DEF h, r, u, v, S1, H
<1>6. /\ S1.place = With(place, n, h) /\ S1.node = node /\ S1.kids = kids
      /\ S1.canvas = canvas /\ S1.issued = issued
  BY <1>4, <1>5, PutDirParts
<1>7. /\ DOMAIN S1.place = Dirs /\ S1.place[n] = h
      /\ \A d \in Dirs \ {n} : S1.place[d] = place[d]
  BY <1>1, <1>6 DEF With, Dirs
<1>8. Safe(Files, n, cut, S1)
  <2>1. Homes(S1) = Homes(Files)
    BY <1>1, <1>2, <1>5, <1>7 DEF Homes, Dirs
  <2>2. Rooted(Homes(S1))
    BY <2>1 DEF Sane
  <2>3. QED
    BY <1>1, <1>2, <1>3, <1>4, <1>5, <2>2, SafeDir DEF Dirs
<1>9. Safe(Files, n, cut, H)
  BY <1>1, <1>2, <1>4, <1>6, <1>7, <1>8, SafeOwn DEF Live
<1>10. /\ H.place = S1.place /\ H.node = With(node, n, r) /\ H.kids = With(kids, n, kids[n])
       /\ H.canvas = canvas /\ H.issued = issued
  BY <1>4, <1>6, PutJsonParts
<1>11. /\ DOMAIN H.node = Live /\ H.node[n] = r /\ \A x \in Live : H.kids[x] = kids[x]
  BY <1>1, <1>10 DEF With, Live
<1>12. Sane(H, cut)
  BY <1>1, <1>2, <1>5, <1>7, <1>9, <1>10, <1>11, StaysSane DEF Live
<1>13. ASSUME Whole(Files) PROVE Whole(H) /\ OneStep(Files, H)
  <2>1. H.kids = kids
    <3>1. kids = [x \in Live |-> kids[x]]
      BY <1>1, <1>5 DEF FilesOK, Live
    <3>2. QED
      BY <1>1, <1>10, <3>1 DEF With
  <2>2. H.node = [node EXCEPT ![n].title = t]
    <3>1. node = [x \in Live |-> node[x]]
      BY <1>1, <1>5 DEF FilesOK, Live
    <3>2. QED
      BY <1>1, <1>10, <3>1 DEF With, r, Live
  <2>3. h = FreeIn(Files, place[n].home, {n}, t)
    BY <1>13, FreeNames DEF h
  <2>4. H.place = [place EXCEPT ![n].slug = h.slug]
    <3>1. place = [d \in Dirs |-> place[d]]
      <4>1. place = [d \in Dirs |-> [home |-> place[d].home, slug |-> place[d].slug]]
        BY <1>1, <1>5 DEF FilesOK, Dirs
      <4>2. QED
        BY <4>1
    <3>2. [place[n] EXCEPT !.slug = h.slug] = h
      BY <1>1, <1>2
    <3>3. QED
      BY <1>1, <1>6, <1>10, <3>1, <3>2 DEF With, Dirs
  <2>5. Shape(H)
    BY <1>4, PutJsonParts DEF Shape
  <2>6. Renamed(Files, H, n, t)
    <3> DEFINE q == [place EXCEPT ![n].slug = h.slug]
               w == [node EXCEPT ![n].title = t]
    <3>1. H = [place |-> q, node |-> w, kids |-> kids, canvas |-> canvas, issued |-> issued]
      BY <1>10, <2>1, <2>2, <2>4, <2>5 DEF Shape
    <3>2. n \in DOMAIN Files.node
      BY <1>5 DEF Live
    <3>3. /\ q = [Files.place EXCEPT ![n].slug = FreeIn(Files, Files.place[n].home, {n}, t).slug]
          /\ w = [Files.node EXCEPT ![n].title = t]
      BY <1>5, <2>3
    <3>4. H = [place |-> q, node |-> w, kids |-> Files.kids, canvas |-> Files.canvas,
               issued |-> Files.issued]
      BY <1>5, <3>1
    <3> HIDE DEF q, w
    <3>5. QED
      BY <3>2, <3>3, <3>4 DEF Renamed
  <2>7. Whole(H)
    BY <1>5, <1>7, <1>10, <1>11, <1>13 DEF Whole, Live, Dirs
  <2>8. QED
    BY <1>1, <2>6, <2>7 DEF OneStep
<1>14. Goal(Files, cut, crashes, H)
  BY <1>12, <1>13 DEF Goal
<1>15. Fine(Files, n, cut) /\ Fine(S1, n, cut)
  BY <1>1, <1>3, <1>8, SafeIsFine DEF Fine
<1>16. Way(Files, <<u, v>>, H, n, cut) /\ Plain(<<u, v>>)
  BY <1>4, <1>15 DEF Way, Plain, H, S1
<1>17. Begun(Files, Files, <<u, v>>, n, cut, crashes)
  BY <1>14, <1>15, <1>16 DEF Begun
<1>18. QED
  BY <1>17 DEF u, v, r, h

-----------------------------------------------------------------------------
(* Move and delete take n out of its parent's list first.                    *)
Off(n) == [place |-> place, node |-> node,
           kids |-> [x \in Live |-> IF x = node[n].parent THEN Without(kids[x], n) ELSE kids[x]],
           canvas |-> canvas, issued |-> issued]

LEMMA UnlistFirst ==
    ASSUME Sane(Files, cut), NEW n, Attached(n)
    PROVE  /\ Safe(Files, n, cut, Off(n)) /\ Unlisted(Off(n), n, cut)
           /\ \/ Unlist(n) = << >> /\ Off(n) = Files
              \/ \E c : Unlist(n) = <<c>> /\ Off(n) = Put(Files, c) /\ c.do # "rmtree"
<1> DEFINE p == node[n].parent
           l == Without(kids[p], n)
           U == Off(n)
<1>1. /\ n \in Live /\ n \in Id /\ p \in Live \cup {Root} /\ p # n
      /\ FilesOK(Files) /\ DOMAIN kids = Live /\ Live \subseteq Id
      /\ \A x \in Live : kids[x] \in Seq(Id) /\ Once(kids[x])
  BY StartFacts DEF Attached
<1>2. /\ Files.place = place /\ Files.node = node /\ Files.kids = kids /\ Files.canvas = canvas
      /\ Files.issued = issued
  BY DEF Files
<1>3. /\ U.place = place /\ U.node = node /\ U.canvas = canvas /\ U.issued = issued
      /\ U.kids = [x \in Live |-> IF x = p THEN Without(kids[x], n) ELSE kids[x]]
  BY DEF Off
<1>4. Safe(Files, n, cut, Files)
  BY SafeStart
<1>5. p \in Live => l \in Seq(Id) /\ Once(l) /\ ToSet(l) = ToSet(kids[p]) \ {n}
  BY <1>1, WithoutList
<1>6. kids = [x \in Live |-> kids[x]] /\ node = [x \in Live |-> node[x]]
  BY <1>1, <1>2 DEF FilesOK, Live
<1>7. ASSUME NEW x \in Live, x \notin cut, x # p PROVE n \notin ToSet(kids[x])
  BY <1>1, <1>2, <1>7 DEF Sane, SoundIn, Live
<1>8. Unlisted(U, n, cut)
  <2>1. SUFFICES ASSUME NEW x \in Live, x \notin cut PROVE n \notin ToSet(U.kids[x])
    BY <1>3 DEF Unlisted, Live
  <2>2. CASE x = p
    BY <1>3, <1>5, <2>2
  <2>3. CASE x # p
    BY <1>3, <1>7, <2>1, <2>3
  <2>4. QED
    BY <2>2, <2>3
<1>9. CASE p = Root \/ l = kids[p]
  <2>1. Unlist(n) = << >>
    BY <1>9 DEF Unlist, Relist
  <2>2. U = Files
    <3>1. \A x \in Live : IF x = p THEN Without(kids[x], n) = kids[x] ELSE TRUE
      BY <1>1, <1>9, IdAssumption
    <3>2. U.kids = kids
      BY <1>3, <1>6, <3>1
    <3>3. QED
      BY <3>2 DEF Off, Files
  <2>3. QED
    BY <1>4, <1>8, <2>1, <2>2
<1>10. CASE p # Root /\ l # kids[p]
  <2> DEFINE c == PutJson(p, node[p], l)
             H == Put(Files, c)
  <2>1. Unlist(n) = <<c>>
    BY <1>10 DEF Unlist, Relist
  <2>2. p \in Live /\ p \in DOMAIN Files.node
    BY <1>1, <1>2, <1>10 DEF Live
  <2>3. Safe(Files, n, cut, H)
    <3>1. H = Put(Files, PutJson(p, Files.node[p], l))
      BY <1>2
    <3>2. ToSet(l) \ {n} = ToSet(Files.kids[p]) \ {n} /\ n \notin ToSet(l)
      BY <1>2, <1>5, <2>2
    <3> HIDE DEF H, l, p
    <3>3. QED
      BY <1>1, <1>4, <1>5, <2>2, <3>1, <3>2, SafeList
  <2>4. H = U
    <3>1. H = [place |-> place, node |-> With(node, p, node[p]), kids |-> With(kids, p, l),
               canvas |-> canvas, issued |-> issued]
      BY <1>2, PutJsonParts
    <3>2. With(node, p, node[p]) = node
      BY <1>6, <2>2 DEF With
    <3>3. With(kids, p, l) = [x \in Live |-> IF x = p THEN Without(kids[x], n) ELSE kids[x]]
      BY <1>1, <2>2 DEF With
    <3>4. QED
      BY <3>1, <3>2, <3>3 DEF Off
  <2>5. c.do # "rmtree"
    BY DEF PutJson
  <2>6. QED
    BY <1>8, <2>1, <2>3, <2>4, <2>5
<1>11. QED
  BY <1>9, <1>10

LEMMA MoveBegins ==
    ASSUME Sane(Files, cut), crashes = 0 => Whole(Files), NEW n \in Id, Attached(n),
           NEW p \in (Live \ Below(n)) \cup {Root}, NEW pos \in Position
    PROVE  Begun(Files, Files,
                 Unlist(n)
                 \o <<PutDir(n, Free(p, {}, node[n].title)),
                      PutJson(n, [node[n] EXCEPT !.parent = p], kids[n])>>
                 \o (IF p = Root THEN << >> ELSE <<PutJson(p, node[p], Inserted(kids[p], n, pos))>>),
                 n, cut, crashes)
<1> DEFINE h == Free(p, {}, node[n].title)
           r == [node[n] EXCEPT !.parent = p]
           l == Inserted(kids[p], n, pos)
           u == PutDir(n, h)
           v == PutJson(n, r, kids[n])
           w == PutJson(p, node[p], l)
           U == Off(n)
           S1 == Put(U, u)
           S2 == Put(S1, v)
           S3 == Put(S2, w)
           q == node[n].parent
<1>1. /\ FilesOK(Files) /\ n \in Live /\ n \in Dirs /\ n \in issued
      /\ DOMAIN kids = Live /\ Live \subseteq Id /\ Live \subseteq Dirs
      /\ \A x \in Live : kids[x] \in Seq(Id) /\ Once(kids[x])
      /\ node[n] \in Record /\ q \in Live \cup {Root} /\ q # n
  BY StartFacts DEF Attached
<1>2. p # n /\ p \in Live \cup {Root} /\ p \in Id \cup {Root}
  <2>1. n \in Below(n)
    BY <1>1, ReachSelf DEF Below, Inside
  <2>2. QED
    BY <1>1, <2>1, IdAssumption
<1>3. /\ r \in Record /\ r.parent = p
      /\ h = [home |-> p, slug |-> h.slug] /\ h.home = p
  BY <1>1, <1>2 DEF Record, Free
<1>4. /\ S1 = Put(U, PutDir(n, h)) /\ S2 = Put(S1, PutJson(n, r, kids[n]))
      /\ S3 = Put(S2, PutJson(p, node[p], l))
      /\ u.do # "rmtree" /\ v.do # "rmtree" /\ w.do # "rmtree"
  BY DEF PutJson, PutDir
<1>5. /\ Files.place = place /\ Files.node = node /\ Files.kids = kids /\ Files.canvas = canvas
      /\ Files.issued = issued
  BY DEF Files
<1>6. /\ U.place = place /\ U.node = node /\ U.canvas = canvas /\ U.issued = issued
      /\ U.kids = [x \in Live |-> IF x = q THEN Without(kids[x], n) ELSE kids[x]]
  BY DEF Off
<1>7. /\ Safe(Files, n, cut, U) /\ Unlisted(U, n, cut)
      /\ \/ Unlist(n) = << >> /\ U = Files
         \/ \E c : Unlist(n) = <<c>> /\ U = Put(Files, c) /\ c.do # "rmtree"
  BY UnlistFirst
<1> HIDE DEF h, r, l, u, v, w, U, S1, S2, S3, q
<1>8. /\ S1.place = With(place, n, h) /\ S1.node = node /\ S1.kids = U.kids
      /\ S1.canvas = canvas /\ S1.issued = issued
  BY <1>4, <1>6, PutDirParts
<1>9. /\ DOMAIN S1.place = Dirs /\ S1.place[n] = h
      /\ \A d \in Dirs \ {n} : S1.place[d] = place[d]
  BY <1>1, <1>8 DEF With, Dirs
<1>10. Safe(Files, n, cut, S1)
  <2>1. Rooted(Homes(S1))
    <3>1. Rooted(Homes(Files)) /\ DOMAIN Homes(Files) = Dirs /\ DOMAIN Homes(S1) = Dirs
      BY <1>9 DEF Sane, Homes, Files, Dirs
    <3>2. DOMAIN InsideOf(Files) = Dirs /\ InsideOf(Files) = Inside
      BY DEF InsideOf, Files, Dirs, Inside
    <3>3. \A x, y \in Dirs : Homes(Files)[y] = x => y \in InsideOf(Files)[x]
      BY DEF Homes, InsideOf, Files, Dirs
    <3>4. Homes(S1)[n] = p
      BY <1>1, <1>3, <1>9 DEF Homes
    <3>5. Homes(S1)[n] \notin Reach(InsideOf(Files), n)
      <4>1. Root \notin Below(n)
        <5>1. Below(n) \subseteq Dirs
          BY ReachWithin DEF Below, Inside
        <5>2. QED
          BY <1>1, <5>1, IdAssumption DEF FilesOK, Files, Dirs
      <4>2. QED
        BY <3>2, <3>4, <4>1 DEF Below
    <3>6. \A x \in Dirs \ {n} : Homes(S1)[x] = Homes(Files)[x]
      BY <1>9 DEF Homes, Files, Dirs
    <3>7. QED
      BY <1>1, <3>1, <3>2, <3>3, <3>5, <3>6, RootedMove
  <2>2. p \in DOMAIN U.place \cup {Root} /\ n \in U.issued
    BY <1>1, <1>2, <1>6 DEF Dirs
  <2>3. QED
    BY <1>3, <1>4, <1>7, <2>1, <2>2, SafeDir
<1>11. Safe(Files, n, cut, S2)
  <2>1. Unlisted(S1, n, cut)
    BY <1>6, <1>7, <1>8 DEF Unlisted
  <2>2. QED
    BY <1>1, <1>2, <1>3, <1>4, <1>9, <1>10, <2>1, SafeOwn
<1>12. /\ S2.place = S1.place /\ S2.node = With(node, n, r) /\ S2.kids = U.kids
       /\ S2.canvas = canvas /\ S2.issued = issued
  <2>1. S2.kids = With(U.kids, n, kids[n])
    BY <1>4, <1>8, PutJsonParts
  <2>2. U.kids[n] = kids[n] /\ DOMAIN U.kids = Live
    BY <1>1, <1>6
  <2>3. S2.kids = U.kids
    BY <1>1, <1>6, <2>1, <2>2 DEF With
  <2>4. QED
    BY <1>4, <1>8, <2>3, PutJsonParts
<1>13. /\ DOMAIN S2.node = Live /\ S2.node[n] = r /\ \A x \in Live \ {n} : S2.node[x] = node[x]
       /\ S2.kids[n] = kids[n] /\ DOMAIN S2.kids = Live
       /\ S2.place[n] = h /\ n \in Files.issued /\ n \in DOMAIN Files.node
       /\ Files.kids[n] = kids[n]
       /\ S2.node[n].parent = p /\ S2.place[n].home = p
  <2>1. DOMAIN S2.node = Live /\ S2.node[n] = r /\ \A x \in Live \ {n} : S2.node[x] = node[x]
    BY <1>1, <1>12 DEF With, Live
  <2>2. S2.kids[n] = kids[n] /\ DOMAIN S2.kids = Live
    BY <1>1, <1>6, <1>12
  <2>3. S2.place[n] = h /\ n \in Files.issued /\ n \in DOMAIN Files.node /\ Files.kids[n] = kids[n]
    BY <1>1, <1>5, <1>9, <1>12 DEF Live
  <2>4. QED
    BY <1>3, <2>1, <2>2, <2>3
<1>14. /\ Fine(Files, n, cut) /\ Fine(U, n, cut) /\ Fine(S1, n, cut) /\ Fine(S2, n, cut)
  BY <1>7, <1>10, <1>11, SafeIsFine, SafeStart DEF Fine
<1>15. ASSUME Whole(Files)
       PROVE  /\ h = FreeIn(Files, p, {}, node[n].title) /\ Dirs = Live /\ DOMAIN canvas = Live
              /\ BelowIn(Files, n) = Below(n)
              /\ S2.place = [place EXCEPT ![n] = FreeIn(Files, p, {}, node[n].title)]
              /\ S2.node = [node EXCEPT ![n].parent = p]
              /\ DOMAIN S2.place = Live
  <2>1. h = FreeIn(Files, p, {}, node[n].title)
    BY <1>15, FreeNames DEF h
  <2>2. Dirs = Live /\ DOMAIN canvas = Live
    BY <1>5, <1>15 DEF Whole, Dirs, Live
  <2>3. BelowIn(Files, n) = Below(n)
    BY DEF BelowIn, InsideOf, Below, Inside, Files, Dirs
  <2>4. place = [d \in Dirs |-> place[d]]
    <3>1. place = [d \in Dirs |-> [home |-> place[d].home, slug |-> place[d].slug]]
      BY <1>1, <1>5 DEF FilesOK, Dirs
    <3>2. QED
      BY <3>1
  <2>5. S2.place = [place EXCEPT ![n] = FreeIn(Files, p, {}, node[n].title)]
    BY <1>1, <1>8, <1>12, <2>1, <2>4 DEF With, Dirs
  <2>6. node = [x \in Live |-> node[x]]
    BY <1>1, <1>5 DEF FilesOK, Live
  <2>7. S2.node = [node EXCEPT ![n].parent = p]
    BY <1>1, <1>12, <2>6 DEF With, r, Live
  <2>8. QED
    BY <1>9, <1>12, <2>1, <2>2, <2>3, <2>5, <2>7
<1>16. CASE p = Root
  <2>1. Sane(S2, cut)
    BY <1>1, <1>11, <1>13, <1>16, SafeIsSane
  <2>2. ASSUME Whole(Files) PROVE Whole(S2) /\ OneStep(Files, S2)
    <3>1. S2.kids = [x \in Live |-> IF x = p THEN Inserted(kids[x], n, pos)
                                    ELSE IF x = q THEN Without(kids[x], n) ELSE kids[x]]
      BY <1>1, <1>6, <1>12, <1>16, IdAssumption
    <3>2. Shape(S2)
      BY <1>4, PutJsonParts DEF Shape
    <3>3. Moved(Files, S2, n, p, pos)
      <4>1. n \in DOMAIN Files.node /\ p \in (DOMAIN Files.node \ BelowIn(Files, n)) \cup {Root}
        BY <1>5, <1>13, <1>15, <2>2 DEF Live
      <4>2. S2 = [place |-> S2.place, node |-> S2.node, kids |-> S2.kids, canvas |-> canvas,
                  issued |-> issued]
        BY <1>12, <3>2 DEF Shape
      <4>3. QED
        <5>1. S2 = [place |-> S2.place, node |-> S2.node, kids |-> S2.kids,
                    canvas |-> Files.canvas, issued |-> Files.issued]
          BY <1>5, <4>2
        <5>2. S2.kids = [x \in DOMAIN Files.node |->
                          IF x = p THEN Inserted(Files.kids[x], n, pos)
                          ELSE IF x = Files.node[n].parent THEN Without(Files.kids[x], n)
                          ELSE Files.kids[x]]
          BY <1>5, <3>1 DEF Live, q
        <5>3. /\ S2.place = [Files.place EXCEPT ![n] = FreeIn(Files, p, {}, Files.node[n].title)]
              /\ S2.node = [Files.node EXCEPT ![n].parent = p]
          BY <1>5, <1>15, <2>2
        <5>4. QED
          BY <4>1, <5>1, <5>2, <5>3 DEF Moved
    <3>4. Whole(S2)
      BY <1>12, <1>13, <1>15, <2>2 DEF Whole
    <3>5. QED
      BY <1>2, <3>3, <3>4 DEF OneStep
  <2>3. Goal(Files, cut, crashes, S2)
    BY <2>1, <2>2 DEF Goal
  <2>4. CASE Unlist(n) = << >> /\ U = Files
    <3>1. Unlist(n) \o <<u, v>> \o << >> = <<u, v>>
      <4>1. <<u, v>> \in Seq({u, v})
        OBVIOUS
      <4>2. QED
        BY <2>4, <4>1, NoMore
    <3>2. Way(Files, <<u, v>>, S2, n, cut) /\ Plain(<<u, v>>)
      BY <1>4, <1>14, <2>4 DEF Way, Plain, S1, S2
    <3>3. Begun(Files, Files, <<u, v>>, n, cut, crashes)
      BY <1>14, <2>3, <3>2 DEF Begun
    <3>4. QED
      BY <1>16, <3>1, <3>3 DEF u, v, r, h
  <2>5. ASSUME NEW c, Unlist(n) = <<c>>, U = Put(Files, c), c.do # "rmtree"
        PROVE  Begun(Files, Files, Unlist(n) \o <<u, v>> \o << >>, n, cut, crashes)
    <3>1. Unlist(n) \o <<u, v>> \o << >> = <<c, u, v>>
      <4>1. <<c, u, v>> \in Seq({c, u, v}) /\ <<c>> \o <<u, v>> = <<c, u, v>>
        BY TwoCalls
      <4>2. QED
        BY <2>5, <4>1, NoMore
    <3>2. Way(Files, <<c, u, v>>, S2, n, cut) /\ Plain(<<c, u, v>>)
      BY <1>4, <1>14, <2>5 DEF Way, Plain, S1, S2
    <3>3. QED
      BY <1>14, <2>3, <3>1, <3>2 DEF Begun
  <2>6. QED
    BY <1>7, <1>16, <2>4, <2>5 DEF u, v, r, h
<1>17. CASE p # Root
  <2>1. /\ p \in Live /\ kids[p] \in Seq(Id) /\ Once(kids[p]) /\ pos \in Nat
        /\ p \in DOMAIN S2.node /\ S2.node[p] = node[p] /\ FilesOK(S2)
    BY <1>1, <1>2, <1>11, <1>13, <1>17, DataAssumption DEF Safe
  <2>2. l \in Seq(Id) /\ Once(l) /\ ToSet(l) = ToSet(kids[p]) \cup {n}
    BY <2>1, InsertedList DEF l
  <2>3. ToSet(l) \ {n} = ToSet(S2.kids[p]) \ {n}
    <3>1. S2.kids[p] = IF p = q THEN Without(kids[p], n) ELSE kids[p]
      BY <1>6, <1>12, <2>1
    <3>2. ToSet(Without(kids[p], n)) = ToSet(kids[p]) \ {n}
      BY <2>1, WithoutList
    <3>3. QED
      BY <2>2, <3>1, <3>2
  <2>4. S3 = Put(S2, PutJson(p, S2.node[p], l)) /\ JsonMade(S2, p, node[p], l, S3)
    BY <1>4, <2>1, JsonFields
  <2>5. Safe(Files, n, cut, S3)
    BY <1>1, <1>2, <1>11, <1>13, <2>1, <2>2, <2>3, <2>4, SafeList
  <2>6. /\ DOMAIN S3.node = Live /\ S3.node[n].parent = p /\ S3.place[n].home = p /\ S3.kids[n] = kids[n]
        /\ S3.kids[p] = l
    BY <1>1, <1>2, <1>13, <2>1, <2>4 DEF JsonMade
  <2>7. Sane(S3, cut)
    BY <1>1, <1>13, <2>1, <2>2, <2>5, <2>6, SafeIsSane
  <2>8. ASSUME Whole(Files) PROVE Whole(S3) /\ OneStep(Files, S3)
    <3>1. /\ S3.place = S2.place /\ S3.node = With(S2.node, p, node[p])
          /\ S3.kids = With(S2.kids, p, l) /\ S3.canvas = S2.canvas /\ S3.issued = S2.issued
      BY <1>4, PutJsonParts
    <3>2. S3.kids = [x \in Live |-> IF x = p THEN Inserted(kids[x], n, pos)
                                    ELSE IF x = q THEN Without(kids[x], n) ELSE kids[x]]
      BY <1>6, <1>12, <2>1, <3>1 DEF With, l
    <3>3. S3.node = S2.node
      <4>1. S2.node = [x \in Live |-> S2.node[x]]
        BY <1>1, <1>12 DEF With, Live
      <4>2. QED
        BY <2>1, <3>1, <4>1 DEF With
    <3>4. Shape(S3)
      BY <1>4, PutJsonParts DEF Shape
    <3>5. Moved(Files, S3, n, p, pos)
      <4>1. n \in DOMAIN Files.node /\ p \in (DOMAIN Files.node \ BelowIn(Files, n)) \cup {Root}
        BY <1>5, <1>13, <1>15, <2>8 DEF Live
      <4>2. S3 = [place |-> S2.place, node |-> S2.node, kids |-> S3.kids, canvas |-> canvas,
                  issued |-> issued]
        BY <1>12, <3>1, <3>3, <3>4 DEF Shape
      <4>3. QED
        <5>1. S3 = [place |-> S2.place, node |-> S2.node, kids |-> S3.kids,
                    canvas |-> Files.canvas, issued |-> Files.issued]
          BY <1>5, <4>2
        <5>2. S3.kids = [x \in DOMAIN Files.node |->
                          IF x = p THEN Inserted(Files.kids[x], n, pos)
                          ELSE IF x = Files.node[n].parent THEN Without(Files.kids[x], n)
                          ELSE Files.kids[x]]
          BY <1>5, <3>2 DEF Live, q
        <5>3. /\ S2.place = [Files.place EXCEPT ![n] = FreeIn(Files, p, {}, Files.node[n].title)]
              /\ S2.node = [Files.node EXCEPT ![n].parent = p]
          BY <1>5, <1>15, <2>8
        <5>4. QED
          BY <4>1, <5>1, <5>2, <5>3 DEF Moved
    <3>6. Whole(S3)
      BY <1>12, <1>13, <1>15, <2>8, <3>1, <3>3 DEF Whole
    <3>7. QED
      BY <1>2, <3>5, <3>6 DEF OneStep
  <2>9. Goal(Files, cut, crashes, S3)
    BY <2>7, <2>8 DEF Goal
  <2>10. CASE Unlist(n) = << >> /\ U = Files
    <3>1. Unlist(n) \o <<u, v>> \o <<w>> = <<u, v, w>>
      <4>1. << >> \o <<u, v>> = <<u, v>> /\ <<u, v>> \o <<w>> = <<u, v, w>>
        BY TwoCalls
      <4>2. QED
        BY <2>10, <4>1
    <3>2. Way(Files, <<u, v, w>>, S3, n, cut) /\ Plain(<<u, v, w>>)
      BY <1>4, <1>14, <2>10 DEF Way, Plain, S1, S2, S3
    <3>3. QED
      BY <1>14, <1>17, <2>9, <3>1, <3>2 DEF Begun, u, v, w, r, h, l
  <2>11. ASSUME NEW c, Unlist(n) = <<c>>, U = Put(Files, c), c.do # "rmtree"
         PROVE  Begun(Files, Files, Unlist(n) \o <<u, v>> \o <<w>>, n, cut, crashes)
    <3>1. Unlist(n) \o <<u, v>> \o <<w>> = <<c, u, v, w>>
      <4>1. <<c>> \o <<u, v>> = <<c, u, v>>
        BY TwoCalls
      <4>2. QED
        BY <2>11, <4>1, OneMore
    <3>2. Way(Files, <<c, u, v, w>>, S3, n, cut) /\ Plain(<<c, u, v, w>>)
      BY <1>4, <1>14, <2>11 DEF Way, Plain, S1, S2, S3
    <3>3. QED
      BY <1>14, <2>9, <3>1, <3>2 DEF Begun
  <2>12. QED
    BY <1>7, <1>17, <2>10, <2>11 DEF u, v, w, r, h, l
<1>18. QED
  BY <1>16, <1>17

-----------------------------------------------------------------------------
(* Delete: what is left of F while the directories at and below a go. Every  *)
(* file that is still there is the one it was after the list of a's parent   *)
(* was rewritten, and everywhere else all are.                               *)
OffIn(F, a) ==
    [place |-> F.place, node |-> F.node,
     kids |-> [x \in DOMAIN F.node |->
                  IF x = F.node[a].parent THEN Without(F.kids[x], a) ELSE F.kids[x]],
     canvas |-> F.canvas, issued |-> F.issued]

Part(f, g, B) == /\ DOMAIN f \ B \subseteq DOMAIN g /\ DOMAIN g \subseteq DOMAIN f
                 /\ g = [x \in DOMAIN g |-> f[x]]

Thinned(F, a, G) ==
    LET U == OffIn(F, a)
        B == BelowIn(F, a)
    IN  /\ Part(U.place, G.place, B) /\ Part(U.node, G.node, B)
        /\ Part(U.kids, G.kids, B) /\ Part(U.canvas, G.canvas, B)
        /\ G.issued = U.issued
        /\ FilesOK(G) /\ Shape(G)

(* The directories rmtree is in: each inside the one before, the first of a. *)
Walked(F, a, G, stack) ==
    /\ stack \in Seq(DOMAIN G.place) /\ stack # << >> /\ stack[1] = a
    /\ \A i \in 1 .. Len(stack) : stack[i] \in BelowIn(F, a)
    /\ \A i \in 1 .. Len(stack) - 1 : G.place[stack[i + 1]].home = stack[i]

LEMMA ThinnedFields ==
    ASSUME NEW F, NEW a, NEW G, Thinned(F, a, G)
    PROVE  /\ FilesOK(G) /\ G.issued = F.issued
           /\ DOMAIN G.place \subseteq DOMAIN F.place
           /\ DOMAIN F.place \ BelowIn(F, a) \subseteq DOMAIN G.place
           /\ DOMAIN G.node \subseteq DOMAIN F.node
           /\ DOMAIN F.node \ BelowIn(F, a) \subseteq DOMAIN G.node
           /\ DOMAIN G.canvas \subseteq DOMAIN F.canvas
           /\ DOMAIN F.canvas \ BelowIn(F, a) \subseteq DOMAIN G.canvas
           /\ \A d \in DOMAIN G.place : G.place[d] = F.place[d]
           /\ \A n \in DOMAIN G.node :
                 /\ G.node[n] = F.node[n]
                 /\ G.kids[n] = IF n = F.node[a].parent THEN Without(F.kids[n], a) ELSE F.kids[n]
<1>1. FilesOK(G) /\ G.issued = F.issued /\ DOMAIN G.kids = DOMAIN G.node
  BY DEF Thinned, OffIn, FilesOK
<1>2. /\ Part(F.place, G.place, BelowIn(F, a)) /\ Part(F.node, G.node, BelowIn(F, a))
      /\ Part(F.canvas, G.canvas, BelowIn(F, a))
  BY DEF Thinned, OffIn
<1>3. /\ DOMAIN G.place \subseteq DOMAIN F.place
      /\ DOMAIN F.place \ BelowIn(F, a) \subseteq DOMAIN G.place
      /\ DOMAIN G.node \subseteq DOMAIN F.node /\ DOMAIN F.node \ BelowIn(F, a) \subseteq DOMAIN G.node
      /\ DOMAIN G.canvas \subseteq DOMAIN F.canvas
      /\ DOMAIN F.canvas \ BelowIn(F, a) \subseteq DOMAIN G.canvas
      /\ \A d \in DOMAIN G.place : G.place[d] = F.place[d]
      /\ \A n \in DOMAIN G.node : G.node[n] = F.node[n]
  BY <1>2 DEF Part
<1>4. ASSUME NEW n \in DOMAIN G.node
      PROVE  G.kids[n] = IF n = F.node[a].parent THEN Without(F.kids[n], a) ELSE F.kids[n]
  <2>1. Part(OffIn(F, a).kids, G.kids, BelowIn(F, a))
    BY DEF Thinned
  <2>2. G.kids[n] = OffIn(F, a).kids[n]
    BY <1>1, <2>1 DEF Part
  <2>3. n \in DOMAIN F.node
    BY <1>3
  <2>4. QED
    BY <2>2, <2>3 DEF OffIn
<1>5. QED
  BY <1>1, <1>3, <1>4

(* Outside the directory of a, the files are as sound as they were.          *)
LEMMA ThinnedSound ==
    ASSUME NEW F, NEW C, NEW a \in DOMAIN F.place, NEW G, Sane(F, C), Thinned(F, a, G),
           NEW n \in DOMAIN G.node, n \notin C, n \notin BelowIn(F, a)
    PROVE  SoundIn(G, n)
<1> DEFINE B == BelowIn(F, a)
           I == InsideOf(F)
<1>1. /\ DOMAIN F.node \ B \subseteq DOMAIN G.node /\ DOMAIN G.node \subseteq DOMAIN F.node
      /\ DOMAIN G.place \subseteq DOMAIN F.place
      /\ \A d \in DOMAIN G.place : G.place[d] = F.place[d]
      /\ \A m \in DOMAIN G.node :
            /\ G.node[m] = F.node[m]
            /\ G.kids[m] = IF m = F.node[a].parent THEN Without(F.kids[m], a) ELSE F.kids[m]
      /\ DOMAIN G.node \subseteq DOMAIN G.place
  <2>1. FilesOK(G)
    BY ThinnedFields
  <2>2. DOMAIN G.node \subseteq DOMAIN G.place
    BY <2>1 DEF FilesOK
  <2>3. QED
    BY <2>2, ThinnedFields
<1>2. SoundIn(F, n) /\ n \in DOMAIN F.node /\ n \in DOMAIN F.place
  BY <1>1 DEF Sane, FilesOK
<1>3. DOMAIN F.node \subseteq DOMAIN F.place
  BY DEF Sane, FilesOK
<1>4. a \in B /\ n # a
  BY ReachSelf DEF BelowIn, InsideOf
<1>5. ASSUME NEW x \in B, NEW y \in DOMAIN F.place, F.place[y].home = x PROVE y \in B
  <2>1. x \in DOMAIN F.place
    BY ReachWithin DEF BelowIn, InsideOf
  <2>2. y \in I[x] /\ y \in DOMAIN I
    BY <1>5, <2>1 DEF InsideOf
  <2>3. QED
    BY <2>2, ReachClosed DEF BelowIn
<1>6. ASSUME NEW y \in B, y # a PROVE F.place[y].home \in B
  <2>1. \A x \in DOMAIN I : I[x] \subseteq DOMAIN I
    BY DEF InsideOf
  <2>2. a \in DOMAIN I
    BY DEF InsideOf
  <2>3. PICK x \in B : y \in I[x]
    BY <1>6, <2>1, <2>2, ReachFrom DEF BelowIn
  <2>4. x \in DOMAIN F.place
    BY ReachWithin DEF BelowIn, InsideOf
  <2>5. QED
    BY <2>3, <2>4 DEF InsideOf
<1>7. \A m \in DOMAIN G.node : ToSet(G.kids[m]) = IF m = F.node[a].parent THEN ToSet(F.kids[m]) \ {a}
                                                    ELSE ToSet(F.kids[m])
  <2>1. SUFFICES ASSUME NEW m \in DOMAIN F.node
                 PROVE  ToSet(Without(F.kids[m], a)) = ToSet(F.kids[m]) \ {a}
    BY <1>1
  <2>2. F.kids[m] \in Seq(Id) /\ Once(F.kids[m])
    BY DEF Sane, FilesOK
  <2>3. QED
    BY <2>2, WithoutList
<1> HIDE DEF B, I
<1>8. ASSUME NEW p, p = F.node[n].parent, p # Root
      PROVE  p \in DOMAIN G.node /\ n \in ToSet(G.kids[p])
  <2>1. p \in DOMAIN F.node /\ n \in ToSet(F.kids[p]) /\ F.place[n].home = p
    BY <1>2, <1>8 DEF SoundIn
  <2>2. p \notin B
    BY <1>2, <1>5, <2>1 DEF B
  <2>3. QED
    BY <1>1, <1>4, <1>7, <2>1, <2>2
<1>9. ASSUME NEW c \in ToSet(G.kids[n])
      PROVE  c \in DOMAIN G.node /\ G.node[c].parent = n /\ G.place[c].home = n
  <2>1. c \in ToSet(F.kids[n])
    BY <1>7
  <2>2. c \in DOMAIN F.node /\ F.node[c].parent = n /\ F.place[c].home = n
    BY <1>2, <2>1 DEF SoundIn
  <2>3. c # a
    BY <1>7, <2>2
  <2>4. c \notin B
    BY <1>6, <2>2, <2>3 DEF B
  <2>5. QED
    BY <1>1, <2>2, <2>4
<1>10. QED
  BY <1>1, <1>2, <1>8, <1>9 DEF SoundIn

LEMMA ThinnedRooted ==
    ASSUME NEW F, NEW C, NEW a, NEW G, Sane(F, C), Thinned(F, a, G)
    PROVE  Rooted(Homes(G))
<1>1. /\ DOMAIN G.place \subseteq DOMAIN F.place
      /\ \A d \in DOMAIN G.place : G.place[d] = F.place[d]
  BY ThinnedFields
<1>2. Rooted(Homes(F))
  BY DEF Sane
<1>3. DOMAIN Homes(G) \subseteq DOMAIN Homes(F) /\ \A d \in DOMAIN Homes(G) : Homes(G)[d] = Homes(F)[d]
  BY <1>1 DEF Homes
<1>4. QED
  BY <1>2, <1>3, RootedRestrict

(* What is left of the directories at and below a still hangs on a.          *)
LEMMA LeftBelow ==
    ASSUME NEW F, NEW C, NEW a \in DOMAIN F.place, NEW G, Sane(F, C), Thinned(F, a, G),
           a \in DOMAIN G.place
    PROVE  BelowIn(F, a) \cap DOMAIN G.place \subseteq BelowIn(G, a)
<1> DEFINE I == InsideOf(F)
           S == BelowIn(G, a) \cup (DOMAIN F.place \ DOMAIN G.place)
<1>1. /\ DOMAIN G.place \subseteq DOMAIN F.place
      /\ \A d \in DOMAIN G.place : G.place[d] = F.place[d]
      /\ \A d \in DOMAIN G.place : G.place[d].home \in DOMAIN G.place \cup {Root}
  <2>1. FilesOK(G)
    BY ThinnedFields
  <2>2. \A d \in DOMAIN G.place : G.place[d].home \in DOMAIN G.place \cup {Root}
    BY <2>1 DEF FilesOK
  <2>3. QED
    BY <2>2, ThinnedFields
<1>2. BelowIn(G, a) \subseteq DOMAIN G.place /\ DOMAIN I = DOMAIN F.place /\ Root \notin DOMAIN F.place
  BY ReachWithin, IdAssumption DEF BelowIn, InsideOf, Sane, FilesOK
<1>3. S \in SUBSET DOMAIN I /\ a \in S
  BY <1>1, <1>2, ReachSelf DEF BelowIn, InsideOf
<1>4. ASSUME NEW x \in S, NEW y \in I[x] PROVE y \in S
  <2>1. x \in DOMAIN F.place /\ y \in DOMAIN F.place /\ F.place[y].home = x
    BY <1>3, <1>4 DEF InsideOf
  <2>2. CASE y \notin DOMAIN G.place
    BY <2>1, <2>2
  <2>3. CASE y \in DOMAIN G.place
    <3>1. x \in DOMAIN G.place /\ G.place[y].home = x
      BY <1>1, <1>2, <2>1, <2>3
    <3>2. x \in BelowIn(G, a) /\ y \in InsideOf(G)[x] /\ y \in DOMAIN InsideOf(G)
      BY <1>4, <2>3, <3>1 DEF InsideOf
    <3>3. QED
      BY <3>2, ReachClosed DEF BelowIn
  <2>4. QED
    BY <2>2, <2>3
<1> HIDE DEF I, S
<1>5. BelowIn(F, a) \subseteq S
  BY <1>3, <1>4, ReachLeast DEF BelowIn, I
<1>6. QED
  BY <1>5 DEF S

(* A crash in the middle of it harms nothing else.                           *)
LEMMA ThinnedIsFine ==
    ASSUME NEW F, NEW C, NEW a \in DOMAIN F.place, NEW G, Sane(F, C), Thinned(F, a, G),
           a \in DOMAIN G.place
    PROVE  Fine(G, a, C)
<1>1. FilesOK(G) /\ Rooted(Homes(G)) /\ DOMAIN G.node \subseteq DOMAIN G.place
  BY ThinnedRooted, ThinnedFields DEF FilesOK
<1>2. ASSUME NEW n \in DOMAIN G.node, n \notin C, n \notin Hurt(G, a) PROVE SoundIn(G, n)
  <2>1. n \notin BelowIn(G, a)
    BY <1>2 DEF Hurt
  <2>2. n \notin BelowIn(F, a)
    BY <1>1, <2>1, LeftBelow
  <2>3. QED
    BY <1>2, <2>2, ThinnedSound
<1>3. QED
  BY <1>1, <1>2 DEF Fine, Sane

(* When nothing at and below a is left, the delete is done.                  *)
LEMMA ThinnedIsDone ==
    ASSUME NEW F, NEW C, NEW a \in DOMAIN F.node, a \in Id, NEW G, Sane(F, C), Thinned(F, a, G),
           BelowIn(F, a) \cap DOMAIN G.place = {}
    PROVE  Sane(G, C) /\ (Whole(F) => Whole(G) /\ OneStep(F, G))
<1>1. FilesOK(G) /\ Rooted(Homes(G)) /\ DOMAIN G.node \subseteq DOMAIN G.place
      /\ DOMAIN G.canvas \subseteq DOMAIN G.place /\ a \in DOMAIN F.place
  BY ThinnedRooted, ThinnedFields DEF FilesOK, Sane
<1>2. Sane(G, C)
  <2>1. ASSUME NEW n \in DOMAIN G.node, n \notin C PROVE SoundIn(G, n)
    BY <1>1, <2>1, ThinnedSound
  <2>2. QED
    BY <1>1, <2>1 DEF Sane
<1>3. ASSUME Whole(F) PROVE Whole(G) /\ OneStep(F, G)
  <2> DEFINE kept == DOMAIN F.node \ BelowIn(F, a)
             U == OffIn(F, a)
  <2>1. DOMAIN G.place = kept /\ DOMAIN G.node = kept /\ DOMAIN G.canvas = kept
    BY <1>1, <1>3, ThinnedFields DEF Whole
  <2>2. DOMAIN G.kids = kept
    BY <1>1, <2>1 DEF FilesOK
  <2>3. /\ G.place = [x \in DOMAIN G.place |-> F.place[x]]
        /\ G.node = [x \in DOMAIN G.node |-> F.node[x]]
        /\ G.canvas = [x \in DOMAIN G.canvas |-> F.canvas[x]]
        /\ G.kids = [x \in DOMAIN G.kids |-> U.kids[x]]
        /\ G.issued = F.issued /\ Shape(G)
    BY DEF Thinned, Part, OffIn
  <2>4. G.kids = [x \in kept |->
                     IF x = F.node[a].parent THEN Without(F.kids[x], a) ELSE F.kids[x]]
    BY <2>2, <2>3 DEF OffIn
  <2>5. Deleted(F, G, a)
    BY <2>1, <2>3, <2>4 DEF Deleted, Shape
  <2>6. QED
    BY <2>1, <2>5 DEF OneStep, Whole
<1>4. QED
  BY <1>2, <1>3

-----------------------------------------------------------------------------
(* The calls of the module, on the record of files.                          *)
LEMMA CallPuts ==
    ASSUME MoveDir \/ WriteJson \/ WriteText
    PROVE  /\ plan # << >> /\ Head(plan).do # "rmtree"
           /\ Files' = Put(Files, Head(plan)) /\ plan' = Tail(plan)
           /\ UNCHANGED <<before, cut, crashes>>
<1>1. CASE MoveDir
  BY <1>1 DEF MoveDir, IsNext, Made, Put, Files
<1>2. CASE WriteJson
  BY <1>2 DEF WriteJson, IsNext, Made, Put, Files
<1>3. CASE WriteText
  BY <1>3 DEF WriteText, IsNext, Made, Put, Files
<1>4. QED
  BY <1>1, <1>2, <1>3

(* The unlinks, the descents and the removals of rmtree.                     *)
LEMMA OneLess ==
    ASSUME NEW f, NEW g, NEW B, Part(f, g, B), NEW x \in B
    PROVE  Part(f, Less(g, x), B)
BY DEF Part, Less

(* Writing: the calls left lead to the files meant. Clearing: the list of    *)
(* the parent is rewritten, then the walk goes on until nothing is left.     *)
Writing(F, a) ==
    /\ Fine(Files, a, cut) /\ Plain(plan)
    /\ \E H : Way(Files, plan, H, a, cut) /\ Goal(F, cut, crashes, H)

Unlisting(F, a) ==
    /\ Files = F /\ FilesOK(OffIn(F, a))
    /\ \E u : plan = <<u, Rmtree(<<a>>)>> /\ u.do # "rmtree" /\ Put(F, u) = OffIn(F, a)

Clearing(F, a) ==
    /\ Thinned(F, a, Files)
    /\ \E stack : plan = <<Rmtree(stack)>> /\ Walked(F, a, Files, stack)

UnderWay(F, a) ==
    /\ a \in Id /\ a \in issued
    /\ Sane(F, cut) /\ Shape(F) /\ (crashes = 0 => Whole(F))
    /\ \/ Writing(F, a)
       \/ a \in DOMAIN F.node /\ (Unlisting(F, a) \/ Clearing(F, a))

DiskInv ==
    /\ FilesOK(Files) /\ cut \subseteq issued /\ crashes \in 0 .. MaxCrashes
    /\ Quiet => Sane(Files, cut) /\ (crashes = 0 => Whole(Files))
    /\ ~Quiet => UnderWay(before.files, before.about)

LEMMA InitDisk == Init => DiskInv
<1> SUFFICES ASSUME Init PROVE DiskInv
  OBVIOUS
<1>1. /\ place = << >> /\ node = << >> /\ kids = << >> /\ canvas = << >> /\ issued = {}
      /\ plan = << >> /\ cut = {} /\ crashes = 0
  BY DEF Init
<1>2. /\ Files.place = << >> /\ Files.node = << >> /\ Files.kids = << >>
      /\ Files.canvas = << >> /\ Files.issued = {}
  BY <1>1 DEF Files
<1>3. DOMAIN << >> = {} /\ \A S : << >> \in [{} -> S] /\ << >> = [x \in {} |-> S]
  OBVIOUS
<1>4. FilesOK(Files)
  BY <1>2, <1>3 DEF FilesOK
<1>5. Rooted(Homes(Files)) /\ Whole(Files)
  BY <1>2, <1>3 DEF Rooted, Homes, Whole
<1>6. Sane(Files, cut)
  BY <1>2, <1>3, <1>4, <1>5 DEF Sane
<1>7. QED
  BY <1>1, <1>4, <1>5, <1>6, CrashAssumption DEF DiskInv, Quiet

(* A request begins.                                                         *)
LEMMA PlanFacts ==
    ASSUME NEW S, NEW calls, NEW a, NEW C, NEW F, NEW n, Begun(F, S, calls, a, C, n)
    PROVE  calls # << >>
BY WayOn DEF Begun

LEMMA BeginsWriting ==
    ASSUME DiskInv, NEW a \in Id, NEW calls, Begin(a, calls), issued \subseteq issued', a \in issued',
           Begun(Files, Files', calls, a, cut, crashes)
    PROVE  DiskInv' /\ plan' # << >>
<1>1. /\ plan' = calls /\ before' = [files |-> Files, about |-> a] /\ Quiet
      /\ cut' = cut /\ crashes' = crashes
  BY DEF Begin, Quiet
<1>2. /\ Sane(Files, cut) /\ (crashes = 0 => Whole(Files)) /\ cut \subseteq issued
      /\ crashes \in 0 .. MaxCrashes
  BY <1>1 DEF DiskInv
<1>3. plan' # << >> /\ ~Quiet'
  BY <1>1, PlanFacts DEF Quiet
<1>4. FilesOK(Files') /\ Fine(Files', a, cut) /\ Plain(calls)
  BY DEF Begun, Fine, Sane
<1>5. PICK H : Way(Files', calls, H, a, cut) /\ Goal(Files, cut, crashes, H)
  BY DEF Begun
<1>6. before.files' = Files /\ before.about' = a
  BY <1>1
<1>7. Writing(before.files, before.about)'
  BY <1>1, <1>4, <1>5, <1>6 DEF Writing
<1>8. Shape(Files)
  BY DEF Shape, Files
<1>9. UnderWay(before.files, before.about)'
  BY <1>1, <1>2, <1>6, <1>7, <1>8 DEF UnderWay
<1>10. QED
  BY <1>1, <1>2, <1>3, <1>4, <1>9 DEF DiskInv

(* Where the walk of rmtree begins.                                          *)
LEMMA ClearStart ==
    ASSUME NEW F, NEW C, Sane(F, C), NEW a \in DOMAIN F.node, FilesOK(OffIn(F, a))
    PROVE  Thinned(F, a, OffIn(F, a)) /\ Walked(F, a, OffIn(F, a), <<a>>)
<1> DEFINE U == OffIn(F, a)
<1>1. FilesOK(F)
  BY DEF Sane
<1>2. U.place = F.place /\ U.node = F.node /\ U.canvas = F.canvas /\ Shape(U)
  BY DEF OffIn, Shape
<1>3. /\ U.place = [x \in DOMAIN U.place |-> U.place[x]]
      /\ U.node = [x \in DOMAIN U.node |-> U.node[x]]
      /\ U.kids = [x \in DOMAIN U.kids |-> U.kids[x]]
      /\ U.canvas = [x \in DOMAIN U.canvas |-> U.canvas[x]]
  <2>1. U.place = [x \in DOMAIN U.place |->
                      [home |-> U.place[x].home, slug |-> U.place[x].slug]]
    BY DEF FilesOK
  <2>2. QED
    BY <2>1 DEF FilesOK
<1>4. Thinned(F, a, U)
  <2> HIDE DEF U
  <2>1. Part(U.place, U.place, BelowIn(F, a)) /\ Part(U.node, U.node, BelowIn(F, a))
        /\ Part(U.kids, U.kids, BelowIn(F, a)) /\ Part(U.canvas, U.canvas, BelowIn(F, a))
    BY <1>3 DEF Part
  <2>2. QED
    BY <1>2, <2>1 DEF Thinned, U
<1>5. Walked(F, a, U, <<a>>)
  <2>1. a \in DOMAIN U.place /\ a \in DOMAIN F.place
    BY <1>1, <1>2 DEF FilesOK
  <2>2. a \in BelowIn(F, a)
    BY <2>1, ReachSelf DEF BelowIn, InsideOf
  <2>3. /\ <<a>> \in Seq(DOMAIN U.place) /\ Len(<<a>>) = 1 /\ <<a>> # << >>
        /\ <<a>>[1] = a
    BY <2>1, OneTuple
  <2> HIDE DEF U
  <2>4. QED
    BY <2>2, <2>3 DEF Walked
<1>6. QED
  BY <1>4, <1>5

LEMMA RequestBegins ==
    ASSUME DiskInv, Request
    PROVE  DiskInv' /\ ~Quiet'
<1> USE DEF Quiet
<1>1. FilesOK(Files) /\ issued \subseteq Id /\ Live \subseteq issued /\ Root \notin Live
  <2>1. FilesOK(Files)
    BY DEF DiskInv
  <2>2. QED
    BY <2>1, IdAssumption DEF FilesOK, Files, Live
<1>2. ASSUME plan = << >> PROVE Sane(Files, cut) /\ (crashes = 0 => Whole(Files)) /\ cut \subseteq issued
  BY <1>2 DEF DiskInv
<1>3. ASSUME UNCHANGED <<files, issued>> PROVE Files' = Files
  BY <1>3 DEF Files, files
<1>4. ASSUME NEW n \in Id, NEW p \in Id \cup {Root}, NEW t \in Title, Create(n, p, t)
      PROVE  DiskInv' /\ plan' # << >>
  <2> DEFINE calls == <<PutDir(n, Free(p, {}, t)),
                        PutJson(n, [title |-> t, parent |-> p, meta |-> NoMeta], << >>),
                        PutCanvas(n, Blank)>>
                      \o (IF p = Root THEN << >> ELSE Relist(p, Appended(kids[p], n)))
             S == [place |-> place, node |-> node, kids |-> kids, canvas |-> canvas,
                   issued |-> issued \cup {n}]
  <2>1. /\ n \in Id \ issued /\ p \in Live \cup {Root} /\ issued' = issued \cup {n}
        /\ Begin(n, calls)
    BY <1>4 DEF Create
  <2>2. plan = << >> /\ Files' = S
    BY <2>1 DEF Begin, files, Files
  <2>3. Begun(Files, S, calls, n, cut, crashes)
    BY <1>2, <2>1, <2>2, CreateBegins
  <2> HIDE DEF calls, S
  <2>4. QED
    BY <2>1, <2>2, <2>3, BeginsWriting
<1>5. ASSUME NEW n \in Id, NEW t \in Title, Rename(n, t)
      PROVE  DiskInv' /\ plan' # << >>
  <2> DEFINE calls == <<PutDir(n, Free(place[n].home, {n}, t)),
                        PutJson(n, [node[n] EXCEPT !.title = t], kids[n])>>
  <2>1. n \in Live /\ Begin(n, calls) /\ issued' = issued
    BY <1>5 DEF Rename
  <2>2. plan = << >> /\ Files' = Files /\ n \in issued
    BY <1>1, <1>3, <2>1 DEF Begin
  <2>3. Begun(Files, Files, calls, n, cut, crashes)
    BY <1>2, <2>1, <2>2, RenameBegins
  <2> HIDE DEF calls
  <2>4. QED
    BY <2>1, <2>2, <2>3, BeginsWriting
<1>6. ASSUME NEW n \in Id, NEW m \in Meta, SetMeta(n, m)
      PROVE  DiskInv' /\ plan' # << >>
  <2> DEFINE calls == <<PutJson(n, [node[n] EXCEPT !.meta = m], kids[n])>>
  <2>1. n \in Live /\ Begin(n, calls) /\ issued' = issued
    BY <1>6 DEF SetMeta
  <2>2. plan = << >> /\ Files' = Files /\ n \in issued
    BY <1>1, <1>3, <2>1 DEF Begin
  <2>3. Begun(Files, Files, calls, n, cut, crashes)
    BY <1>2, <2>1, <2>2, SetMetaBegins
  <2> HIDE DEF calls
  <2>4. QED
    BY <2>1, <2>2, <2>3, BeginsWriting
<1>7. ASSUME NEW n \in Id, NEW p \in Id \cup {Root}, NEW pos \in Position, Move(n, p, pos)
      PROVE  DiskInv' /\ plan' # << >>
  <2> DEFINE calls == Unlist(n)
                      \o <<PutDir(n, Free(p, {}, node[n].title)),
                           PutJson(n, [node[n] EXCEPT !.parent = p], kids[n])>>
                      \o (IF p = Root THEN << >>
                          ELSE <<PutJson(p, node[p], Inserted(kids[p], n, pos))>>)
  <2>1. /\ Attached(n) /\ p \in (Live \ Below(n)) \cup {Root}
        /\ Begin(n, calls) /\ issued' = issued
    BY <1>7 DEF Move
  <2>2. plan = << >> /\ Files' = Files /\ n \in issued
    BY <1>1, <1>3, <2>1 DEF Begin, Attached
  <2>3. Begun(Files, Files, calls, n, cut, crashes)
    BY <1>2, <2>1, <2>2, MoveBegins
  <2> HIDE DEF calls
  <2>4. QED
    BY <2>1, <2>2, <2>3, BeginsWriting
<1>8. ASSUME NEW n \in Id, NEW c \in Canvas, WriteCanvas(n, c)
      PROVE  DiskInv' /\ plan' # << >>
  <2> DEFINE calls == <<PutCanvas(n, c)>>
  <2>1. n \in Live /\ Begin(n, calls) /\ issued' = issued
    BY <1>8 DEF WriteCanvas
  <2>2. plan = << >> /\ Files' = Files /\ n \in issued
    BY <1>1, <1>3, <2>1 DEF Begin
  <2>3. Begun(Files, Files, calls, n, cut, crashes)
    BY <1>2, <2>1, <2>2, WriteCanvasBegins
  <2> HIDE DEF calls
  <2>4. QED
    BY <2>1, <2>2, <2>3, BeginsWriting
<1>9. ASSUME NEW n \in Id, Delete(n) PROVE DiskInv' /\ plan' # << >>
  <2>1. /\ Attached(n) /\ plan = << >> /\ plan' = Unlist(n) \o <<Rmtree(<<n>>)>>
        /\ before.files' = Files /\ before.about' = n
        /\ Files' = Files /\ cut' = cut /\ crashes' = crashes /\ issued' = issued
    BY <1>3, <1>9 DEF Delete, Begin
  <2>2. Sane(Files, cut) /\ (crashes = 0 => Whole(Files)) /\ n \in Live /\ n \in issued
    BY <1>1, <1>2, <2>1 DEF Attached
  <2>3. /\ Safe(Files, n, cut, Off(n))
        /\ \/ Unlist(n) = << >> /\ Off(n) = Files
           \/ \E c : Unlist(n) = <<c>> /\ Off(n) = Put(Files, c) /\ c.do # "rmtree"
    BY <2>1, <2>2, UnlistFirst
  <2>4. Off(n) = OffIn(Files, n)
    BY DEF Off, OffIn, Files, Live
  <2>5. FilesOK(Off(n)) /\ FilesOK(Files) /\ Shape(Files)
    BY <2>2, <2>3 DEF Safe, Sane, Shape, Files
  <2>6. CASE Unlist(n) = << >> /\ Off(n) = Files
    <3>1. plan' = <<Rmtree(<<n>>)>>
      <4>1. <<Rmtree(<<n>>)>> \in Seq({Rmtree(<<n>>)})
        OBVIOUS
      <4>2. QED
        BY <2>1, <2>6, <4>1, NoMore
    <3>2. Thinned(Files, n, Files) /\ Walked(Files, n, Files, <<n>>)
      <4>1. n \in DOMAIN Files.node
        BY <2>2 DEF Files, Live
      <4>2. QED
        BY <2>2, <2>4, <2>5, <2>6, <4>1, ClearStart
    <3>3. Clearing(before.files, before.about)'
      BY <2>1, <3>1, <3>2 DEF Clearing
    <3>4. UnderWay(before.files, before.about)'
      BY <2>1, <2>2, <2>5, <3>3 DEF UnderWay, Files, Live
    <3>5. QED
      BY <2>1, <2>5, <3>1, <3>4 DEF DiskInv
  <2>7. CASE \E c : Unlist(n) = <<c>> /\ Off(n) = Put(Files, c) /\ c.do # "rmtree"
    <3>1. PICK c : Unlist(n) = <<c>> /\ Off(n) = Put(Files, c) /\ c.do # "rmtree"
      BY <2>7
    <3>2. plan' = <<c, Rmtree(<<n>>)>>
      BY <2>1, <3>1, OneAndOne
    <3>3. Unlisting(before.files, before.about)'
      BY <2>1, <2>4, <2>5, <3>1, <3>2 DEF Unlisting
    <3>4. UnderWay(before.files, before.about)'
      BY <2>1, <2>2, <2>5, <3>3 DEF UnderWay, Files, Live
    <3>5. QED
      BY <2>1, <2>5, <3>2, <3>4 DEF DiskInv
  <2>8. QED
    BY <2>3, <2>6, <2>7
<1>10. QED
  BY <1>4, <1>5, <1>6, <1>7, <1>8, <1>9 DEF Request

(* A request goes on: a call of its plan, a step of rmtree, or a crash. What *)
(* is shown moves by a step of LocalFilesystem when its last call is made.   *)
ShownMoves ==
    crashes' = 0 => \/ Shown' = Shown
                    \/ Whole(Shown) /\ FilesOK(Shown) /\ Shape(Shown) /\ OneStep(Shown, Shown')

(* The invariant after a step that leaves the request under way, and after   *)
(* its last one.                                                             *)
LEMMA GoesOn ==
    ASSUME DiskInv, plan # << >>, UNCHANGED <<before, cut, crashes>>, plan' # << >>,
           Files'.issued = Files.issued, FilesOK(Files'), NEW F, NEW a,
           F = before.files, a = before.about,
           \/ Writing(before.files, before.about)'
           \/ a \in DOMAIN F.node /\ Clearing(before.files, before.about)'
    PROVE  DiskInv' /\ ShownMoves
<1>1. issued' = issued /\ cut' = cut /\ crashes' = crashes /\ before' = before
  BY DEF Files
<1>2. UnderWay(F, a) /\ cut \subseteq issued /\ crashes \in 0 .. MaxCrashes
  BY DEF DiskInv, Quiet
<1>3. UnderWay(before.files, before.about)'
  BY <1>1, <1>2 DEF UnderWay
<1>4. DiskInv'
  BY <1>1, <1>2, <1>3 DEF DiskInv, Quiet
<1>5. Shown' = Shown
  BY <1>1 DEF Shown, Quiet
<1>6. QED
  BY <1>4, <1>5 DEF ShownMoves

LEMMA IsDone ==
    ASSUME DiskInv, plan # << >>, UNCHANGED <<before, cut, crashes>>, plan' = << >>,
           Files'.issued = Files.issued,
           Goal(before.files, cut, crashes, Files')
    PROVE  DiskInv' /\ ShownMoves
<1> DEFINE F == before.files
<1>1. issued' = issued /\ cut' = cut /\ crashes' = crashes
  BY DEF Files
<1>2. /\ Sane(F, cut) /\ Shape(F) /\ (crashes = 0 => Whole(F))
      /\ cut \subseteq issued /\ crashes \in 0 .. MaxCrashes
  BY DEF DiskInv, Quiet, UnderWay
<1>3. Sane(Files', cut) /\ FilesOK(Files') /\ (crashes = 0 => Whole(Files') /\ OneStep(F, Files'))
  BY DEF Goal, Sane
<1>4. DiskInv'
  BY <1>1, <1>2, <1>3 DEF DiskInv, Quiet
<1>5. Shown = F /\ Shown' = Files'
  BY DEF Shown, Quiet
<1>6. ShownMoves
  BY <1>1, <1>2, <1>3, <1>5 DEF ShownMoves, Sane
<1>7. QED
  BY <1>4, <1>6

LEMMA NextCall ==
    ASSUME DiskInv, MoveDir \/ WriteJson \/ WriteText
    PROVE  DiskInv' /\ ShownMoves
<1> DEFINE F == before.files
           a == before.about
<1>1. /\ plan # << >> /\ Head(plan).do # "rmtree"
      /\ Files' = Put(Files, Head(plan)) /\ plan' = Tail(plan)
      /\ UNCHANGED <<before, cut, crashes>>
  BY CallPuts
<1>2. Files'.issued = Files.issued
  BY <1>1 DEF Put
<1>3. UnderWay(F, a)
  BY <1>1 DEF DiskInv, Quiet
<1>4. CASE Writing(F, a)
  <2>1. PICK H : Way(Files, plan, H, a, cut) /\ Goal(F, cut, crashes, H)
    BY <1>4 DEF Writing
  <2>2. /\ Plain(Tail(plan))
        /\ \/ Tail(plan) = << >> /\ H = Put(Files, Head(plan))
           \/ /\ Tail(plan) # << >> /\ Fine(Put(Files, Head(plan)), a, cut)
              /\ Way(Put(Files, Head(plan)), Tail(plan), H, a, cut)
    BY <1>4, <2>1, WayOn DEF Writing
  <2>3. CASE Tail(plan) = << >> /\ H = Put(Files, Head(plan))
    BY <1>1, <1>2, <2>1, <2>3, IsDone
  <2>4. CASE /\ Tail(plan) # << >> /\ Fine(Put(Files, Head(plan)), a, cut)
             /\ Way(Put(Files, Head(plan)), Tail(plan), H, a, cut)
    <3>1. Writing(before.files, before.about)'
      BY <1>1, <2>1, <2>2, <2>4 DEF Writing
    <3>2. FilesOK(Files')
      BY <1>1, <2>4 DEF Fine, Sane
    <3>3. QED
      BY <1>1, <1>2, <2>4, <3>1, <3>2, GoesOn
  <2>5. QED
    BY <2>2, <2>3, <2>4
<1>5. CASE a \in DOMAIN F.node /\ Unlisting(F, a)
  <2>1. PICK u : plan = <<u, Rmtree(<<a>>)>> /\ Put(F, u) = OffIn(F, a)
    BY <1>5 DEF Unlisting
  <2>2. Files' = OffIn(F, a) /\ plan' = <<Rmtree(<<a>>)>> /\ FilesOK(OffIn(F, a))
    BY <1>1, <1>5, <2>1 DEF Unlisting
  <2>3. Thinned(F, a, Files') /\ Walked(F, a, Files', <<a>>)
    BY <1>3, <1>5, <2>2, ClearStart DEF UnderWay
  <2>4. Clearing(before.files, before.about)'
    BY <1>1, <2>2, <2>3 DEF Clearing
  <2>5. plan' # << >>
    BY <2>2
  <2>6. QED
    BY <1>1, <1>2, <1>5, <2>2, <2>4, <2>5, GoesOn
<1>6. CASE Clearing(F, a)
  <2>1. PICK stack : plan = <<Rmtree(stack)>>
    BY <1>6 DEF Clearing
  <2>2. Head(plan).do = "rmtree"
    BY <2>1 DEF Rmtree
  <2>3. QED
    BY <1>1, <2>2
<1>7. QED
  BY <1>3, <1>4, <1>5, <1>6 DEF UnderWay

(* The walk of rmtree.                                                       *)
LEMMA Clears ==
    ASSUME DiskInv, IsNext("rmtree")
    PROVE  \E stack :
               /\ plan = <<Rmtree(stack)>> /\ Stack = stack /\ Tail(plan) = << >>
               /\ Thinned(before.files, before.about, Files)
               /\ Walked(before.files, before.about, Files, stack)
               /\ Sane(before.files, cut) /\ before.about \in DOMAIN before.files.node
               /\ before.about \in Id
               /\ Len(stack) \in Nat \ {0}
               /\ Last(stack) = stack[Len(stack)] /\ Last(stack) \in Dirs
               /\ Last(stack) \in BelowIn(before.files, before.about)
<1> DEFINE F == before.files
           a == before.about
<1>1. plan # << >> /\ Head(plan).do = "rmtree" /\ UnderWay(F, a)
  BY DEF IsNext, DiskInv, Quiet
<1>2. ~Writing(F, a)
  <2>1. SUFFICES ASSUME Writing(F, a) PROVE FALSE
    OBVIOUS
  <2>2. PICK H : Way(Files, plan, H, a, cut)
    BY <2>1 DEF Writing
  <2>3. QED
    BY <1>1, <2>1, <2>2, WayOn DEF Writing
<1>3. ~Unlisting(F, a)
  BY <1>1 DEF Unlisting
<1>4. a \in DOMAIN F.node /\ Clearing(F, a) /\ Sane(F, cut) /\ a \in Id
  BY <1>1, <1>2, <1>3 DEF UnderWay
<1>5. PICK stack : plan = <<Rmtree(stack)>> /\ Walked(F, a, Files, stack)
  BY <1>4 DEF Clearing
<1>6. Stack = stack /\ Tail(plan) = << >>
  BY <1>5 DEF Stack, Rmtree
<1>7. stack \in Seq(DOMAIN Files.place) /\ stack # << >>
  BY <1>5 DEF Walked
<1>8. Len(stack) \in Nat \ {0} /\ Len(stack) \in 1 .. Len(stack)
  BY <1>7
<1>9. Last(stack) = stack[Len(stack)] /\ stack[Len(stack)] \in DOMAIN Files.place
  BY <1>7, <1>8 DEF Last
<1>10. stack[Len(stack)] \in BelowIn(F, a)
  BY <1>5, <1>8 DEF Walked
<1>11. Last(stack) \in Dirs
  BY <1>9 DEF Files, Dirs
<1>12. QED
  BY <1>4, <1>5, <1>6, <1>8, <1>9, <1>10, <1>11 DEF Clearing

LEMMA LessParts ==
    ASSUME NEW f, NEW x
    PROVE  /\ DOMAIN Less(f, x) = DOMAIN f \ {x}
           /\ \A y \in DOMAIN f \ {x} : Less(f, x)[y] = f[y]
           /\ Less(f, x) = [y \in DOMAIN Less(f, x) |-> Less(f, x)[y]]
BY DEF Less

LEMMA UnlinkStep ==
    ASSUME DiskInv, UnlinkFile
    PROVE  DiskInv' /\ ShownMoves
<1> DEFINE F == before.files
           a == before.about
           x == Last(Stack)
           G == Files
           H == Files'
<1>1. /\ IsNext("rmtree") /\ plan # << >> /\ plan' = plan /\ place' = place /\ issued' = issued
      /\ UNCHANGED <<before, cut, crashes>>
      /\ \/ node' = Less(node, x) /\ kids' = Less(kids, x) /\ canvas' = canvas
         \/ canvas' = Less(canvas, x) /\ node' = node /\ kids' = kids
  BY DEF UnlinkFile, Made, IsNext
<1>2. PICK stack :
        /\ plan = <<Rmtree(stack)>> /\ x = Last(stack) /\ Thinned(F, a, G) /\ Walked(F, a, G, stack)
        /\ a \in DOMAIN F.node /\ x \in BelowIn(F, a)
  BY <1>1, Clears
<1>3. /\ G = [place |-> place, node |-> node, kids |-> kids, canvas |-> canvas, issued |-> issued]
      /\ H = [place |-> place, node |-> node', kids |-> kids', canvas |-> canvas', issued |-> issued]
  BY <1>1 DEF Files
<1> HIDE DEF F, a, x, G, H
<1>4. FilesOK(G)
  BY <1>2 DEF Thinned
<1>5. FilesOK(H)
  <2>1. CASE node' = Less(node, x) /\ kids' = Less(kids, x) /\ canvas' = canvas
    <3>1. DOMAIN node = DOMAIN kids
      BY <1>3, <1>4 DEF FilesOK
    <3>2. /\ DOMAIN node' = DOMAIN node \ {x} /\ DOMAIN kids' = DOMAIN node \ {x}
          /\ \A y \in DOMAIN node \ {x} : node'[y] = node[y] /\ kids'[y] = kids[y]
          /\ node' = [y \in DOMAIN node' |-> node'[y]] /\ kids' = [y \in DOMAIN kids' |-> kids'[y]]
      <4>1. /\ DOMAIN Less(node, x) = DOMAIN node \ {x} /\ DOMAIN Less(kids, x) = DOMAIN kids \ {x}
            /\ \A y \in DOMAIN node \ {x} : Less(node, x)[y] = node[y]
            /\ \A y \in DOMAIN kids \ {x} : Less(kids, x)[y] = kids[y]
            /\ Less(node, x) = [y \in DOMAIN Less(node, x) |-> Less(node, x)[y]]
            /\ Less(kids, x) = [y \in DOMAIN Less(kids, x) |-> Less(kids, x)[y]]
        BY LessParts
      <4>2. node' = [y \in DOMAIN node' |-> node'[y]] /\ kids' = [y \in DOMAIN kids' |-> kids'[y]]
        BY <2>1, <4>1, Zenon
      <4>3. QED
        BY <2>1, <3>1, <4>1, <4>2
    <3>3. \A y \in DOMAIN node' : /\ node'[y] \in Record /\ node'[y].parent # y
                                  /\ kids'[y] \in Seq(Id) /\ Once(kids'[y])
      BY <1>3, <1>4, <3>2 DEF FilesOK
    <3>4. node' \in [DOMAIN node' -> Record] /\ kids' \in [DOMAIN node' -> Seq(Id)]
      BY <3>2, <3>3
    <3>5. QED
      BY <1>3, <1>4, <2>1, <3>2, <3>3, <3>4 DEF FilesOK
  <2>2. CASE canvas' = Less(canvas, x) /\ node' = node /\ kids' = kids
    <3>1. /\ DOMAIN canvas' = DOMAIN canvas \ {x}
          /\ \A y \in DOMAIN canvas \ {x} : canvas'[y] = canvas[y]
          /\ canvas' = [y \in DOMAIN canvas' |-> canvas'[y]]
      <4>1. /\ DOMAIN Less(canvas, x) = DOMAIN canvas \ {x}
            /\ \A y \in DOMAIN canvas \ {x} : Less(canvas, x)[y] = canvas[y]
            /\ Less(canvas, x) = [y \in DOMAIN Less(canvas, x) |-> Less(canvas, x)[y]]
        BY LessParts
      <4>2. QED
        BY <2>2, <4>1, Zenon
    <3>2. canvas' \in [DOMAIN canvas' -> Canvas]
      <4>1. canvas \in [DOMAIN canvas -> Canvas]
        BY <1>3, <1>4 DEF FilesOK
      <4>2. QED
        BY <3>1, <4>1
    <3>3. QED
      BY <1>3, <1>4, <2>2, <3>1, <3>2 DEF FilesOK
  <2>3. QED
    BY <1>1, <2>1, <2>2
<1>6. Thinned(F, a, H)
  <2> DEFINE U == OffIn(F, a)
             B == BelowIn(F, a)
  <2>1. /\ Part(U.place, place, B) /\ Part(U.node, node, B)
        /\ Part(U.kids, kids, B) /\ Part(U.canvas, canvas, B) /\ issued = U.issued
    BY <1>2, <1>3 DEF Thinned
  <2> HIDE DEF U, B
  <2>2. Part(U.node, node', B) /\ Part(U.kids, kids', B) /\ Part(U.canvas, canvas', B)
    BY <1>1, <1>2, <2>1, OneLess DEF B
  <2>3. Shape(H)
    BY <1>3 DEF Shape
  <2>4. QED
    BY <1>3, <1>5, <2>1, <2>2, <2>3 DEF Thinned, U, B
<1>7. Walked(F, a, H, stack)
  BY <1>2, <1>3 DEF Walked
<1>8. Clearing(before.files, before.about)'
  BY <1>1, <1>2, <1>6, <1>7 DEF Clearing, F, a, H
<1>9. H.issued = G.issued /\ plan' # << >>
  BY <1>1, <1>3
<1>10. QED
  BY <1>1, <1>2, <1>5, <1>8, <1>9, GoesOn DEF F, a, G, H

LEMMA EnterStep ==
    ASSUME DiskInv, EnterDir
    PROVE  DiskInv' /\ ShownMoves
<1> DEFINE F == before.files
           a == before.about
           x == Last(Stack)
<1>1. /\ IsNext("rmtree") /\ plan # << >> /\ UNCHANGED <<files, issued, before, cut, crashes>>
      /\ \E d \in Inside[x] : plan' = <<Rmtree(Append(Stack, d))>> \o Tail(plan)
  BY DEF EnterDir, Made, IsNext
<1>2. PICK stack :
        /\ plan = <<Rmtree(stack)>> /\ Stack = stack /\ Tail(plan) = << >>
        /\ Thinned(F, a, Files) /\ Walked(F, a, Files, stack)
        /\ a \in DOMAIN F.node /\ x \in BelowIn(F, a)
        /\ Len(stack) \in Nat \ {0} /\ x = stack[Len(stack)] /\ x \in Dirs
  BY <1>1, Clears
<1>3. PICK d \in Inside[x] : plan' = <<Rmtree(Append(stack, d))>> \o << >>
  BY <1>1, <1>2
<1> HIDE DEF F, a, x
<1>4. plan' = <<Rmtree(Append(stack, d))>>
  <2>1. <<Rmtree(Append(stack, d))>> \in Seq({Rmtree(Append(stack, d))})
    OBVIOUS
  <2>2. QED
    BY <1>3, <2>1, NoMore
<1>5. d \in Dirs /\ place[d].home = x
  BY <1>2, <1>3 DEF Inside
<1>6. Files' = Files /\ Files.place = place /\ DOMAIN Files.place = Dirs
  BY <1>1 DEF Files, files, Dirs
<1>7. d \in BelowIn(F, a)
  <2>1. d \in DOMAIN F.place /\ F.place[d].home = x
    BY <1>2, <1>5, <1>6, ThinnedFields
  <2>2. x \in DOMAIN F.place
    BY <1>2, ReachWithin DEF BelowIn, InsideOf
  <2>3. d \in InsideOf(F)[x] /\ d \in DOMAIN InsideOf(F)
    BY <2>1, <2>2 DEF InsideOf
  <2>4. QED
    BY <1>2, <2>3, ReachClosed DEF BelowIn
<1>8. Walked(F, a, Files, Append(stack, d))
  <2> DEFINE t == Append(stack, d)
  <2>1. /\ stack \in Seq(Dirs) /\ stack[1] = a
        /\ \A i \in 1 .. Len(stack) : stack[i] \in BelowIn(F, a)
        /\ \A i \in 1 .. Len(stack) - 1 : place[stack[i + 1]].home = stack[i]
    BY <1>2, <1>6 DEF Walked
  <2>2. /\ t \in Seq(Dirs) /\ t # << >> /\ Len(t) = Len(stack) + 1
        /\ t[Len(stack) + 1] = d /\ \A i \in 1 .. Len(stack) : t[i] = stack[i]
    BY <1>2, <1>5, <2>1
  <2> HIDE DEF t
  <2>3. t[1] = a
    BY <1>2, <2>1, <2>2
  <2>4. \A i \in 1 .. Len(t) : t[i] \in BelowIn(F, a)
    BY <1>2, <1>7, <2>1, <2>2
  <2>5. ASSUME NEW i \in 1 .. Len(t) - 1 PROVE place[t[i + 1]].home = t[i]
    <3>1. CASE i = Len(stack)
      BY <1>2, <1>5, <2>2, <3>1
    <3>2. CASE i # Len(stack)
      <4>1. i \in 1 .. Len(stack) - 1 /\ i \in 1 .. Len(stack) /\ i + 1 \in 1 .. Len(stack)
        BY <1>2, <2>2, <3>2
      <4>2. QED
        BY <2>1, <2>2, <4>1
    <3>3. QED
      BY <3>1, <3>2
  <2>6. QED
    BY <1>6, <2>2, <2>3, <2>4, <2>5 DEF Walked, t
<1>9. Clearing(before.files, before.about)'
  BY <1>1, <1>2, <1>4, <1>6, <1>8 DEF Clearing, F, a
<1>10. FilesOK(Files') /\ Files'.issued = Files.issued /\ plan' # << >>
  BY <1>4, <1>6 DEF DiskInv
<1>11. QED
  BY <1>1, <1>2, <1>9, <1>10, GoesOn DEF F, a

LEMMA RemoveStep ==
    ASSUME DiskInv, RemoveDir
    PROVE  DiskInv' /\ ShownMoves
<1> DEFINE F == before.files
           a == before.about
           x == Last(Stack)
           G == Files
           H == Files'
           B == BelowIn(F, a)
<1>1. /\ IsNext("rmtree") /\ plan # << >>
      /\ x \notin Live \cup DOMAIN canvas /\ Inside[x] = {}
      /\ place' = Less(place, x)
      /\ plan' = IF Len(Stack) = 1 THEN Tail(plan) ELSE <<Rmtree(Front(Stack))>> \o Tail(plan)
      /\ node' = node /\ kids' = kids /\ canvas' = canvas /\ issued' = issued
      /\ UNCHANGED <<before, cut, crashes>>
  BY DEF RemoveDir, Made, IsNext
<1>2. PICK stack :
        /\ plan = <<Rmtree(stack)>> /\ Stack = stack /\ Tail(plan) = << >>
        /\ Thinned(F, a, G) /\ Walked(F, a, G, stack)
        /\ Sane(F, cut) /\ a \in DOMAIN F.node /\ a \in Id /\ x \in B
        /\ Len(stack) \in Nat \ {0} /\ x = stack[Len(stack)] /\ x \in Dirs
  BY <1>1, Clears
<1>3. /\ G = [place |-> place, node |-> node, kids |-> kids, canvas |-> canvas, issued |-> issued]
      /\ H = [place |-> place', node |-> node, kids |-> kids, canvas |-> canvas, issued |-> issued]
  BY <1>1 DEF Files
<1> HIDE DEF F, a, x, G, H, B
<1>4. FilesOK(G)
  BY <1>2 DEF Thinned
<1>5. /\ DOMAIN place' = Dirs \ {x}
      /\ \A d \in Dirs \ {x} : place'[d] = place[d]
      /\ place' = [d \in DOMAIN place' |-> place'[d]]
  <2>1. /\ DOMAIN Less(place, x) = DOMAIN place \ {x}
        /\ \A d \in DOMAIN place \ {x} : Less(place, x)[d] = place[d]
        /\ Less(place, x) = [d \in DOMAIN Less(place, x) |-> Less(place, x)[d]]
    BY LessParts
  <2>2. QED
    BY <1>1, <2>1, Zenon DEF Dirs
<1>6. \A d \in Dirs : place[d].home # x
  BY <1>1, <1>2 DEF Inside
<1>7. FilesOK(H)
  <2>1. \A d \in Dirs : place[d] = [home |-> place[d].home, slug |-> place[d].slug]
    BY <1>3, <1>4 DEF FilesOK, Dirs
  <2>2. \A d \in DOMAIN place' : place'[d] = [home |-> place'[d].home, slug |-> place'[d].slug]
    BY <1>5, <2>1
  <2>3. place' = [d \in DOMAIN place' |-> [home |-> place'[d].home, slug |-> place'[d].slug]]
    BY <1>5, <2>2, Zenon
  <2>4. \A d \in DOMAIN place' : place'[d].home \in DOMAIN place' \cup {Root}
    BY <1>3, <1>4, <1>5, <1>6 DEF FilesOK, Dirs
  <2>5. DOMAIN node \cup DOMAIN canvas \subseteq DOMAIN place'
    BY <1>1, <1>3, <1>4, <1>5 DEF FilesOK, Dirs, Live
  <2>6. DOMAIN place' \subseteq issued
    BY <1>3, <1>4, <1>5 DEF FilesOK, Dirs
  <2>7. QED
    BY <1>3, <1>4, <2>3, <2>4, <2>5, <2>6 DEF FilesOK
<1>8. Thinned(F, a, H)
  <2> DEFINE U == OffIn(F, a)
  <2>1. /\ Part(U.place, place, B) /\ Part(U.node, node, B)
        /\ Part(U.kids, kids, B) /\ Part(U.canvas, canvas, B) /\ issued = U.issued
    BY <1>2, <1>3 DEF Thinned, B
  <2> HIDE DEF U
  <2>2. Part(U.place, place', B)
    BY <1>1, <1>2, <2>1, OneLess
  <2>3. Shape(H)
    BY <1>3 DEF Shape
  <2>4. QED
    BY <1>3, <1>7, <2>1, <2>2, <2>3 DEF Thinned, U, B
<1>9. /\ stack \in Seq(Dirs) /\ stack[1] = a
      /\ \A i \in 1 .. Len(stack) : stack[i] \in B
      /\ \A i \in 1 .. Len(stack) - 1 : place[stack[i + 1]].home = stack[i]
  BY <1>2, <1>3 DEF Walked, Dirs, B
<1>10. H.issued = G.issued
  BY <1>3
<1>11. CASE Len(stack) = 1
  <2>1. x = a /\ plan' = << >>
    BY <1>1, <1>2, <1>9, <1>11
  <2>2. a \in DOMAIN F.place /\ a \in DOMAIN G.place
    <3>1. a \in DOMAIN G.place
      BY <1>2, <1>3, <2>1 DEF Dirs
    <3>2. QED
      BY <1>2, <3>1, ThinnedFields
  <2>3. BelowIn(G, a) \subseteq {a}
    <3>1. a \in DOMAIN InsideOf(G) /\ InsideOf(G)[a] = {}
      BY <1>3, <1>6, <2>1, <2>2 DEF InsideOf, Dirs
    <3>2. {a} \in SUBSET DOMAIN InsideOf(G) /\ \A y \in {a} : InsideOf(G)[y] \subseteq {a}
      BY <3>1
    <3>3. QED
      BY <3>2, ReachLeast DEF BelowIn
  <2>4. B \cap DOMAIN G.place \subseteq {a}
    BY <1>2, <2>2, <2>3, LeftBelow DEF B
  <2>5. DOMAIN H.place = DOMAIN G.place \ {a}
    BY <1>3, <1>5, <2>1 DEF Dirs
  <2>6. B \cap DOMAIN H.place = {}
    BY <2>4, <2>5
  <2>7. Sane(H, cut) /\ (Whole(F) => Whole(H) /\ OneStep(F, H))
    BY <1>2, <1>8, <2>6, ThinnedIsDone DEF B
  <2>8. crashes = 0 => Whole(F)
    BY <1>1 DEF DiskInv, Quiet, UnderWay, F
  <2>9. Goal(F, cut, crashes, H)
    BY <2>7, <2>8 DEF Goal
  <2>10. QED
    BY <1>1, <1>10, <2>1, <2>9, IsDone DEF F, G, H
<1>12. CASE Len(stack) # 1
  <2> DEFINE t == Front(stack)
             N == Len(stack) - 1
  <2>1. plan' = <<Rmtree(t)>>
    <3>1. <<Rmtree(t)>> \in Seq({Rmtree(t)})
      OBVIOUS
    <3>2. plan' = <<Rmtree(t)>> \o << >>
      BY <1>1, <1>2, <1>12
    <3>3. QED
      BY <3>1, <3>2, NoMore
  <2>2. N \in Nat \ {0} /\ N + 1 = Len(stack)
    BY <1>2, <1>12
  <2>3. \A i \in 1 .. N : stack[i] \in Dirs \ {x}
    <3>1. SUFFICES ASSUME NEW i \in 1 .. N PROVE stack[i] \in Dirs \ {x}
      OBVIOUS
    <3>2. i \in 1 .. Len(stack) /\ i + 1 \in 1 .. Len(stack)
      BY <2>2
    <3>3. stack[i] \in Dirs /\ stack[i + 1] \in Dirs /\ place[stack[i + 1]].home = stack[i]
      BY <1>9, <3>2
    <3>4. QED
      BY <1>6, <3>3
  <2>4. t \in Seq(DOMAIN H.place) /\ Len(t) = N /\ \A i \in 1 .. N : t[i] = stack[i]
    <3>1. t = [i \in 1 .. N |-> stack[i]]
      <4>1. t = SubSeq(stack, 1, N)
        BY DEF Front
      <4>2. QED
        BY <1>9, <2>2, <4>1
    <3>2. \A i \in 1 .. N : stack[i] \in DOMAIN H.place
      BY <1>3, <1>5, <2>3
    <3>3. t \in Seq(DOMAIN H.place) /\ Len(t) = N
      <4> HIDE DEF N
      <4>1. [i \in 1 .. N |-> stack[i]] \in Seq(DOMAIN H.place)
            /\ Len([i \in 1 .. N |-> stack[i]]) = N
        BY <2>2, <3>2, FirstOf
      <4>2. QED
        BY <3>1, <4>1
    <3>4. QED
      BY <3>1, <3>3
  <2> HIDE DEF t, N
  <2>5. Walked(F, a, H, t)
    <3>1. t # << >> /\ t[1] = a
      BY <1>9, <2>2, <2>4
    <3>2. \A i \in 1 .. N : t[i] \in B
      BY <1>9, <2>2, <2>4
    <3>3. ASSUME NEW i \in 1 .. N - 1 PROVE place'[t[i + 1]].home = t[i]
      <4>1. i \in 1 .. N /\ i + 1 \in 1 .. N /\ i \in 1 .. Len(stack) - 1
        BY <2>2
      <4>2. place[stack[i + 1]].home = stack[i] /\ stack[i + 1] \in Dirs \ {x}
        BY <1>9, <2>3, <4>1
      <4>3. QED
        BY <1>5, <2>4, <4>1, <4>2
    <3>4. QED
      BY <1>3, <2>4, <3>1, <3>2, <3>3 DEF Walked, B
  <2>6. Clearing(before.files, before.about)'
    BY <1>1, <1>8, <2>1, <2>5 DEF Clearing, F, a, H
  <2>7. plan' # << >>
    BY <2>1
  <2>8. QED
    BY <1>1, <1>2, <1>7, <1>10, <2>6, <2>7, GoesOn DEF F, a, G, H
<1>13. QED
  BY <1>11, <1>12

LEMMA CrashStep ==
    ASSUME DiskInv, Crash
    PROVE  DiskInv' /\ crashes' # 0
<1> DEFINE F == before.files
           a == before.about
<1>1. /\ plan # << >> /\ crashes < MaxCrashes /\ plan' = << >>
      /\ cut' = cut \cup {a} \cup UNION {Below(d) : d \in {a} \cap Dirs}
      /\ crashes' = crashes + 1 /\ UNCHANGED <<files, issued, before>>
  BY DEF Crash
<1>2. UnderWay(F, a) /\ FilesOK(Files) /\ cut \subseteq issued /\ crashes \in 0 .. MaxCrashes
  BY <1>1 DEF DiskInv, Quiet
<1>3. Files' = Files
  BY <1>1 DEF Files, files
<1>4. cut' = cut \cup Hurt(Files, a)
  <2>1. \A d : Below(d) = BelowIn(Files, d)
    BY DEF Below, BelowIn, Inside, InsideOf, Files, Dirs
  <2>2. QED
    BY <1>1, <2>1 DEF Hurt, Files, Dirs
<1>5. Fine(Files, a, cut)
  <2>1. CASE Writing(F, a)
    BY <2>1 DEF Writing
  <2>2. CASE a \in DOMAIN F.node /\ Unlisting(F, a)
    <3>1. Sane(F, cut) /\ a \in Id /\ Files = F
      BY <1>2, <2>2 DEF UnderWay, Unlisting
    <3>2. QED
      BY <3>1, SafeStart, SafeIsFine DEF Fine
  <2>3. CASE a \in DOMAIN F.node /\ Clearing(F, a)
    <3>1. PICK stack : Walked(F, a, Files, stack)
      BY <2>3 DEF Clearing
    <3>2. a \in DOMAIN Files.place
      BY <3>1 DEF Walked
    <3>3. Thinned(F, a, Files) /\ Sane(F, cut)
      BY <1>2, <2>3 DEF UnderWay, Clearing
    <3>4. a \in DOMAIN F.place
      BY <3>2, <3>3, ThinnedFields
    <3>5. QED
      BY <3>2, <3>3, <3>4, ThinnedIsFine
  <2>4. QED
    BY <1>2, <2>1, <2>2, <2>3 DEF UnderWay
<1>6. Sane(Files', cut')
  BY <1>3, <1>4, <1>5 DEF Fine
<1>7. cut' \subseteq issued' /\ crashes' \in 0 .. MaxCrashes /\ crashes' # 0
  <2>1. Hurt(Files, a) \subseteq issued
    <3>1. \A d : BelowIn(Files, d) \subseteq Dirs
      BY ReachWithin DEF BelowIn, InsideOf, Files, Dirs
    <3>2. Dirs \subseteq issued /\ a \in issued
      BY <1>2 DEF FilesOK, Files, Dirs, UnderWay
    <3>3. QED
      BY <3>1, <3>2 DEF Hurt
  <2>2. QED
    BY <1>1, <1>2, <1>4, <2>1, CrashAssumption
<1>8. QED
  BY <1>1, <1>2, <1>3, <1>6, <1>7 DEF DiskInv, Quiet

-----------------------------------------------------------------------------
LEMMA NextDisk ==
    ASSUME DiskInv, [Next]_vars
    PROVE  DiskInv' /\ ShownMoves
<1>1. CASE Request
  <2>1. DiskInv' /\ ~Quiet'
    BY <1>1, RequestBegins
  <2>2. Quiet /\ before.files' = Files
    <3>1. ASSUME NEW n, NEW calls, Begin(n, calls) PROVE Quiet /\ before.files' = Files
      BY <3>1 DEF Begin, Quiet
    <3>2. ASSUME NEW n, NEW p, NEW t, Create(n, p, t) PROVE Quiet /\ before.files' = Files
      BY <3>1, <3>2 DEF Create
    <3>3. ASSUME NEW n, NEW t, Rename(n, t) PROVE Quiet /\ before.files' = Files
      BY <3>1, <3>3 DEF Rename
    <3>4. ASSUME NEW n, NEW m, SetMeta(n, m) PROVE Quiet /\ before.files' = Files
      BY <3>1, <3>4 DEF SetMeta
    <3>5. ASSUME NEW n, NEW p, NEW i, Move(n, p, i) PROVE Quiet /\ before.files' = Files
      BY <3>1, <3>5 DEF Move
    <3>6. ASSUME NEW n, Delete(n) PROVE Quiet /\ before.files' = Files
      BY <3>1, <3>6 DEF Delete
    <3>7. ASSUME NEW n, NEW c, WriteCanvas(n, c) PROVE Quiet /\ before.files' = Files
      BY <3>1, <3>7 DEF WriteCanvas
    <3>8. QED
      BY <1>1, <3>2, <3>3, <3>4, <3>5, <3>6, <3>7 DEF Request
  <2>3. Shown' = Shown
    BY <2>1, <2>2 DEF Shown
  <2>4. QED
    BY <2>1, <2>3 DEF ShownMoves
<1>2. CASE MoveDir \/ WriteJson \/ WriteText
  BY <1>2, NextCall
<1>3. CASE UnlinkFile
  BY <1>3, UnlinkStep
<1>4. CASE EnterDir
  BY <1>4, EnterStep
<1>5. CASE RemoveDir
  BY <1>5, RemoveStep
<1>6. CASE Crash
  BY <1>6, CrashStep DEF ShownMoves
<1>7. CASE UNCHANGED vars
  <2>1. /\ Files' = Files /\ plan' = plan /\ before' = before /\ cut' = cut /\ crashes' = crashes
        /\ issued' = issued
    BY <1>7 DEF vars, Files
  <2>2. DiskInv'
    <3>1. Quiet => Quiet' /\ Sane(Files', cut') /\ (crashes' = 0 => Whole(Files'))
      BY <2>1 DEF DiskInv, Quiet
    <3>2. ASSUME ~Quiet PROVE UnderWay(before.files, before.about)'
      <4>1. UnderWay(before.files, before.about)
        BY <3>2 DEF DiskInv
      <4>2. QED
        BY <2>1, <4>1 DEF UnderWay, Writing, Unlisting, Clearing
    <3>3. QED
      BY <2>1, <3>1, <3>2 DEF DiskInv, Quiet
  <2>3. Shown' = Shown
    BY <2>1 DEF Shown, Quiet
  <2>4. QED
    BY <2>2, <2>3 DEF ShownMoves
<1>8. QED
  BY <1>1, <1>2, <1>3, <1>4, <1>5, <1>6, <1>7 DEF Next

LEMMA DiskInvHolds == Spec => []DiskInv
<1>1. DiskInv /\ [Next]_vars => DiskInv'
  BY NextDisk
<1>2. QED
  BY InitDisk, <1>1, PTL DEF Spec

-----------------------------------------------------------------------------
(* The calls of a plan are well formed, and a name is the slug of a title or *)
(* one with a number behind it.                                              *)
CallsOK == plan \in Seq(Call) /\ \A d \in Dirs : place[d].slug \in Slugs

LEMMA NameChosen ==
    ASSUME FilesOK(Files), NEW p \in Id \cup {Root}, NEW own, NEW t \in Title
    PROVE  Free(p, own, t) \in [home: Id \cup {Root}, slug: Slugs]
<1> DEFINE S == {d \in Dirs \ own : place[d].home = p}
           taken == {place[d].slug : d \in S}
           f == [d \in S |-> place[d].slug]
           N == Cardinality(Id)
           base == SlugOf[t]
<1>1. S \subseteq Id
  BY DEF FilesOK, Files, Dirs
<1>2. IsFiniteSet(S) /\ Cardinality(S) <= N
  BY <1>1, IdAssumption, FS_Subset
<1>3. f \in Surjection(S, taken)
  BY DEF Surjection
<1>4. IsFiniteSet(taken) /\ Cardinality(taken) <= Cardinality(S)
  BY <1>2, <1>3, FS_Surjection
<1>5. N \in Nat /\ Cardinality(taken) <= N
  <2>1. N \in Nat /\ Cardinality(taken) \in Nat /\ Cardinality(S) \in Nat
    BY <1>2, <1>4, IdAssumption, FS_CardinalityType
  <2> HIDE DEF S, taken, f, N
  <2>2. QED
    BY <1>2, <1>4, <2>1
<1>6. base \in Seq(Nat)
  BY TitleAssumption
<1>7. Free(p, own, t) = [home |-> p, slug |-> UniqueSlug(taken, base, Suffix)]
  BY DEF Free, Taken
<1> HIDE DEF S, taken, f, N, base
<1>8. UniqueSlug(taken, base, 2 .. N + 1) \in {base} \cup {Append(base, k) : k \in 2 .. N + 1}
  BY <1>4, <1>5, <1>6, UniqueSlugFree
<1>9. UniqueSlug(taken, base, Suffix) \in Slugs
  BY <1>8 DEF Slugs, Suffix, N, base
<1>10. QED
  BY <1>7, <1>9

(* The four kinds of calls, and the plans put together from them.            *)
LEMMA CallKinds ==
    /\ \A d \in Id, where \in [home: Id \cup {Root}, slug: Slugs] : PutDir(d, where) \in Call
    /\ \A n \in Id, r \in Record, l \in Seq(Id) : PutJson(n, r, l) \in Call
    /\ \A n \in Id, c \in Canvas : PutCanvas(n, c) \in Call
    /\ \A s \in Seq(Id) : Rmtree(s) \in Call
BY DEF Call, PutDir, PutJson, PutCanvas, Rmtree

LEMMA CallTuples ==
    /\ << >> \in Seq(Call)
    /\ \A u \in Call : <<u>> \in Seq(Call)
    /\ \A u, v \in Call : <<u, v>> \in Seq(Call)
    /\ \A u, v, w \in Call : <<u, v, w>> \in Seq(Call)
    /\ \A s, t \in Seq(Call) : s \o t \in Seq(Call)
OBVIOUS

LEMMA RelistCalls ==
    ASSUME Sane(Files, cut), NEW p \in Live \cup {Root}, NEW list, p # Root => list \in Seq(Id)
    PROVE  /\ Relist(p, list) \in Seq(Call)
           /\ (IF p = Root THEN << >> ELSE <<PutJson(p, node[p], list)>>) \in Seq(Call)
<1>1. CASE p = Root
  BY <1>1, CallTuples DEF Relist
<1>2. CASE p # Root
  <2>1. p \in Id /\ node[p] \in Record
    BY <1>2, StartFacts
  <2>2. <<PutJson(p, node[p], list)>> \in Seq(Call)
    BY <1>2, <2>1, CallKinds, CallTuples
  <2>3. QED
    BY <1>2, <2>2, CallTuples DEF Relist
<1>3. QED
  BY <1>1, <1>2

LEMMA UnlistCalls ==
    ASSUME Sane(Files, cut), NEW n \in Id, Attached(n)
    PROVE  Unlist(n) \in Seq(Call)
<1> DEFINE p == node[n].parent
<1>1. p \in Live \cup {Root}
  BY DEF Attached
<1>2. CASE p = Root
  BY <1>2, CallTuples DEF Unlist
<1>3. CASE p # Root
  <2>1. kids[p] \in Seq(Id) /\ Once(kids[p])
    BY <1>1, <1>3, StartFacts
  <2> DEFINE list == Without(kids[p], n)
  <2>2. list \in Seq(Id)
    BY <2>1, WithoutList
  <2>3. Unlist(n) = Relist(p, list)
    BY <1>3 DEF Unlist
  <2> HIDE DEF list, p
  <2>4. QED
    BY <1>1, <2>2, <2>3, RelistCalls
<1>4. QED
  BY <1>2, <1>3

LEMMA RequestCalls ==
    ASSUME DiskInv, CallsOK, Request
    PROVE  CallsOK'
<1>1. /\ Quiet /\ place' = place
      /\ Sane(Files, cut)
  <2>1. Quiet /\ place' = place
    BY DEF Request, Create, Rename, SetMeta, Move, Delete, WriteCanvas, Begin, Quiet, files
  <2>2. QED
    BY <2>1 DEF DiskInv
<1>2. FilesOK(Files) /\ DOMAIN kids = Live
      /\ \A n \in Live : /\ n \in Id /\ kids[n] \in Seq(Id) /\ Once(kids[n]) /\ node[n] \in Record
      /\ \A d \in Dirs : place[d].home \in Dirs \cup {Root} /\ Dirs \subseteq Id
  BY <1>1, StartFacts
<1>3. ASSUME NEW n \in Id, NEW p \in Id \cup {Root}, NEW t \in Title, Create(n, p, t)
      PROVE  plan' \in Seq(Call)
  <2> DEFINE a == PutDir(n, Free(p, {}, t))
             r == [title |-> t, parent |-> p, meta |-> NoMeta]
             b == PutJson(n, r, << >>)
             c == PutCanvas(n, Blank)
             rest == IF p = Root THEN << >> ELSE Relist(p, Appended(kids[p], n))
  <2>1. plan' = <<a, b, c>> \o rest /\ p \in Live \cup {Root}
    BY <1>3 DEF Create, Begin
  <2>2. r \in Record
    BY DataAssumption DEF Record
  <2>3. a \in Call /\ b \in Call /\ c \in Call
    <3>1. Free(p, {}, t) \in [home: Id \cup {Root}, slug: Slugs]
      BY <1>2, NameChosen
    <3>2. << >> \in Seq(Id) /\ Blank \in Canvas
      BY DataAssumption
    <3> HIDE DEF r
    <3>3. QED
      BY <2>2, <3>1, <3>2, CallKinds
  <2>4. rest \in Seq(Call)
    <3>1. p # Root => Appended(kids[p], n) \in Seq(Id)
      BY <1>2, <2>1, AppendedList
    <3>2. QED
      BY <1>1, <2>1, <3>1, RelistCalls, CallTuples
  <2> HIDE DEF a, b, c, rest
  <2>5. QED
    BY <2>1, <2>3, <2>4, CallTuples
<1>4. ASSUME NEW n \in Id, NEW t \in Title, Rename(n, t) PROVE plan' \in Seq(Call)
  <2> DEFINE a == PutDir(n, Free(place[n].home, {n}, t))
             r == [node[n] EXCEPT !.title = t]
             b == PutJson(n, r, kids[n])
  <2>1. plan' = <<a, b>> /\ n \in Live
    BY <1>4 DEF Rename, Begin
  <2>2. r \in Record
    BY <1>2, <2>1 DEF Record
  <2>3. place[n].home \in Id \cup {Root}
    BY <1>1, <1>2, <2>1, StartFacts
  <2>4. Free(place[n].home, {n}, t) \in [home: Id \cup {Root}, slug: Slugs]
    BY <1>2, <2>3, NameChosen
  <2> HIDE DEF r
  <2>5. a \in Call /\ b \in Call
    BY <1>2, <2>1, <2>2, <2>4, CallKinds
  <2> HIDE DEF a, b
  <2>6. QED
    BY <2>1, <2>5, CallTuples
<1>5. ASSUME NEW n \in Id, NEW m \in Meta, SetMeta(n, m) PROVE plan' \in Seq(Call)
  <2> DEFINE r == [node[n] EXCEPT !.meta = m]
             b == PutJson(n, r, kids[n])
  <2>1. plan' = <<b>> /\ n \in Live
    BY <1>5 DEF SetMeta, Begin
  <2>2. r \in Record
    BY <1>2, <2>1 DEF Record
  <2> HIDE DEF r
  <2>3. b \in Call
    BY <1>2, <2>1, <2>2, CallKinds
  <2> HIDE DEF b
  <2>4. QED
    BY <2>1, <2>3, CallTuples
<1>6. ASSUME NEW n \in Id, NEW p \in Id \cup {Root}, NEW pos \in Position, Move(n, p, pos)
      PROVE  plan' \in Seq(Call)
  <2> DEFINE a == PutDir(n, Free(p, {}, node[n].title))
             r == [node[n] EXCEPT !.parent = p]
             b == PutJson(n, r, kids[n])
             list == Inserted(kids[p], n, pos)
             rest == IF p = Root THEN << >> ELSE <<PutJson(p, node[p], list)>>
  <2>1. plan' = Unlist(n) \o <<a, b>> \o rest /\ Attached(n) /\ n \in Live /\ p \in Live \cup {Root}
    BY <1>6 DEF Move, Begin, Attached
  <2>2. r \in Record /\ node[n].title \in Title
    BY <1>2, <2>1 DEF Record
  <2>3. Free(p, {}, node[n].title) \in [home: Id \cup {Root}, slug: Slugs]
    BY <1>2, <2>2, NameChosen
  <2>4. p # Root => list \in Seq(Id)
    BY <1>2, <2>1, InsertedList, DataAssumption
  <2> HIDE DEF r, list
  <2>5. a \in Call /\ b \in Call
    BY <1>2, <2>1, <2>2, <2>3, CallKinds
  <2>6. rest \in Seq(Call)
    BY <1>1, <2>1, <2>4, RelistCalls
  <2>7. Unlist(n) \in Seq(Call)
    BY <1>1, <2>1, UnlistCalls
  <2> HIDE DEF a, b, rest
  <2>8. QED
    BY <2>1, <2>5, <2>6, <2>7, CallTuples
<1>7. ASSUME NEW n \in Id, Delete(n) PROVE plan' \in Seq(Call)
  <2>1. plan' = Unlist(n) \o <<Rmtree(<<n>>)>> /\ Attached(n)
    BY <1>7 DEF Delete, Begin
  <2>2. Rmtree(<<n>>) \in Call
    <3>1. <<n>> \in Seq(Id)
      OBVIOUS
    <3>2. QED
      BY <3>1, CallKinds
  <2>3. Unlist(n) \in Seq(Call)
    BY <1>1, <2>1, UnlistCalls
  <2>4. QED
    BY <2>1, <2>2, <2>3, CallTuples
<1>8. ASSUME NEW n \in Id, NEW c \in Canvas, WriteCanvas(n, c) PROVE plan' \in Seq(Call)
  <2>1. plan' = <<PutCanvas(n, c)>>
    BY <1>8 DEF WriteCanvas, Begin
  <2>2. QED
    BY <2>1, CallKinds, CallTuples
<1>9. plan' \in Seq(Call)
  BY <1>3, <1>4, <1>5, <1>6, <1>7, <1>8 DEF Request
<1>10. QED
  BY <1>1, <1>9 DEF CallsOK, Dirs, Slugs, Suffix

LEMMA NextCalls ==
    ASSUME DiskInv, CallsOK, [Next]_vars
    PROVE  CallsOK'
<1>0. Slugs' = Slugs
  BY DEF Slugs, Suffix
<1>1. CASE Request
  BY <1>1, RequestCalls
<1>2. CASE MoveDir
  <2>1. /\ plan # << >> /\ Head(plan).do = "dir" /\ plan' = Tail(plan)
        /\ place' = With(place, Head(plan).at, Head(plan).to)
    BY <1>2 DEF MoveDir, IsNext
  <2>2. Head(plan) \in Call /\ Tail(plan) \in Seq(Call)
    BY <2>1 DEF CallsOK
  <2>3. Head(plan).to.slug \in Slugs
    BY <2>1, <2>2 DEF Call
  <2>4. \A d \in Dirs' : place'[d].slug \in Slugs
    BY <2>1, <2>3 DEF CallsOK, Dirs, With
  <2>5. QED
    BY <1>0, <2>1, <2>2, <2>4 DEF CallsOK
<1>3. CASE WriteJson \/ WriteText
  <2>1. plan # << >> /\ plan' = Tail(plan) /\ place' = place
    BY <1>3 DEF WriteJson, WriteText, IsNext
  <2>2. Tail(plan) \in Seq(Call)
    BY <2>1 DEF CallsOK
  <2>3. QED
    BY <1>0, <2>1, <2>2 DEF CallsOK, Dirs
<1>4. CASE UnlinkFile
  <2>1. plan' = plan /\ place' = place
    BY <1>4 DEF UnlinkFile
  <2>2. QED
    BY <1>0, <2>1 DEF CallsOK, Dirs
<1>5. CASE EnterDir
  <2>1. IsNext("rmtree") /\ place' = place
    BY <1>5 DEF EnterDir, files
  <2>2. PICK stack : /\ Stack = stack /\ Tail(plan) = << >> /\ Last(stack) \in Dirs
                     /\ Walked(before.files, before.about, Files, stack)
    BY <2>1, Clears
  <2>3. PICK d \in Inside[Last(stack)] : plan' = <<Rmtree(Append(stack, d))>> \o Tail(plan)
    BY <1>5, <2>2 DEF EnterDir
  <2>4. d \in Id /\ stack \in Seq(Id)
    <3>1. Dirs \subseteq Id /\ DOMAIN Files.place = Dirs
      BY DEF DiskInv, FilesOK, Files, Dirs
    <3>2. stack \in Seq(Dirs)
      BY <2>2, <3>1 DEF Walked
    <3>3. QED
      BY <2>2, <2>3, <3>1, <3>2 DEF Inside
  <2>5. Rmtree(Append(stack, d)) \in Call
    <3>1. Append(stack, d) \in Seq(Id)
      BY <2>4
    <3>2. QED
      BY <3>1, CallKinds
  <2>6. plan' \in Seq(Call)
    BY <2>2, <2>3, <2>5, CallTuples
  <2>7. QED
    BY <1>0, <2>1, <2>6 DEF CallsOK, Dirs
<1>6. CASE RemoveDir
  <2>1. /\ IsNext("rmtree") /\ place' = Less(place, Last(Stack))
        /\ plan' = IF Len(Stack) = 1 THEN Tail(plan) ELSE <<Rmtree(Front(Stack))>> \o Tail(plan)
    BY <1>6 DEF RemoveDir
  <2>2. PICK stack : /\ Stack = stack /\ Tail(plan) = << >> /\ Len(stack) \in Nat \ {0}
                     /\ Walked(before.files, before.about, Files, stack)
    BY <2>1, Clears
  <2>3. stack \in Seq(Id)
    <3>1. Dirs \subseteq Id /\ DOMAIN Files.place = Dirs
      BY DEF DiskInv, FilesOK, Files, Dirs
    <3>2. stack \in Seq(Dirs)
      BY <2>2, <3>1 DEF Walked
    <3>3. QED
      BY <3>1, <3>2
  <2>4. Front(stack) \in Seq(Id)
    <3>1. SubSeq(stack, 1, Len(stack) - 1) \in Seq(Id)
      <4>1. \A i \in 1 .. Len(stack) - 1 : stack[i] \in Id
        BY <2>3
      <4>2. QED
        BY <2>2, <4>1, SubSeqProperties
    <3>2. QED
      BY <3>1 DEF Front
  <2>5. plan' \in Seq(Call)
    BY <2>1, <2>2, <2>4, CallKinds, CallTuples
  <2>6. \A d \in Dirs' : place'[d].slug \in Slugs
    BY <2>1 DEF CallsOK, Dirs, Less
  <2>7. QED
    BY <1>0, <2>5, <2>6 DEF CallsOK
<1>7. CASE Crash
  <2>1. plan' = << >> /\ place' = place
    BY <1>7 DEF Crash, files
  <2>2. QED
    BY <1>0, <2>1, CallTuples DEF CallsOK, Dirs
<1>8. CASE UNCHANGED vars
  BY <1>0, <1>8 DEF CallsOK, Dirs, vars
<1>9. QED
  BY <1>1, <1>2, <1>3, <1>4, <1>5, <1>6, <1>7, <1>8 DEF Next

LEMMA CallsHold == Spec => []CallsOK
<1>1. Init => CallsOK
  BY CallTuples DEF Init, CallsOK, Dirs
<1>2. DiskInv /\ CallsOK /\ [Next]_vars => CallsOK'
  BY NextCalls
<1>3. QED
  BY DiskInvHolds, <1>1, <1>2, PTL DEF Spec

-----------------------------------------------------------------------------
(* The paths: each is its parent's with the words of one name behind it, and *)
(* so comes after it in the walk of load_tree.                               *)
LEMMA NamesAreWords == Slugs \subseteq Seq(Nat)
<1>1. Suffix \subseteq Nat
  BY IdAssumption, FS_CardinalityType DEF Suffix
<1>2. \A t \in Title : SlugOf[t] \in Seq(Nat) /\ \A k \in Suffix : Append(SlugOf[t], k) \in Seq(Nat)
  BY <1>1, TitleAssumption
<1>3. ASSUME NEW s \in Slugs
      PROVE  \/ \E t \in Title : s = SlugOf[t]
             \/ \E t \in Title, k \in Suffix : s = Append(SlugOf[t], k)
  BY DEF Slugs
<1>4. QED
  BY <1>2, <1>3

LEMMA PathsBuilt ==
    ASSUME Sane(Files, cut), CallsOK
    PROVE  \A d \in Dirs :
              /\ PathOf[d] \in Seq(Nat)
              /\ PathOf[d] = (IF place[d].home = Root THEN << >> ELSE PathOf[place[d].home])
                             \o Append(place[d].slug, 0)
<1> DEFINE home == Homes(Files)
           X == Seq(Nat)
           word == [d \in Dirs |-> Append(place[d].slug, 0)]
           ext == [d \in Dirs |-> [s \in X |-> s \o word[d]]]
           Over(f) == [d \in Dirs |-> (IF place[d].home = Root THEN << >> ELSE f[place[d].home])
                                      \o Append(place[d].slug, 0)]
<1>1. /\ DOMAIN home = Dirs /\ \A d \in Dirs : home[d] = place[d].home
      /\ Rooted(home)
  BY DEF Homes, Files, Dirs, Sane
<1>2. Root \notin Dirs /\ \A d \in Dirs : home[d] \in Dirs \cup {Root}
  BY <1>1, IdAssumption DEF Sane, FilesOK, Files, Dirs
<1>3. word \in [Dirs -> X]
  <2>1. SUFFICES ASSUME NEW d \in Dirs PROVE Append(place[d].slug, 0) \in X
    OBVIOUS
  <2>2. place[d].slug \in Seq(Nat)
    BY NamesAreWords DEF CallsOK
  <2>3. QED
    BY <2>2
<1>4. ext \in [Dirs -> [X -> X]]
  BY <1>3
<1> HIDE DEF home, X
<1>5. PICK f \in [Dirs -> X] :
        \A d \in Dirs : f[d] = IF home[d] = Root THEN word[d] ELSE ext[d][f[home[d]]]
  <2> HIDE DEF word, ext
  <2>1. /\ Root \notin DOMAIN home /\ \A d \in DOMAIN home : home[d] \in DOMAIN home \cup {Root}
        /\ word \in [DOMAIN home -> X] /\ ext \in [DOMAIN home -> [X -> X]]
    BY <1>1, <1>2, <1>3, <1>4
  <2>2. \E f : Downwards(home, Root, X, word, ext, f)
    BY <1>1, <2>1, BuiltFromRoot
  <2>3. QED
    BY <1>1, <2>2 DEF Downwards
<1>6. f = Over(f)
  <2>1. ASSUME NEW d \in Dirs
        PROVE  f[d] = (IF place[d].home = Root THEN << >> ELSE f[place[d].home])
                      \o Append(place[d].slug, 0)
    <3>1. word[d] = Append(place[d].slug, 0) /\ word[d] \in Seq(Nat)
      BY <1>3 DEF X
    <3>2. CASE place[d].home = Root
      <4>1. f[d] = word[d] /\ word[d] = << >> \o word[d]
        BY <1>1, <1>5, <3>1, <3>2, NoMore
      <4>2. QED
        BY <3>1, <3>2, <4>1
    <3>3. CASE place[d].home # Root
      <4>1. f[place[d].home] \in X
        BY <1>1, <1>2, <1>5, <3>3
      <4>2. f[d] = f[place[d].home] \o word[d]
        BY <1>1, <1>5, <3>3, <4>1
      <4>3. QED
        BY <3>1, <3>3, <4>2
    <3>4. QED
      BY <3>2, <3>3
  <2>2. QED
    BY <1>5, <2>1
<1>7. PathOf = Over(PathOf)
  <2>1. PathOf = CHOOSE g : g = Over(g)
    BY DEF PathOf
  <2> HIDE DEF Over
  <2>2. QED
    BY <1>6, <2>1, Zenon
<1>8. ASSUME NEW d \in Dirs
      PROVE  PathOf[d] = (IF place[d].home = Root THEN << >> ELSE PathOf[place[d].home])
                         \o Append(place[d].slug, 0)
  <2>1. PathOf[d] = Over(PathOf)[d]
    <3> HIDE DEF Over
    <3>1. QED
      BY <1>7
  <2> DEFINE g == PathOf
  <2> HIDE DEF g
  <2>2. Over(g)[d] = (IF place[d].home = Root THEN << >> ELSE g[place[d].home])
                     \o Append(place[d].slug, 0)
    OBVIOUS
  <2>3. QED
    BY <2>1, <2>2 DEF g
<1>9. ASSUME NEW d \in Dirs PROVE PathOf[d] \in X
  <2> DEFINE g == PathOf
             B == {e \in Dirs : g[e] \notin X}
  <2>1. \A e \in Dirs : g[e] = (IF place[e].home = Root THEN << >> ELSE g[place[e].home])
                               \o word[e]
    BY <1>8
  <2> HIDE DEF g, word
  <2>2. SUFFICES ASSUME B # {} PROVE FALSE
    BY DEF g
  <2>3. PICK e \in B : home[e] \notin B
    BY <1>1, <2>2 DEF Rooted
  <2>4. place[e].home = Root \/ g[place[e].home] \in X
    BY <1>1, <1>2, <2>3
  <2>5. word[e] \in Seq(Nat) /\ << >> \in Seq(Nat)
    BY <1>3 DEF X
  <2>6. \A s \in Seq(Nat) : s \o word[e] \in Seq(Nat)
    BY <2>5
  <2>7. (IF place[e].home = Root THEN << >> ELSE g[place[e].home]) \in Seq(Nat)
    BY <2>4, <2>5 DEF X
  <2>8. g[e] \in X
    BY <2>1, <2>6, <2>7 DEF X
  <2>9. QED
    BY <2>3, <2>8
<1>10. QED
  BY <1>8, <1>9 DEF X

LEMMA ParentComesFirst ==
    ASSUME Sane(Files, cut), CallsOK, NEW d \in Dirs, place[d].home # Root
    PROVE  Before(PathOf[place[d].home], PathOf[d])
<1> DEFINE p == place[d].home
           s == PathOf[p]
           t == PathOf[d]
           w == Append(place[d].slug, 0)
           i == Len(s) + 1
<1>1. p \in Dirs
  BY DEF Sane, FilesOK, Files, Dirs
<1>2. s \in Seq(Nat) /\ t \in Seq(Nat) /\ t = s \o w
  BY <1>1, PathsBuilt
<1>3. w \in Seq(Nat) /\ Len(w) \in Nat \ {0}
  <2>1. place[d].slug \in Seq(Nat)
    BY NamesAreWords DEF CallsOK
  <2>2. QED
    BY <2>1
<1> HIDE DEF p, s, t, w
<1>4. /\ DOMAIN s = 1 .. Len(s) /\ DOMAIN t = 1 .. Len(t) /\ Len(t) = Len(s) + Len(w)
      /\ Len(s) \in Nat /\ \A j \in 1 .. Len(s) : t[j] = s[j]
  BY <1>2, <1>3
<1>5. i \in DOMAIN t /\ i \notin DOMAIN s /\ \A j \in 1 .. i - 1 : j \in DOMAIN s /\ s[j] = t[j]
  BY <1>3, <1>4
<1>6. Before(s, t)
  BY <1>5 DEF Before
<1>7. QED
  BY <1>6 DEF s, t, p

(* Among the undamaged nodes that load_tree would leave out there is one     *)
(* whose parent it takes, and whose path comes after that of the parent.     *)
LEMMA UndamagedAreLoaded ==
    ASSUME Sane(Files, cut), CallsOK
    PROVE  Live \ Damaged \subseteq Loaded
<1> DEFINE S == (Live \ Damaged) \ Loaded
<1>1. SUFFICES ASSUME S # {} PROVE FALSE
  OBVIOUS
<1>2. /\ Live \subseteq Dirs /\ DOMAIN Inside = Dirs /\ DOMAIN Takes = Live
      /\ DOMAIN Homes(Files) = Dirs /\ \A d \in Dirs : Homes(Files)[d] = place[d].home
      /\ Rooted(Homes(Files))
  BY DEF Sane, FilesOK, Files, Dirs, Live, Inside, Takes, Homes
<1>3. PICK x \in S : place[x].home \notin S
  <2>1. S \in SUBSET DOMAIN Homes(Files)
    BY <1>2
  <2> HIDE DEF S
  <2>2. PICK x \in S : Homes(Files)[x] \notin S
    BY <1>1, <1>2, <2>1 DEF Rooted
  <2>3. QED
    BY <1>2, <2>1, <2>2
<1>4. x \in Live /\ x \in Dirs /\ x \notin Damaged /\ x \notin Loaded
  BY <1>2, <1>3
<1>5. x \notin cut
  <2>1. x \in Below(x)
    BY <1>2, <1>4, ReachSelf DEF Below
  <2>2. QED
    BY <1>4, <2>1 DEF Damaged
<1>6. /\ node[x].parent = place[x].home
      /\ place[x].home # Root => place[x].home \in Live
  BY <1>4, <1>5 DEF Sane, SoundIn, Files, Live
<1>7. CASE place[x].home = Root
  <2>1. x \in Reach(Takes, x)
    BY <1>2, <1>4, ReachSelf
  <2>2. QED
    BY <1>4, <1>6, <1>7, <2>1 DEF Loaded
<1>8. CASE place[x].home # Root
  <2> DEFINE p == place[x].home
  <2>1. p \in Live /\ p \in Dirs
    BY <1>2, <1>6, <1>8
  <2>2. p \notin Damaged
    <3>1. SUFFICES ASSUME NEW d \in cut \cap Dirs, p \in Below(d) PROVE FALSE
      BY DEF Damaged
    <3>2. x \in Inside[p]
      BY <1>4, <2>1 DEF Inside
    <3>3. x \in Below(d)
      BY <1>2, <1>4, <3>1, <3>2, ReachClosed DEF Below
    <3>4. QED
      BY <1>4, <3>3 DEF Damaged
  <2>3. p \in Loaded
    BY <1>3, <2>1, <2>2
  <2>4. PICK r \in Live : node[r].parent = Root /\ p \in Reach(Takes, r)
    BY <2>3 DEF Loaded
  <2>5. x \in Takes[p]
    <3>1. Before(PathOf[p], PathOf[x])
      BY <1>4, <1>8, ParentComesFirst
    <3>2. QED
      BY <1>4, <1>6, <2>1, <3>1 DEF Takes
  <2>6. x \in Reach(Takes, r)
    BY <1>2, <1>4, <2>4, <2>5, ReachClosed
  <2>7. QED
    BY <1>4, <2>4, <2>6 DEF Loaded
<1>9. QED
  BY <1>7, <1>8

LEMMA DiskTypes ==
    ASSUME DiskInv, CallsOK
    PROVE  TypeOK
<1>1. FilesOK(Files) /\ cut \subseteq issued /\ crashes \in 0 .. MaxCrashes
  BY DEF DiskInv
<1>2. /\ issued \subseteq Id /\ Dirs \subseteq issued
      /\ Live \cup DOMAIN canvas \subseteq Dirs
      /\ \A d \in Dirs : place[d].home \in Dirs \cup {Root}
      /\ place = [d \in Dirs |-> [home |-> place[d].home, slug |-> place[d].slug]]
  BY <1>1 DEF FilesOK, Files, Dirs, Live
<1>3. place \in [Dirs -> [home: Dirs \cup {Root}, slug: Slugs]]
  <2>1. \A d \in Dirs : [home |-> place[d].home, slug |-> place[d].slug]
                            \in [home: Dirs \cup {Root}, slug: Slugs]
    BY <1>2 DEF CallsOK
  <2>2. QED
    BY <1>2, <2>1
<1>4. /\ node \in [Live -> Record]
      /\ kids \in [Live -> Seq(Id)] /\ \A n \in Live : Once(kids[n])
      /\ canvas \in [DOMAIN canvas -> Canvas]
  BY <1>1 DEF FilesOK, Files, Live
<1>5. QED
  BY <1>1, <1>2, <1>3, <1>4 DEF TypeOK, CallsOK

(* The types: in particular a directory stands in one that exists, a file in *)
(* a directory, a list names a child once, and the calls still to be made    *)
(* are on nodes of the instance, at every moment of a request and after a    *)
(* crash at any of them.                                                     *)
THEOREM DiskTypeCorrect == Spec => []TypeOK
<1>1. DiskInv /\ CallsOK => TypeOK
  BY DiskTypes
<1>2. QED
  BY DiskInvHolds, CallsHold, <1>1, PTL

(* The next boot takes every node no crash has touched and none has come to  *)
(* lie above: load_tree meets the parent before the child, since a directory *)
(* comes before what it holds in the order of paths, and a sound node's      *)
(* node.json names the node in whose directory it lies.                      *)
THEOREM BootLoadsTheRest == Spec => []BootLoadsRest
<1>1. DiskInv /\ CallsOK => BootLoadsRest
  BY UndamagedAreLoaded DEF DiskInv, BootLoadsRest
<1>2. QED
  BY DiskInvHolds, CallsHold, <1>1, PTL

(* A crash between two file system calls of a create, rename, move or delete *)
(* spoils no parent link, directory or list but those of the node the        *)
(* request was about and of what was below it, however the requests that     *)
(* follow run into the damage.                                               *)
THEOREM CrashHarmsOnlyBelow == Spec => []DamageStaysBelow
<1>1. DiskInv => DamageStaysBelow
  <2>1. SUFFICES ASSUME DiskInv, Quiet, NEW n \in Live \ cut PROVE Sound(n)
    BY DEF DamageStaysBelow
  <2>2. SoundIn(Files, n)
    BY <2>1 DEF DiskInv, Sane, Files, Live
  <2>3. QED
    BY <2>2 DEF SoundIn, Sound, Files, Live
<1>2. QED
  BY DiskInvHolds, <1>1, PTL

(* The file system calls of each operation of LocalFilesystem, none lost,    *)
(* come to the one step the LocalFilesystem model makes of it.               *)
THEOREM RequestsAreAtomic == Spec => AtomicSteps
<1>1. DiskInv /\ [Next]_vars => [crashes' = 0 => Atomic!FsNext]_Shown
  <2>1. SUFFICES ASSUME DiskInv, [Next]_vars, Shown' # Shown, crashes' = 0 PROVE Atomic!FsNext
    OBVIOUS
  <2>2. Whole(Shown) /\ FilesOK(Shown) /\ Shape(Shown) /\ OneStep(Shown, Shown')
    BY <2>1, NextDisk DEF ShownMoves
  <2>3. QED
    BY <2>2, AtomicStep
<1>2. QED
  BY DiskInvHolds, <1>1, PTL DEF Spec, AtomicSteps
=============================================================================
