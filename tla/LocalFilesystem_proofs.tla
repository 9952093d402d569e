------------------------ MODULE LocalFilesystem_proofs ------------------------
(* The workspace directory keeps its shape: type correctness and the safety  *)
(* invariants of LocalFilesystem for any set of ids, titles and positions.   *)
(* The proof is in two layers. Directories and parent links (DirInv) keep    *)
(* their shape whatever the children lists hold; the lists (ListInv) follow  *)
(* the parent links only because every operation rewrites both.              *)
EXTENDS LocalFilesystem, NodeTree_proofs

DirType ==
    /\ issued \subseteq Id
    /\ Live \subseteq issued
    /\ place \in [Live -> [home: Live \cup {Root}, slug: Slugs]]
    /\ node \in [Live -> NodeRecord]
    /\ canvas \in [Live -> Canvas]

DirInv == DirType /\ ParentIsDirectory /\ NoCycle /\ SiblingSlugsDistinct

ListType == kids \in [Live -> Seq(Id)] /\ \A n \in Live : Once(kids[n])

ListInv == ListType /\ ListsMatchParents /\ ListsNameLiveNodes

FsInv == DirInv /\ ListInv

-----------------------------------------------------------------------------
(* _unique_slug looks at the directories of some nodes S and returns a name  *)
(* none of them has.                                                         *)
LEMMA SlugChosen ==
    ASSUME DirType, NEW S \in SUBSET Live, NEW t \in Title
    PROVE  /\ UniqueSlug({place[m].slug : m \in S}, SlugOf[t], Suffix) \in Slugs
           /\ \A m \in S :
                 place[m].slug # UniqueSlug({place[x].slug : x \in S}, SlugOf[t], Suffix)
<1> DEFINE taken == {place[m].slug : m \in S}
           f == [m \in S |-> place[m].slug]
           N == Cardinality(Id)
           base == SlugOf[t]
<1>1. IsFiniteSet(S) /\ Cardinality(S) <= N
  BY IdAssumption, FS_Subset DEF DirType
<1>2. f \in Surjection(S, taken)
  BY DEF Surjection
<1>3. IsFiniteSet(taken) /\ Cardinality(taken) <= Cardinality(S)
  BY <1>1, <1>2, FS_Surjection
<1>4. N \in Nat /\ Cardinality(taken) <= N
  <2>1. N \in Nat /\ Cardinality(taken) \in Nat /\ Cardinality(S) \in Nat
    BY <1>1, <1>3, IdAssumption, FS_CardinalityType
  <2> HIDE DEF taken, f, N
  <2>2. QED
    BY <1>1, <1>3, <2>1
<1>5. base \in Seq(Nat)
  BY TitleAssumption
<1> HIDE DEF taken, f, N, base
<1>6. /\ UniqueSlug(taken, base, 2 .. N + 1) \notin taken
      /\ UniqueSlug(taken, base, 2 .. N + 1) \in {base} \cup {Append(base, k) : k \in 2 .. N + 1}
  BY <1>3, <1>4, <1>5, UniqueSlugFree
<1>7. UniqueSlug(taken, base, Suffix) \in Slugs
  BY <1>6 DEF Slugs, Suffix, N, base
<1>8. UniqueSlug(taken, base, Suffix) \notin taken
  BY <1>6 DEF Suffix, N
<1>9. QED
  BY <1>7, <1>8 DEF taken, base

(* A directory lies in the tree of another exactly when its parent does.     *)
LEMMA DirectoryTreeFacts ==
    ASSUME DirType, NEW n \in Live
    PROVE  /\ DirectoryTree(n) \subseteq Live
           /\ n \in DirectoryTree(n)
           /\ \A x \in Live : place[x].home \in DirectoryTree(n) => x \in DirectoryTree(n)
           /\ \A x \in DirectoryTree(n) : x = n \/ place[x].home \in DirectoryTree(n)
<1>1. DOMAIN Subdirs = Live /\ \A x \in Live : Subdirs[x] = {y \in Live : place[y].home = x}
  BY DEF Subdirs
<1>2. DirectoryTree(n) \subseteq Live /\ n \in DirectoryTree(n)
  BY <1>1, ReachWithin, ReachSelf DEF DirectoryTree
<1>3. ASSUME NEW x \in Live, place[x].home \in DirectoryTree(n) PROVE x \in DirectoryTree(n)
  <2>1. x \in Subdirs[place[x].home]
    BY <1>1, <1>2, <1>3
  <2>2. QED
    BY <1>1, <1>3, <2>1, ReachClosed DEF DirectoryTree
<1>4. ASSUME NEW x \in DirectoryTree(n), x # n PROVE place[x].home \in DirectoryTree(n)
  <2>1. PICK y \in DirectoryTree(n) : x \in Subdirs[y]
    BY <1>1, <1>4, ReachFrom DEF DirectoryTree
  <2>2. QED
    BY <1>1, <1>2, <2>1
<1>5. QED
  BY <1>2, <1>3, <1>4

-----------------------------------------------------------------------------
(* Directories, node records and canvases                                    *)
LEMMA InitDir == FsInit => DirInv
<1> SUFFICES ASSUME FsInit PROVE DirInv
  OBVIOUS
<1>1. Live = {} /\ place = << >> /\ node = << >> /\ canvas = << >> /\ issued = {}
  BY DEF FsInit, Live
<1>2. DirType
  BY <1>1 DEF DirType
<1>3. NoCycle
  BY <1>1 DEF NoCycle, Rooted, HomeOf
<1>4. QED
  BY <1>1, <1>2, <1>3 DEF DirInv, ParentIsDirectory, SiblingSlugsDistinct

LEMMA CreateDir ==
    ASSUME DirInv, NEW n \in Id, NEW p \in Id \cup {Root}, NEW t \in Title, FsCreate(n, p, t)
    PROVE  DirInv'
<1> DEFINE name == UniqueSlug(SlugsIn(p), SlugOf[t], Suffix)
           here == {m \in Live : place[m].home = p}
<1>1. /\ Live' = Live \cup {n}
      /\ n \notin Live
      /\ n # Root
      /\ p \in Live \cup {Root}
      /\ p # n
  BY IdAssumption DEF DirInv, DirType, FsCreate, Live
<1>2. name \in Slugs /\ \A m \in here : place[m].slug # name
  BY SlugChosen DEF DirInv, SlugsIn
<1> HIDE DEF name
<1>3. /\ place' = [x \in Live \cup {n} |-> IF x = n THEN [home |-> p, slug |-> name] ELSE place[x]]
      /\ node' = [x \in Live \cup {n} |->
                     IF x = n THEN [title |-> t, parent |-> p, meta |-> NoMeta] ELSE node[x]]
      /\ canvas' = [x \in Live \cup {n} |-> IF x = n THEN Blank ELSE canvas[x]]
      /\ issued' = issued \cup {n}
  BY DEF FsCreate, name
<1>4. \A x \in Live :
         place'[x] = place[x] /\ place[x].home \in Live \cup {Root} /\ node'[x] = node[x]
  BY <1>1, <1>3 DEF DirInv, DirType
<1>5. DirType'
  <2>1. issued' \subseteq Id /\ Live' \subseteq issued'
    BY <1>1, <1>3 DEF DirInv, DirType
  <2>2. place' \in [Live' -> [home: Live' \cup {Root}, slug: Slugs]]
    BY <1>1, <1>2, <1>3 DEF DirInv, DirType
  <2>3. node' \in [Live' -> NodeRecord]
    BY <1>1, <1>3, DataAssumption DEF DirInv, DirType, NodeRecord
  <2>4. canvas' \in [Live' -> Canvas]
    BY <1>1, <1>3, DataAssumption DEF DirInv, DirType
  <2>5. QED
    BY <2>1, <2>2, <2>3, <2>4 DEF DirType
<1>6. ParentIsDirectory'
  BY <1>1, <1>3, <1>4 DEF DirInv, ParentIsDirectory
<1>7. NoCycle'
  <2>1. HomeOf' = [x \in Live' |-> place'[x].home]
    BY DEF HomeOf
  <2>2. HomeOf'[n] = p /\ \A x \in Live : HomeOf'[x] = HomeOf[x] /\ HomeOf[x] # n
    BY <1>1, <1>3, <1>4, <2>1 DEF HomeOf
  <2>3. DOMAIN HomeOf = Live /\ DOMAIN HomeOf' = Live \cup {n}
    BY <1>1, <2>1 DEF HomeOf
  <2>4. QED
    BY <1>1, <2>2, <2>3, RootedAdd DEF DirInv, NoCycle
<1>8. SiblingSlugsDistinct'
  BY <1>1, <1>2, <1>3, <1>4 DEF DirInv, SiblingSlugsDistinct
<1>9. QED
  BY <1>5, <1>6, <1>7, <1>8 DEF DirInv

LEMMA RenameDir ==
    ASSUME DirInv, NEW n \in Id, NEW t \in Title, FsRename(n, t)
    PROVE  DirInv'
<1> DEFINE here == {m \in Live \ {n} : place[m].home = place[n].home}
           name == UniqueSlug({place[m].slug : m \in here}, SlugOf[t], Suffix)
<1>1. name \in Slugs /\ \A m \in here : place[m].slug # name
  BY SlugChosen DEF DirInv
<1> HIDE DEF name
<1>2. /\ place' = [place EXCEPT ![n].slug = name]
      /\ node' = [node EXCEPT ![n].title = t]
      /\ canvas' = canvas /\ issued' = issued
      /\ n \in Live /\ Live' = Live
  BY DEF FsRename, name, DirInv, DirType, Live
<1>3. \A x \in Live : /\ place'[x].home = place[x].home
                      /\ place'[x].slug = IF x = n THEN name ELSE place[x].slug
                      /\ node'[x].parent = node[x].parent
  BY <1>2 DEF DirInv, DirType, NodeRecord
<1>4. DirType'
  <2>1. place' \in [Live' -> [home: Live' \cup {Root}, slug: Slugs]]
    BY <1>1, <1>2 DEF DirInv, DirType
  <2>2. node' \in [Live' -> NodeRecord]
    BY <1>2 DEF DirInv, DirType, NodeRecord
  <2>3. QED
    BY <1>2, <2>1, <2>2 DEF DirInv, DirType
<1>5. ParentIsDirectory'
  BY <1>2, <1>3 DEF DirInv, ParentIsDirectory
<1>6. NoCycle'
  BY <1>2, <1>3 DEF DirInv, NoCycle, HomeOf
<1>7. SiblingSlugsDistinct'
  BY <1>1, <1>2, <1>3 DEF DirInv, SiblingSlugsDistinct
<1>8. QED
  BY <1>4, <1>5, <1>6, <1>7 DEF DirInv

(* A node written back must carry the parent it has on disk.                 *)
LEMMA WriteNodeDir ==
    ASSUME DirInv, NEW n \in Id, NEW record \in NodeRecord, NEW list, FsWriteNode(n, record, list),
           record.parent = node[n].parent
    PROVE  DirInv'
<1>1. /\ n \in Live /\ Live' = Live
      /\ node' = [node EXCEPT ![n] = record]
      /\ UNCHANGED <<place, canvas, issued>>
  BY DEF FsWriteNode, DirInv, DirType, Live
<1>2. node' \in [Live' -> NodeRecord] /\ \A x \in Live : node'[x].parent = node[x].parent
  BY <1>1 DEF DirInv, DirType
<1>3. DirType'
  BY <1>1, <1>2 DEF DirInv, DirType
<1>4. QED
  BY <1>1, <1>2, <1>3 DEF DirInv, ParentIsDirectory, NoCycle, HomeOf, SiblingSlugsDistinct

LEMMA MoveDir ==
    ASSUME DirInv, NEW n \in Id, NEW p \in Id \cup {Root}, NEW pos, FsMove(n, p, pos)
    PROVE  DirInv'
<1> DEFINE here == {m \in Live : place[m].home = p}
           name == UniqueSlug(SlugsIn(p), SlugOf[node[n].title], Suffix)
<1>1. n \in Live /\ p \in (Live \ DirectoryTree(n)) \cup {Root}
  BY DEF FsMove
<1>2. name \in Slugs /\ \A m \in here : place[m].slug # name
  <2>1. node[n].title \in Title
    BY <1>1 DEF DirInv, DirType, NodeRecord
  <2>2. QED
    BY <2>1, SlugChosen DEF DirInv, SlugsIn
<1> HIDE DEF name
<1>3. /\ place' = [place EXCEPT ![n] = [home |-> p, slug |-> name]]
      /\ node' = [node EXCEPT ![n].parent = p]
      /\ canvas' = canvas /\ issued' = issued /\ Live' = Live
  BY DEF FsMove, name, DirInv, DirType, Live
<1>4. /\ place'[n] = [home |-> p, slug |-> name]
      /\ \A x \in Live \ {n} : place'[x] = place[x] /\ node'[x] = node[x]
      /\ node'[n].parent = p
  BY <1>1, <1>3 DEF DirInv, DirType, NodeRecord
<1>5. DirType'
  <2>1. place' \in [Live' -> [home: Live' \cup {Root}, slug: Slugs]]
    BY <1>1, <1>2, <1>3 DEF DirInv, DirType
  <2>2. node' \in [Live' -> NodeRecord]
    BY <1>1, <1>3 DEF DirInv, DirType, NodeRecord
  <2>3. QED
    BY <1>3, <2>1, <2>2 DEF DirInv, DirType
<1>6. ParentIsDirectory'
  BY <1>3, <1>4 DEF DirInv, ParentIsDirectory
<1>7. NoCycle'
  <2>1. HomeOf' = [x \in Live |-> place'[x].home]
    BY <1>3 DEF HomeOf
  <2>2. HomeOf'[n] = p /\ \A x \in Live \ {n} : HomeOf'[x] = HomeOf[x]
    BY <1>1, <1>4, <2>1 DEF HomeOf
  <2>3. DOMAIN HomeOf = Live /\ DOMAIN HomeOf' = Live /\ DOMAIN Subdirs = Live
    BY <2>1 DEF HomeOf, Subdirs
  <2>4. \A x, y \in Live : HomeOf[y] = x => y \in Subdirs[x]
    BY DEF HomeOf, Subdirs
  <2>5. p \notin DirectoryTree(n)
    BY <1>1, DirectoryTreeFacts, IdAssumption DEF DirInv, DirType
  <2>6. QED
    BY <1>1, <2>2, <2>3, <2>4, <2>5, RootedMove DEF DirInv, NoCycle, DirectoryTree
<1>8. SiblingSlugsDistinct'
  BY <1>1, <1>2, <1>3, <1>4 DEF DirInv, SiblingSlugsDistinct
<1>9. QED
  BY <1>5, <1>6, <1>7, <1>8 DEF DirInv

LEMMA DeleteDir ==
    ASSUME DirInv, NEW n \in Id, FsDelete(n)
    PROVE  DirInv'
<1> DEFINE kept == Live \ DirectoryTree(n)
<1>1. /\ n \in Live
      /\ Live' = kept
      /\ place' = [x \in kept |-> place[x]]
      /\ node' = [x \in kept |-> node[x]]
      /\ canvas' = [x \in kept |-> canvas[x]]
      /\ issued' = issued
  BY DEF FsDelete, Live
<1>2. \A x \in kept : place[x].home \in kept \cup {Root}
  BY <1>1, DirectoryTreeFacts DEF DirInv, DirType
<1>3. DirType'
  <2>1. place' \in [Live' -> [home: Live' \cup {Root}, slug: Slugs]]
    BY <1>1, <1>2 DEF DirInv, DirType
  <2>2. QED
    BY <1>1, <2>1 DEF DirInv, DirType
<1>4. ParentIsDirectory' /\ SiblingSlugsDistinct'
  BY <1>1 DEF DirInv, ParentIsDirectory, SiblingSlugsDistinct
<1>5. NoCycle'
  <2>1. HomeOf' = [x \in kept |-> place'[x].home]
    BY <1>1 DEF HomeOf
  <2>2. DOMAIN HomeOf' \subseteq DOMAIN HomeOf /\ \A x \in kept : HomeOf'[x] = HomeOf[x]
    BY <1>1, <2>1 DEF HomeOf
  <2>3. QED
    BY <2>1, <2>2, RootedRestrict DEF DirInv, NoCycle
<1>6. QED
  BY <1>3, <1>4, <1>5 DEF DirInv

LEMMA WriteCanvasDir ==
    ASSUME DirInv, NEW n \in Id, NEW c \in Canvas, FsWriteCanvas(n, c)
    PROVE  DirInv'
<1>1. canvas' \in [Live -> Canvas] /\ Live' = Live /\ UNCHANGED <<place, node, issued>>
  BY DEF FsWriteCanvas, DirInv, DirType, Live
<1>2. DirType'
  BY <1>1 DEF DirInv, DirType
<1>3. QED
  BY <1>1, <1>2 DEF DirInv, ParentIsDirectory, NoCycle, HomeOf, SiblingSlugsDistinct

-----------------------------------------------------------------------------
(* Children lists                                                            *)
LEMMA CreateLists ==
    ASSUME DirInv, ListInv,
           NEW n \in Id, NEW p \in Id \cup {Root}, NEW t \in Title, FsCreate(n, p, t)
    PROVE  ListInv'
<1>1. /\ Live' = Live \cup {n}
      /\ n \notin Live
      /\ \A x \in Live : node[x].parent \in Live \cup {Root} /\ n # Root
      /\ p # n
      /\ \A x \in Live : node'[x] = node[x]
      /\ node'[n].parent = p
  BY IdAssumption DEF DirInv, DirType, ParentIsDirectory, FsCreate, Live
<1>2. kids' = [x \in Live \cup {n} |->
                 IF x = n THEN << >> ELSE IF x = p THEN Appended(kids[x], n) ELSE kids[x]]
  BY DEF FsCreate
<1>3. \A x \in Live :
         /\ kids'[x] \in Seq(Id)
         /\ Once(kids'[x])
         /\ ToSet(kids'[x]) = ToSet(kids[x]) \cup (IF x = p THEN {n} ELSE {})
  <2>1. TAKE x \in Live
  <2>2. kids[x] \in Seq(Id) /\ Once(kids[x])
    BY DEF ListInv, ListType
  <2>3. /\ Appended(kids[x], n) \in Seq(Id)
        /\ Once(Appended(kids[x], n))
        /\ ToSet(Appended(kids[x], n)) = ToSet(kids[x]) \cup {n}
    BY <2>2, AppendedList
  <2>4. kids'[x] = IF x = p THEN Appended(kids[x], n) ELSE kids[x]
    BY <1>1, <1>2
  <2>5. QED
    BY <2>2, <2>3, <2>4
<1>4. kids'[n] = << >> /\ << >> \in Seq(Id) /\ Once(<< >>) /\ ToSet(<< >>) = {}
  BY <1>2 DEF Once, IsInjective, ToSet
<1>5. ListType'
  BY <1>1, <1>2, <1>3, <1>4 DEF ListType
<1>6. ListsNameLiveNodes'
  BY <1>1, <1>3, <1>4 DEF ListInv, ListsNameLiveNodes
<1>7. ListsMatchParents'
  <2>1. SUFFICES ASSUME NEW a \in Live', NEW c \in Live'
                 PROVE  c \in ToSet(kids'[a]) <=> node'[c].parent = a
    BY DEF ListsMatchParents
  <2>2. CASE a = n
    BY <1>1, <1>4, <2>2
  <2>3. CASE a # n /\ c = n
    <3>1. a \in Live /\ n \notin ToSet(kids[a])
      BY <1>1, <2>3 DEF ListInv, ListsNameLiveNodes
    <3>2. QED
      BY <1>1, <1>3, <2>3, <3>1
  <2>4. CASE a # n /\ c # n
    <3>1. a \in Live /\ c \in Live
      BY <1>1, <2>4
    <3>2. c \in ToSet(kids[a]) <=> node[c].parent = a
      BY <3>1 DEF ListInv, ListsMatchParents
    <3>3. c \in ToSet(kids'[a]) <=> c \in ToSet(kids[a])
      BY <1>3, <2>4, <3>1
    <3>4. QED
      BY <1>1, <3>1, <3>2, <3>3
  <2>5. QED
    BY <2>2, <2>3, <2>4
<1>8. QED
  BY <1>5, <1>6, <1>7 DEF ListInv

(* Rename, metadata and canvas writes leave parents and lists as they are.   *)
LEMMA SameLists ==
    ASSUME ListInv, Live' = Live, kids' = kids, \A x \in Live : node'[x].parent = node[x].parent
    PROVE  ListInv'
<1>1. ListType' /\ ListsNameLiveNodes' /\ ListsMatchParents'
  BY DEF ListInv, ListType, ListsNameLiveNodes, ListsMatchParents
<1>2. QED
  BY <1>1 DEF ListInv

LEMMA MoveLists ==
    ASSUME DirInv, ListInv, NEW n \in Id, NEW p \in Id \cup {Root}, NEW pos \in Nat, FsMove(n, p, pos)
    PROVE  ListInv'
<1>1. /\ Live' = Live /\ n \in Live
      /\ \A x \in Live \ {n} : node'[x] = node[x]
      /\ node'[n].parent = p
  BY DEF FsMove, DirInv, DirType, NodeRecord, Live
<1> DEFINE old == node[n].parent
<1>2. kids' = [x \in Live |-> IF x = p THEN Inserted(kids[x], n, pos)
                              ELSE IF x = old THEN Without(kids[x], n) ELSE kids[x]]
  BY DEF FsMove
<1>3. \A x \in Live :
         /\ kids'[x] \in Seq(Id)
         /\ Once(kids'[x])
         /\ ToSet(kids'[x]) = IF x = p THEN ToSet(kids[x]) \cup {n}
                              ELSE IF x = old THEN ToSet(kids[x]) \ {n} ELSE ToSet(kids[x])
  <2>1. TAKE x \in Live
  <2>2. kids[x] \in Seq(Id) /\ Once(kids[x])
    BY DEF ListInv, ListType
  <2>3. /\ Inserted(kids[x], n, pos) \in Seq(Id)
        /\ Once(Inserted(kids[x], n, pos))
        /\ ToSet(Inserted(kids[x], n, pos)) = ToSet(kids[x]) \cup {n}
    BY <2>2, InsertedList
  <2>4. /\ Without(kids[x], n) \in Seq(Id)
        /\ Once(Without(kids[x], n))
        /\ ToSet(Without(kids[x], n)) = ToSet(kids[x]) \ {n}
    BY <2>2, WithoutList
  <2>5. kids'[x] = IF x = p THEN Inserted(kids[x], n, pos)
                   ELSE IF x = old THEN Without(kids[x], n) ELSE kids[x]
    BY <1>2
  <2>6. QED
    BY <2>2, <2>3, <2>4, <2>5
<1>4. ListType'
  BY <1>1, <1>2, <1>3 DEF ListType
<1>5. ListsNameLiveNodes'
  BY <1>1, <1>3 DEF ListInv, ListsNameLiveNodes
<1>6. ListsMatchParents'
  <2>1. SUFFICES ASSUME NEW a \in Live, NEW c \in Live
                 PROVE  c \in ToSet(kids'[a]) <=> node'[c].parent = a
    BY <1>1 DEF ListsMatchParents
  <2>2. c \in ToSet(kids[a]) <=> node[c].parent = a
    BY DEF ListInv, ListsMatchParents
  <2>3. CASE c = n
    BY <1>1, <1>3, <2>2, <2>3
  <2>4. CASE c # n
    <3>1. c \in ToSet(kids'[a]) <=> c \in ToSet(kids[a])
      BY <1>3, <2>4
    <3>2. QED
      BY <1>1, <2>2, <2>4, <3>1
  <2>5. QED
    BY <2>3, <2>4
<1>7. QED
  BY <1>4, <1>5, <1>6 DEF ListInv

LEMMA DeleteLists ==
    ASSUME DirInv, ListInv, NEW n \in Id, FsDelete(n)
    PROVE  ListInv'
<1> DEFINE kept == Live \ DirectoryTree(n)
<1>1. /\ n \in Live /\ Live' = kept
      /\ \A x \in kept : node'[x] = node[x]
      /\ kids' = [x \in kept |-> IF x = node[n].parent THEN Without(kids[x], n) ELSE kids[x]]
  BY DEF FsDelete, Live
<1>2. \A x \in kept :
         /\ kids'[x] \in Seq(Id)
         /\ Once(kids'[x])
         /\ ToSet(kids'[x]) = ToSet(kids[x]) \ (IF x = node[n].parent THEN {n} ELSE {})
  BY <1>1, WithoutList DEF ListInv, ListType
<1>3. ListType'
  BY <1>1, <1>2 DEF ListType
<1>4. ListsNameLiveNodes'
  <2>1. SUFFICES ASSUME NEW a \in kept, NEW c \in ToSet(kids'[a]) PROVE c \in kept
    BY <1>1 DEF ListsNameLiveNodes
  <2>2. c \in ToSet(kids[a]) /\ c \in Live /\ node[c].parent = a
    BY <1>2 DEF ListInv, ListsNameLiveNodes, ListsMatchParents
  <2>3. c # n
    BY <1>2, <2>2
  <2>4. place[c].home = a
    BY <2>2 DEF DirInv, ParentIsDirectory
  <2>5. QED
    BY <1>1, <2>2, <2>3, <2>4, DirectoryTreeFacts DEF DirInv
<1>5. ListsMatchParents'
  <2>1. SUFFICES ASSUME NEW a \in kept, NEW c \in kept
                 PROVE  c \in ToSet(kids'[a]) <=> node'[c].parent = a
    BY <1>1 DEF ListsMatchParents
  <2>2. c # n
    BY <1>1, DirectoryTreeFacts DEF DirInv
  <2>3. c \in ToSet(kids[a]) <=> node[c].parent = a
    BY DEF ListInv, ListsMatchParents
  <2>4. QED
    BY <1>1, <1>2, <2>2, <2>3
<1>6. QED
  BY <1>3, <1>4, <1>5 DEF ListInv

-----------------------------------------------------------------------------
LEMMA InitInv == FsInit => FsInv
<1> SUFFICES ASSUME FsInit PROVE FsInv
  OBVIOUS
<1>1. Live = {} /\ kids = << >>
  BY DEF FsInit, Live
<1>2. ListInv
  BY <1>1 DEF ListInv, ListType, ListsMatchParents, ListsNameLiveNodes
<1>3. QED
  BY <1>2, InitDir DEF FsInv

LEMMA NextInv == FsInv /\ [FsNext]_fsVars => FsInv'
<1> SUFFICES ASSUME FsInv, [FsNext]_fsVars PROVE FsInv'
  OBVIOUS
<1>1. ASSUME NEW n \in Id, NEW p \in Id \cup {Root}, NEW t \in Title, FsCreate(n, p, t)
      PROVE  FsInv'
  BY <1>1, CreateDir, CreateLists DEF FsInv
<1>2. ASSUME NEW n \in Id, NEW t \in Title, FsRename(n, t) PROVE FsInv'
  <2>1. Live' = Live /\ kids' = kids /\ \A x \in Live : node'[x].parent = node[x].parent
    BY <1>2 DEF FsRename, FsInv, DirInv, DirType, NodeRecord, Live
  <2>2. QED
    BY <1>2, <2>1, RenameDir, SameLists DEF FsInv
<1>3. ASSUME NEW n \in Id, NEW m \in Meta, FsSetMeta(n, m) PROVE FsInv'
  <2> DEFINE record == [node[n] EXCEPT !.meta = m]
  <2>1. n \in Live /\ FsWriteNode(n, record, kids[n])
    BY <1>3 DEF FsSetMeta
  <2>2. record \in NodeRecord /\ record.parent = node[n].parent
    BY <2>1 DEF FsInv, DirInv, DirType, NodeRecord
  <2>3. Live' = Live /\ kids' = kids /\ \A x \in Live : node'[x].parent = node[x].parent
    BY <2>1, <2>2 DEF FsWriteNode, FsInv, DirInv, DirType, ListInv, ListType, Live
  <2> HIDE DEF record
  <2>4. QED
    BY <2>1, <2>2, <2>3, WriteNodeDir, SameLists DEF FsInv
<1>4. ASSUME NEW n \in Id, NEW p \in Id \cup {Root}, NEW pos \in Position, FsMove(n, p, pos)
      PROVE  FsInv'
  BY <1>4, MoveDir, MoveLists, DataAssumption DEF FsInv
<1>5. ASSUME NEW n \in Id, FsDelete(n) PROVE FsInv'
  BY <1>5, DeleteDir, DeleteLists DEF FsInv
<1>6. ASSUME NEW n \in Id, NEW c \in Canvas, FsWriteCanvas(n, c) PROVE FsInv'
  <2>1. Live' = Live /\ kids' = kids /\ \A x \in Live : node'[x].parent = node[x].parent
    BY <1>6 DEF FsWriteCanvas, Live
  <2>2. QED
    BY <1>6, <2>1, WriteCanvasDir, SameLists DEF FsInv
<1>7. CASE UNCHANGED fsVars
  BY <1>7 DEF fsVars, FsInv, DirInv, DirType, ParentIsDirectory, NoCycle, HomeOf,
              SiblingSlugsDistinct, ListInv, ListType, ListsMatchParents, ListsNameLiveNodes, Live
<1>8. QED
  BY <1>1, <1>2, <1>3, <1>4, <1>5, <1>6, <1>7 DEF FsNext

LEMMA InvHolds == FsSpec => []FsInv
<1>1. FsInit => FsInv
  BY InitInv
<1>2. FsInv /\ [FsNext]_fsVars => FsInv'
  BY NextInv
<1>3. QED
  BY <1>1, <1>2, PTL DEF FsSpec

(* Every directory keeps a node.json and a canvas.md, its parent directory   *)
(* exists, its name comes from a title, and children lists are well formed.  *)
THEOREM TypeCorrect == FsSpec => []FsTypeOK
<1>1. FsInv => FsTypeOK
  BY DEF FsInv, DirInv, DirType, ListInv, ListType, FsTypeOK
<1>2. QED
  BY <1>1, InvHolds, PTL

(* parent_id in node.json names the directory above: the two places the code *)
(* keeps a node's parent never come apart (create, move and write_node).     *)
THEOREM ParentsAreDirectories == FsSpec => []ParentIsDirectory
<1>1. FsInv => ParentIsDirectory
  BY DEF FsInv, DirInv
<1>2. QED
  BY <1>1, InvHolds, PTL

(* parent_id and children_ids, kept in two files, agree after every          *)
(* operation; in particular no list names a deleted node.                    *)
THEOREM ListsAreParents == FsSpec => [](ListsMatchParents /\ ListsNameLiveNodes)
<1>1. FsInv => ListsMatchParents /\ ListsNameLiveNodes
  BY DEF FsInv, ListInv
<1>2. QED
  BY <1>1, InvHolds, PTL

(* move_node never puts a directory below itself, by any sequence of moves.  *)
THEOREM ForestHasNoCycle == FsSpec => []NoCycle
<1>1. FsInv => NoCycle
  BY DEF FsInv, DirInv
<1>2. QED
  BY <1>1, InvHolds, PTL

(* _unique_slug keeps siblings in different directories: as many numbered    *)
(* names as there are ids are enough, so the search always finds a free one. *)
THEOREM SiblingsApart == FsSpec => []SiblingSlugsDistinct
<1>1. FsInv => SiblingSlugsDistinct
  BY DEF FsInv, DirInv
<1>2. QED
  BY <1>1, InvHolds, PTL

(* No list keeps the id of a deleted node: delete_node unlists the node it    *)
(* is asked for and takes the directories of all those below it.             *)
THEOREM ListsNameTheLiving == FsSpec => []ListsNameLiveNodes
<1>1. FsInv => ListsNameLiveNodes
  BY DEF FsInv, ListInv
<1>2. QED
  BY <1>1, InvHolds, PTL

LEMMA OrderStep ==
    ASSUME FsInv, FsNext
    PROVE  \E n \in Id : \A p \in Live \cap Live' : Without(kids[p], n) = Without(kids'[p], n)
<1>1. \A x \in Live : kids[x] \in Seq(Id) /\ Once(kids[x])
  BY DEF FsInv, ListInv, ListType
<1>2. ASSUME NEW n \in Id, NEW p \in Id \cup {Root}, NEW t \in Title, FsCreate(n, p, t)
      PROVE  \A x \in Live \cap Live' : Without(kids[x], n) = Without(kids'[x], n)
  <2>1. \A x \in Live \cap Live' :
           kids'[x] = IF x = p THEN Appended(kids[x], n) ELSE kids[x]
    BY <1>2 DEF FsCreate, FsInv, DirInv, DirType
  <2>2. QED
    BY <1>1, <2>1, WithoutAppended
<1>3. ASSUME NEW n \in Id, NEW t \in Title, FsRename(n, t)
      PROVE  \A x \in Live \cap Live' : Without(kids[x], n) = Without(kids'[x], n)
  BY <1>3 DEF FsRename
<1>4. ASSUME NEW n \in Id, NEW m \in Meta, FsSetMeta(n, m)
      PROVE  \A x \in Live \cap Live' : Without(kids[x], n) = Without(kids'[x], n)
  BY <1>4 DEF FsSetMeta, FsWriteNode, FsInv, ListInv, ListType
<1>5. ASSUME NEW n \in Id, NEW p \in Id \cup {Root}, NEW pos \in Position, FsMove(n, p, pos)
      PROVE  \A x \in Live \cap Live' : Without(kids[x], n) = Without(kids'[x], n)
  <2>1. \A x \in Live \cap Live' :
           kids'[x] = IF x = p THEN Inserted(kids[x], n, pos)
                      ELSE IF x = node[n].parent THEN Without(kids[x], n) ELSE kids[x]
    BY <1>5 DEF FsMove
  <2>2. pos \in Nat
    BY DataAssumption
  <2>3. \A x \in Live : /\ Without(Inserted(kids[x], n, pos), n) = Without(kids[x], n)
                        /\ Without(Without(kids[x], n), n) = Without(kids[x], n)
    BY <1>1, <2>2, WithoutInserted, WithoutTwice
  <2>4. QED
    BY <2>1, <2>3
<1>6. ASSUME NEW n \in Id, FsDelete(n)
      PROVE  \A x \in Live \cap Live' : Without(kids[x], n) = Without(kids'[x], n)
  <2>1. \A x \in Live \cap Live' :
           kids'[x] = IF x = node[n].parent THEN Without(kids[x], n) ELSE kids[x]
    BY <1>6 DEF FsDelete, Live
  <2>2. QED
    BY <1>1, <2>1, WithoutTwice
<1>7. ASSUME NEW n \in Id, NEW c \in Canvas, FsWriteCanvas(n, c)
      PROVE  \A x \in Live \cap Live' : Without(kids[x], n) = Without(kids'[x], n)
  BY <1>7 DEF FsWriteCanvas
<1>8. QED
  BY <1>2, <1>3, <1>4, <1>5, <1>6, <1>7 DEF FsNext

(* Every operation takes one child out of a list or puts one in; whatever     *)
(* position it asks for, the others stay in the order the user gave them.    *)
THEOREM ListsKeepOrder == FsSpec => OrderKept
<1>1. FsInv /\ [FsNext]_fsVars
      => [\E n \in Id : \A p \in Live \cap Live' : Without(kids[p], n) = Without(kids'[p], n)]_fsVars
  BY OrderStep
<1>2. QED
  BY <1>1, InvHolds, PTL DEF FsSpec, OrderKept

-----------------------------------------------------------------------------
(* The directory implements the abstract forest.                             *)
LEMMA DirectoryTreeIsBelow ==
    ASSUME DirInv, NEW n \in Live
    PROVE  DirectoryTree(n) = Abstract!Below(n)
<1>1. Subdirs = [x \in Live |-> {y \in Live : node[y].parent = x}]
  BY DEF DirInv, ParentIsDirectory, Subdirs
<1>2. QED
  <2>1. DirectoryTree(n) = Reach([x \in Live |-> {y \in Live : node[y].parent = x}], n)
    BY <1>1 DEF DirectoryTree
  <2>2. \A succ, r : Reach(succ, r) = Abstract!Reach(succ, r)
    BY DEF Reach, Abstract!Reach
  <2>3. Abstract!Below(n) = Abstract!Reach([x \in Live |-> {y \in Live : node[y].parent = x}], n)
    BY DEF Abstract!Below, Abstract!Nodes, Live
  <2>4. QED
    BY <2>1, <2>2, <2>3

LEMMA StepRefines == DirInv /\ [FsNext]_fsVars => [Abstract!TreeNext]_<<node, canvas, issued>>
<1> SUFFICES ASSUME DirInv, [FsNext]_fsVars PROVE [Abstract!TreeNext]_<<node, canvas, issued>>
  OBVIOUS
<1> USE DEF Abstract!Nodes, Live
<1>1. ASSUME NEW n \in Id, NEW p \in Id \cup {Root}, NEW t \in Title, FsCreate(n, p, t)
      PROVE  Abstract!TreeNext
  <2>1. Abstract!Add(n, p, t)
    BY <1>1 DEF FsCreate, Abstract!Add
  <2>2. QED
    BY <2>1 DEF Abstract!TreeNext
<1>2. ASSUME NEW n \in Id, NEW t \in Title, FsRename(n, t) PROVE Abstract!TreeNext
  <2>1. Abstract!Retitle(n, t)
    BY <1>2 DEF FsRename, Abstract!Retitle, Abstract!Change, DirInv, DirType
  <2>2. QED
    BY <2>1 DEF Abstract!TreeNext
<1>3. ASSUME NEW n \in Id, NEW m \in Meta, FsSetMeta(n, m) PROVE Abstract!TreeNext
  <2>1. Abstract!Annotate(n, m)
    BY <1>3 DEF FsSetMeta, FsWriteNode, Abstract!Annotate, Abstract!Change
  <2>2. QED
    BY <2>1 DEF Abstract!TreeNext
<1>4. ASSUME NEW n \in Id, NEW p \in Id \cup {Root}, NEW pos \in Position, FsMove(n, p, pos)
      PROVE  Abstract!TreeNext
  <2>1. DirectoryTree(n) = Abstract!Below(n)
    BY <1>4, DirectoryTreeIsBelow DEF FsMove
  <2>2. Abstract!Rehang(n, p)
    BY <1>4, <2>1 DEF FsMove, Abstract!Rehang, Abstract!Change, DirInv, DirType
  <2>3. QED
    BY <2>2 DEF Abstract!TreeNext
<1>5. ASSUME NEW n \in Id, FsDelete(n) PROVE Abstract!TreeNext
  <2>1. DirectoryTree(n) = Abstract!Below(n)
    BY <1>5, DirectoryTreeIsBelow DEF FsDelete
  <2>2. Abstract!Prune(n)
    BY <1>5, <2>1 DEF FsDelete, Abstract!Prune
  <2>3. QED
    BY <2>2 DEF Abstract!TreeNext
<1>6. ASSUME NEW n \in Id, NEW c \in Canvas, FsWriteCanvas(n, c) PROVE Abstract!TreeNext
  <2>1. Abstract!WritePage(n, c)
    BY <1>6 DEF FsWriteCanvas, Abstract!WritePage
  <2>2. QED
    BY <2>1 DEF Abstract!TreeNext
<1>7. CASE UNCHANGED fsVars
  BY <1>7 DEF fsVars
<1>8. QED
  BY <1>1, <1>2, <1>3, <1>4, <1>5, <1>6, <1>7 DEF FsNext

(* Every behaviour of the directory is one of the abstract forest: delete    *)
(* removes exactly what hangs below a node by its parent links, move refuses *)
(* exactly the moves that would make a circle of them.                       *)
THEOREM ImplementsWorkspaceTree == FsSpec => AbstractSpec
<1>1. FsInit => Abstract!TreeInit
  BY DEF FsInit, Abstract!TreeInit
<1>2. FsInv /\ [FsNext]_fsVars => [Abstract!TreeNext]_<<node, canvas, issued>>
  BY StepRefines DEF FsInv
<1>3. QED
  BY <1>1, <1>2, InvHolds, PTL DEF FsSpec, AbstractSpec, Abstract!TreeSpec, Abstract!treeVars
=============================================================================
