--------------------------- MODULE Workspace_proofs ---------------------------
(* What the repository keeps when it reads and writes back through the cache, *)
(* in every wiring, with any database failures, restarts and stuck requests.  *)
EXTENDS Workspace, LocalFilesystem_proofs

(* A metadata write takes the parent it writes from the cache: the directory  *)
(* invariants hold because no live node's cached entry is old, which in turn  *)
(* needs the ids of boot to be spent (a new node is not in the cache).        *)
CacheInv ==
    /\ DOMAIN kids = Live
    /\ boot \in [DOMAIN boot -> NodeRecord]
    /\ DOMAIN boot \subseteq issued
    /\ DOMAIN bootKids = DOMAIN boot
    /\ cached \subseteq DOMAIN boot
    /\ stuck \in BOOLEAN
    /\ WriteBackFresh

RepoInv == DirInv /\ CacheInv

-----------------------------------------------------------------------------
(* A walk starts at the node itself.                                         *)
LEMMA SubtreeSelf == ASSUME NEW lists, NEW r \in DOMAIN lists PROVE r \in Subtree(lists, r)
<1>1. DOMAIN ListedIn(lists) = DOMAIN lists
  BY DEF ListedIn
<1>2. QED
  BY <1>1, ReachSelf DEF Subtree

(* Whatever leaves the cache, and as long as the node written leaves it, the *)
(* entries that stay are those of unwritten nodes.                           *)
LEMMA CacheKept ==
    ASSUME CacheInv,
           issued \subseteq issued', boot' = boot, bootKids' = bootKids, cached' \subseteq cached,
           stuck' \in BOOLEAN, ~stuck' => ~stuck,
           DOMAIN kids' = Live',
           ~stuck' => \A x \in cached' \cap Live' : x \in Live /\ node'[x] = node[x]
    PROVE  CacheInv'
BY DEF CacheInv, WriteBackFresh

LEMMA RepoInit == Init => RepoInv
<1> SUFFICES ASSUME Init PROVE RepoInv
  OBVIOUS
<1>1. DirInv
  BY InitDir DEF Init
<1>2. CacheInv
  <2>1. DOMAIN kids = Live /\ DOMAIN boot = {} /\ DOMAIN bootKids = {} /\ cached = {} /\ stuck = FALSE
    BY DEF Init, FsInit, Live
  <2>2. boot \in [DOMAIN boot -> NodeRecord]
    BY DEF Init
  <2>3. QED
    BY <2>1, <2>2 DEF CacheInv, WriteBackFresh
<1>3. QED
  BY <1>1, <1>2 DEF RepoInv

LEMMA RepoCreate ==
    ASSUME RepoInv, NEW n \in Id, NEW p \in Id \cup {Root}, NEW t \in Title, FsCreate(n, p, t),
           boot' = boot, bootKids' = bootKids, cached' \subseteq cached, stuck' = stuck
    PROVE  RepoInv'
<1>1. DirInv'
  BY CreateDir DEF RepoInv
<1>2. /\ Live' = Live \cup {n} /\ n \notin issued /\ issued \subseteq issued'
      /\ DOMAIN kids' = Live'
      /\ \A x \in Live : node'[x] = node[x]
  BY DEF FsCreate, RepoInv, DirInv, DirType, Live
<1>3. n \notin cached
  BY <1>2 DEF RepoInv, CacheInv
<1>4. CacheInv'
  BY <1>2, <1>3, CacheKept DEF RepoInv, CacheInv
<1>5. QED
  BY <1>1, <1>4 DEF RepoInv

LEMMA RepoRename ==
    ASSUME RepoInv, NEW n \in Id, NEW t \in Title, FsRename(n, t),
           boot' = boot, bootKids' = bootKids, cached' \subseteq cached, stuck' = stuck,
           stuck \/ n \notin cached'
    PROVE  RepoInv'
<1>1. DirInv'
  BY RenameDir DEF RepoInv
<1>2. /\ Live' = Live /\ issued' = issued /\ kids' = kids
      /\ \A x \in Live \ {n} : node'[x] = node[x]
  BY DEF FsRename, RepoInv, DirInv, DirType, Live
<1>3. CacheInv'
  BY <1>2, CacheKept DEF RepoInv, CacheInv
<1>4. QED
  BY <1>1, <1>3 DEF RepoInv

LEMMA RepoMove ==
    ASSUME RepoInv, NEW n \in Id, NEW p \in Id \cup {Root}, NEW pos, FsMove(n, p, pos),
           boot' = boot, bootKids' = bootKids, cached' \subseteq cached,
           stuck' \in BOOLEAN, ~stuck' => ~stuck,
           stuck' \/ n \notin cached'
    PROVE  RepoInv'
<1>1. DirInv'
  BY MoveDir DEF RepoInv
<1>2. /\ Live' = Live /\ issued' = issued /\ DOMAIN kids' = Live
      /\ \A x \in Live \ {n} : node'[x] = node[x]
  BY DEF FsMove, RepoInv, DirInv, DirType, Live
<1>3. CacheInv'
  BY <1>2, CacheKept DEF RepoInv
<1>4. QED
  BY <1>1, <1>3 DEF RepoInv

LEMMA RepoUpdateMetadata ==
    ASSUME RepoInv, NEW n \in Id, NEW m \in Meta, UpdateMetadata(n, m)
    PROVE  RepoInv'
<1> DEFINE record == [LoadNode(n) EXCEPT !.meta = m]
           list == LoadKids(n)
<1>1. /\ FsWriteNode(n, record, list)
      /\ cached' = cached \ {n}
      /\ boot' = boot /\ bootKids' = bootKids /\ stuck' = stuck /\ ~stuck
  BY DEF UpdateMetadata, Invalidate
<1>2. n \in Live
  BY <1>1 DEF FsWriteNode
<1>3. LoadNode(n) = node[n] /\ node[n] \in NodeRecord
  BY <1>1, <1>2 DEF LoadNode, RepoInv, CacheInv, WriteBackFresh, DirInv, DirType
<1>4. record \in NodeRecord /\ record.parent = node[n].parent
  BY <1>3 DEF NodeRecord
<1> HIDE DEF record, list
<1>5. DirInv'
  BY <1>1, <1>4, WriteNodeDir DEF RepoInv
<1>6. /\ Live' = Live /\ issued' = issued /\ DOMAIN kids' = DOMAIN kids
      /\ \A x \in Live \ {n} : node'[x] = node[x]
  BY <1>1 DEF FsWriteNode, RepoInv, DirInv, DirType, Live
<1>7. CacheInv'
  BY <1>1, <1>6, CacheKept DEF RepoInv, CacheInv
<1>8. QED
  BY <1>5, <1>7 DEF RepoInv

LEMMA RepoDelete ==
    ASSUME RepoInv, NEW n \in Id, Delete(n)
    PROVE  RepoInv'
<1>1. CASE WalkEnds(WalkedLists(n, kids), n)
  <2>1. /\ FsDelete(n)
        /\ cached' \subseteq cached
        /\ boot' = boot /\ bootKids' = bootKids /\ stuck' = stuck
    BY <1>1 DEF Delete, Invalidate
  <2>2. DirInv'
    BY <2>1, DeleteDir DEF RepoInv
  <2>3. /\ Live' \subseteq Live /\ issued' = issued /\ DOMAIN kids' = Live'
        /\ \A x \in Live' : node'[x] = node[x]
    BY <2>1 DEF FsDelete, Live
  <2>4. CacheInv'
    BY <2>1, <2>3, CacheKept DEF RepoInv, CacheInv
  <2>5. QED
    BY <2>2, <2>4 DEF RepoInv
<1>2. CASE ~WalkEnds(WalkedLists(n, kids), n)
  <2>1. UNCHANGED <<fsVars, cacheVars>> /\ stuck' \in BOOLEAN /\ ~stuck
    BY <1>2 DEF Delete
  <2>2. DirInv'
    BY <2>1 DEF fsVars, RepoInv, DirInv, DirType, ParentIsDirectory, NoCycle, HomeOf,
                SiblingSlugsDistinct, Live
  <2>3. Live' = Live /\ issued' = issued /\ kids' = kids /\ node' = node
    BY <2>1 DEF fsVars, Live
  <2>4. CacheInv'
    BY <2>1, <2>3, CacheKept DEF cacheVars, RepoInv, CacheInv
  <2>5. QED
    BY <2>2, <2>4 DEF RepoInv
<1>3. QED
  BY <1>1, <1>2

LEMMA RepoRestart ==
    ASSUME RepoInv, NEW populates \in BOOLEAN, NEW rebuilds \in BOOLEAN, Restart(populates, rebuilds)
    PROVE  RepoInv'
<1>1. /\ boot' = IF loaded' THEN node ELSE << >>
      /\ bootKids' = IF loaded' THEN LoadedKids ELSE << >>
      /\ cached' = DOMAIN boot'
      /\ stuck' = FALSE
      /\ UNCHANGED fsVars
  BY DEF Restart
<1>2. DirInv'
  BY <1>1 DEF fsVars, RepoInv, DirInv, DirType, ParentIsDirectory, NoCycle, HomeOf,
              SiblingSlugsDistinct, Live
<1>3. Live' = Live /\ issued' = issued /\ kids' = kids /\ node' = node
  BY <1>1 DEF fsVars, Live
<1>4. CASE loaded'
  <2>1. boot' = node /\ bootKids' = LoadedKids /\ cached' = Live
    BY <1>1, <1>4 DEF Live
  <2>2. DOMAIN LoadedKids = Live
    BY DEF LoadedKids
  <2>3. QED
    BY <1>1, <1>2, <1>3, <2>1, <2>2 DEF RepoInv, CacheInv, DirInv, DirType, WriteBackFresh, Live
<1>5. CASE ~loaded'
  <2>1. DOMAIN boot' = {} /\ DOMAIN bootKids' = {} /\ cached' = {} /\ boot' \in [{} -> NodeRecord]
    BY <1>1, <1>5
  <2>2. QED
    BY <1>1, <1>2, <1>3, <2>1 DEF RepoInv, CacheInv, WriteBackFresh
<1>6. QED
  BY <1>4, <1>5

(* Of the operations only a metadata write does something to the disk that   *)
(* the directory alone would not do: it writes back the lists of the cache.  *)
LEMMA RepoStep ==
    ASSUME RepoInv, Next
    PROVE  RepoInv' /\ (FsNext \/ UNCHANGED fsVars \/ \E n \in Id, m \in Meta : UpdateMetadata(n, m))
<1>1. ASSUME NEW n \in Id, NEW p \in Id \cup {Root}, NEW t \in Title, Create(n, p, t)
      PROVE  RepoInv' /\ FsNext
  <2>1. FsCreate(n, p, t)
        /\ boot' = boot /\ bootKids' = bootKids /\ cached' \subseteq cached /\ stuck' = stuck
    BY <1>1 DEF Create, Invalidate
  <2>2. QED
    BY <2>1, RepoCreate DEF FsNext
<1>2. ASSUME NEW n \in Id, NEW t \in Title, Rename(n, t) PROVE RepoInv' /\ FsNext
  <2>1. FsRename(n, t) /\ boot' = boot /\ bootKids' = bootKids /\ cached' = cached \ {n} /\ stuck' = stuck
    BY <1>2 DEF Rename, Invalidate
  <2>2. QED
    BY <2>1, RepoRename DEF FsNext
<1>3. ASSUME NEW n \in Id, NEW p \in Id \cup {Root}, NEW pos \in Position, Move(n, p, pos)
      PROVE  RepoInv' /\ FsNext
  <2> DEFINE walked == WalkedLists(n, kids')
  <2>1. FsMove(n, p, pos) /\ ~stuck /\ n \in Live
    BY <1>3 DEF Move, FsMove
  <2>2. CASE WalkEnds(walked, n)
    <3>1. /\ boot' = boot /\ bootKids' = bootKids /\ stuck' = stuck
          /\ cached' = cached \ Evicted(n, kids')
      BY <1>3, <2>2 DEF Move, Invalidate
    <3>2. n \in DOMAIN walked
      BY <2>1 DEF WalkedLists, FsMove, RepoInv, CacheInv
    <3>3. n \notin cached'
      BY <3>1, <3>2, SubtreeSelf DEF Evicted
    <3>4. QED
      BY <2>1, <3>1, <3>3, RepoMove DEF FsNext, RepoInv, CacheInv
  <2>3. CASE ~WalkEnds(walked, n)
    <3>1. boot' = boot /\ bootKids' = bootKids /\ cached' = cached /\ stuck' = (n \in DOMAIN boot)
      BY <1>3, <2>3 DEF Move, cacheVars
    <3>2. stuck' \/ n \notin cached'
      BY <3>1 DEF RepoInv, CacheInv
    <3>3. QED
      BY <2>1, <3>1, <3>2, RepoMove DEF FsNext
  <2>4. QED
    BY <2>2, <2>3
<1>4. ASSUME NEW n \in Id, Delete(n) PROVE RepoInv' /\ (FsNext \/ UNCHANGED fsVars)
  <2>1. RepoInv'
    BY <1>4, RepoDelete
  <2>2. FsDelete(n) \/ UNCHANGED fsVars
    BY <1>4 DEF Delete
  <2>3. QED
    BY <2>1, <2>2 DEF FsNext
<1>5. ASSUME NEW n \in Id, NEW c \in Canvas, WriteCanvas(n, c) PROVE RepoInv' /\ FsNext
  <2>1. FsWriteCanvas(n, c) /\ UNCHANGED cacheVars /\ stuck' = stuck
    BY <1>5 DEF WriteCanvas
  <2>2. DirInv'
    BY <2>1, WriteCanvasDir DEF RepoInv
  <2>3. Live' = Live /\ issued' = issued /\ kids' = kids /\ node' = node
    BY <2>1 DEF FsWriteCanvas, Live
  <2>4. CacheInv'
    BY <2>1, <2>3, CacheKept DEF cacheVars, RepoInv, CacheInv
  <2>5. QED
    BY <2>1, <2>2, <2>4 DEF RepoInv, FsNext
<1>6. ASSUME BlockedRequest PROVE RepoInv' /\ FsNext
  <2>1. stuck /\ stuck' = stuck /\ boot' = boot /\ bootKids' = bootKids /\ cached' = cached
    BY <1>6 DEF BlockedRequest, cacheVars
  <2>2. CASE \E n \in Id, p \in Id \cup {Root}, t \in Title : FsCreate(n, p, t)
    BY <2>1, <2>2, RepoCreate DEF FsNext
  <2>3. CASE \E n \in Id, t \in Title : FsRename(n, t)
    BY <2>1, <2>3, RepoRename DEF FsNext
  <2>4. CASE \E n \in Id, p \in Id \cup {Root}, pos \in Position : FsMove(n, p, pos)
    BY <2>1, <2>4, RepoMove DEF FsNext
  <2>5. QED
    BY <1>6, <2>2, <2>3, <2>4 DEF BlockedRequest
<1>7. ASSUME NEW populates \in BOOLEAN, NEW rebuilds \in BOOLEAN, Restart(populates, rebuilds)
      PROVE  RepoInv' /\ UNCHANGED fsVars
  BY <1>7, RepoRestart DEF Restart
<1>8. ASSUME NEW n \in Id, NEW m \in Meta, UpdateMetadata(n, m) PROVE RepoInv'
  BY <1>8, RepoUpdateMetadata
<1>9. QED
  BY <1>1, <1>2, <1>3, <1>4, <1>5, <1>6, <1>7, <1>8 DEF Next

LEMMA RepoStutter == RepoInv /\ UNCHANGED vars => RepoInv'
<1> SUFFICES ASSUME RepoInv, UNCHANGED vars PROVE RepoInv'
  OBVIOUS
<1>1. UNCHANGED <<fsVars, cacheVars, stuck>>
  BY DEF vars, fsVars, cacheVars
<1>2. DirInv'
  BY <1>1 DEF fsVars, RepoInv, DirInv, DirType, ParentIsDirectory, NoCycle, HomeOf,
              SiblingSlugsDistinct, Live
<1>3. CacheInv'
  BY <1>1 DEF fsVars, cacheVars, RepoInv, CacheInv, WriteBackFresh, Live
<1>4. QED
  BY <1>2, <1>3 DEF RepoInv

LEMMA RepoHolds == Spec => []RepoInv
<1>1. Init => RepoInv
  BY RepoInit
<1>2. RepoInv /\ [Next]_vars => RepoInv'
  BY RepoStep, RepoStutter
<1>3. QED
  BY <1>1, <1>2, PTL DEF Spec

-----------------------------------------------------------------------------
(* Nothing update_metadata writes back from the cache is older than what it  *)
(* overwrites: title, parent and metadata of a live node in the cache are    *)
(* those on disk as long as requests still get through.                      *)
THEOREM CachedWriteBackIsFresh == Spec => []WriteBackFresh
<1>1. RepoInv => WriteBackFresh
  BY DEF RepoInv, CacheInv
<1>2. QED
  BY <1>1, RepoHolds, PTL

(* With the cache between, parent_id still names the directory above, and    *)
(* directories never form a circle.                                          *)
THEOREM RepositoryKeepsParents == Spec => [](ParentIsDirectory /\ NoCycle)
<1>1. RepoInv => ParentIsDirectory /\ NoCycle
  BY DEF RepoInv, DirInv
<1>2. QED
  BY <1>1, RepoHolds, PTL

-----------------------------------------------------------------------------
(* CacheFresh does not survive a delete by itself: it must be known that the  *)
(* directories below n hold no cached node that the walk over the lists of    *)
(* boot misses. They do not, because above a cached node nothing has moved:   *)
(* its chain of parents in boot is its chain on disk.                         *)
Chain(x) == Reach(AboveIn(boot), x)

ChainUnmoved(x) == \A a \in Chain(x) : a \in Live /\ node[a].parent = boot[a].parent

ChainInv ==
    /\ \A x \in DOMAIN boot : boot[x].parent \in DOMAIN boot \cup {Root}
    /\ BootListsSound => ~stuck /\ \A x \in cached : ChainUnmoved(x)

LEMMA ChainFacts ==
    ASSUME RepoInv, ChainInv, NEW x \in cached
    PROVE  /\ x \in Chain(x)
           /\ Chain(x) \subseteq DOMAIN boot
           /\ \A a \in Chain(x) : boot[a].parent # Root => boot[a].parent \in Chain(x)
<1>1. DOMAIN AboveIn(boot) = DOMAIN boot
      /\ \A a \in DOMAIN boot : AboveIn(boot)[a] = {boot[a].parent} \cap DOMAIN boot
  BY DEF AboveIn
<1>2. x \in DOMAIN boot
  BY DEF RepoInv, CacheInv
<1>3. x \in Chain(x) /\ Chain(x) \subseteq DOMAIN boot
  BY <1>1, <1>2, ReachSelf, ReachWithin DEF Chain
<1>4. ASSUME NEW a \in Chain(x), boot[a].parent # Root PROVE boot[a].parent \in Chain(x)
  <2>1. boot[a].parent \in DOMAIN boot
    BY <1>3, <1>4 DEF ChainInv
  <2>2. boot[a].parent \in AboveIn(boot)[a]
    BY <1>1, <1>3, <2>1
  <2>3. QED
    BY <1>1, <2>1, <2>2, ReachClosed DEF Chain
<1>5. QED
  BY <1>3, <1>4

(* With sound lists a walk from n finds every node that has n above it.       *)
LEMMA WalkFindsBelow ==
    ASSUME RepoInv, ChainInv, BootListsSound, NEW x \in cached, NEW n \in Chain(x)
    PROVE  x \in Subtree(bootKids, n)
<1> DEFINE lists == ListedIn(bootKids)
           S == {a \in DOMAIN boot : x \in Reach(lists, a)}
<1>1. DOMAIN lists = DOMAIN boot
      /\ \A a \in DOMAIN boot : lists[a] = ToSet(bootKids[a]) \cap DOMAIN boot
  BY DEF ListedIn, RepoInv, CacheInv
<1>2. x \in S
  BY <1>1, ReachSelf DEF RepoInv, CacheInv
<1>3. \A a \in S : AboveIn(boot)[a] \subseteq S
  <2>1. SUFFICES ASSUME NEW a \in S, NEW p \in AboveIn(boot)[a] PROVE p \in S
    OBVIOUS
  <2>2. p \in DOMAIN boot /\ boot[a].parent = p
    BY DEF AboveIn
  <2>3. p # Root
    BY <2>2, IdAssumption DEF RepoInv, CacheInv, DirInv, DirType
  <2>4. a \in lists[p]
    BY <1>1, <2>2, <2>3 DEF BootListsSound
  <2>5. a \in Reach(lists, p)
    BY <1>1, <2>2, <2>4, ReachSelf, ReachClosed
  <2>6. Reach(lists, a) \subseteq Reach(lists, p)
    BY <1>1, <2>5, ReachTransitive
  <2>7. QED
    BY <2>2, <2>6
<1>4. S \in SUBSET DOMAIN AboveIn(boot)
  BY DEF AboveIn
<1> HIDE DEF S, lists
<1>5. Chain(x) \subseteq S
  BY <1>2, <1>3, <1>4, ReachLeast DEF Chain
<1>6. QED
  BY <1>5 DEF S, lists, Subtree

(* So what is still cached after a move or a delete of n is not below n, in   *)
(* boot or, as its chain is unmoved, on disk.                                 *)
LEMMA NotBelowEvicted ==
    ASSUME RepoInv, ChainInv, BootListsSound, NEW n \in Live, NEW lists,
           NEW x \in cached, x \notin Evicted(n, lists)
    PROVE  n \notin Chain(x) /\ Chain(x) \cap DirectoryTree(n) = {}
<1>1. n \notin Chain(x)
  BY ChainFacts, WalkFindsBelow DEF Evicted, WalkedLists
<1>2. Chain(x) \cap DirectoryTree(n) = {}
  <2> DEFINE S == Chain(x) \cap DirectoryTree(n)
  <2>1. SUFFICES ASSUME S # {} PROVE FALSE
    OBVIOUS
  <2>2. DOMAIN HomeOf = Live /\ \A b \in Live : HomeOf[b] = place[b].home
    BY DEF HomeOf
  <2>3. S \in SUBSET Live
    BY DirectoryTreeFacts DEF RepoInv, DirInv
  <2>4. PICK b \in S : HomeOf[b] \notin S
    BY <2>1, <2>2, <2>3 DEF RepoInv, DirInv, NoCycle, Rooted
  <2>5. b # n /\ place[b].home \in DirectoryTree(n) /\ place[b].home \in Live
    BY <1>1, DirectoryTreeFacts DEF RepoInv, DirInv
  <2>6. boot[b].parent = place[b].home
    BY <2>3 DEF ChainInv, ChainUnmoved, RepoInv, DirInv, ParentIsDirectory
  <2>7. place[b].home # Root
    BY <2>5, IdAssumption DEF RepoInv, DirInv, DirType
  <2>8. place[b].home \in Chain(x)
    BY <2>6, <2>7, ChainFacts
  <2>9. QED
    BY <2>2, <2>3, <2>4, <2>5, <2>8
<1>3. QED
  BY <1>1, <1>2

LEMMA ChainKept ==
    ASSUME ChainInv, boot' = boot, bootKids' = bootKids, cached' \subseteq cached,
           BootListsSound => ~stuck',
           BootListsSound => \A x \in cached' : \A a \in Chain(x) :
               a \in Live => a \in Live' /\ node'[a].parent = node[a].parent
    PROVE  ChainInv'
<1>1. BootListsSound' <=> BootListsSound
  BY DEF BootListsSound
<1>2. \A x : Chain(x)' = Chain(x)
  BY DEF Chain
<1>3. QED
  BY <1>1, <1>2 DEF ChainInv, ChainUnmoved

LEMMA ChainMove ==
    ASSUME RepoInv, ChainInv, NEW n \in Id, NEW p \in Id \cup {Root}, NEW pos \in Position,
           Move(n, p, pos)
    PROVE  ChainInv'
<1>1. FsMove(n, p, pos) /\ ~stuck /\ n \in Live
  BY DEF Move, FsMove
<1>2. Live' = Live /\ \A a \in Live \ {n} : node'[a] = node[a]
  BY <1>1 DEF FsMove, RepoInv, DirInv, DirType, Live
<1>3. boot' = boot /\ bootKids' = bootKids /\ cached' \subseteq cached
  BY DEF Move, Invalidate, cacheVars
<1>4. ASSUME BootListsSound
      PROVE  ~stuck' /\ \A x \in cached' : n \notin Chain(x)
  <2>1. CASE WalkEnds(WalkedLists(n, kids'), n)
    <3>1. cached' = cached \ Evicted(n, kids') /\ stuck' = stuck
      BY <2>1 DEF Move, Invalidate
    <3>2. QED
      BY <1>1, <1>4, <3>1, NotBelowEvicted
  <2>2. CASE ~WalkEnds(WalkedLists(n, kids'), n)
    <3>1. n \notin DOMAIN boot
      BY <1>4, <2>2 DEF WalkedLists, BootListsSound
    <3>2. stuck' = (n \in DOMAIN boot) /\ cached' = cached
      BY <2>2 DEF Move, cacheVars
    <3>3. QED
      BY <3>1, <3>2, ChainFacts
  <2>3. QED
    BY <2>1, <2>2
<1>5. QED
  BY <1>2, <1>3, <1>4, ChainKept

LEMMA ChainDelete ==
    ASSUME RepoInv, ChainInv, NEW n \in Id, Delete(n)
    PROVE  ChainInv'
<1>1. ~stuck
  BY DEF Delete
<1>2. CASE WalkEnds(WalkedLists(n, kids), n)
  <2>1. /\ FsDelete(n) /\ stuck' = stuck /\ n \in Live
        /\ cached' = cached \ Evicted(n, kids) /\ boot' = boot /\ bootKids' = bootKids
    BY <1>2 DEF Delete, Invalidate, FsDelete
  <2>2. \A a \in Live \ DirectoryTree(n) : a \in Live' /\ node'[a] = node[a]
    BY <2>1 DEF FsDelete, Live
  <2>3. BootListsSound => \A x \in cached' : Chain(x) \cap DirectoryTree(n) = {}
    BY <1>1, <2>1, NotBelowEvicted
  <2>4. QED
    BY <1>1, <2>1, <2>2, <2>3, ChainKept
<1>3. CASE ~WalkEnds(WalkedLists(n, kids), n)
  <2>1. stuck' = (n \in DOMAIN boot) /\ UNCHANGED <<fsVars, cacheVars>>
    BY <1>3 DEF Delete
  <2>2. BootListsSound => n \notin DOMAIN boot
    BY <1>3 DEF WalkedLists, BootListsSound
  <2>3. Live' = Live /\ node' = node /\ boot' = boot /\ bootKids' = bootKids /\ cached' = cached
    BY <2>1 DEF fsVars, cacheVars, Live
  <2>4. QED
    BY <2>1, <2>2, <2>3, ChainKept
<1>4. QED
  BY <1>2, <1>3

LEMMA ChainRestart ==
    ASSUME RepoInv, NEW populates \in BOOLEAN, NEW rebuilds \in BOOLEAN, Restart(populates, rebuilds)
    PROVE  ChainInv'
<1>1. /\ boot' = IF loaded' THEN node ELSE << >>
      /\ cached' = DOMAIN boot'
      /\ stuck' = FALSE
      /\ UNCHANGED fsVars
  BY DEF Restart
<1>2. Live' = Live /\ node' = node
  BY <1>1 DEF fsVars, Live
<1>3. CASE loaded'
  <2>1. boot' = node
    BY <1>1, <1>3
  <2>2. \A x \in Live : node[x].parent \in Live \cup {Root}
    BY DEF RepoInv, DirInv, DirType, ParentIsDirectory
  <2>3. \A x : Chain(x)' \subseteq DOMAIN boot'
    <3>1. DOMAIN AboveIn(boot)' = DOMAIN boot'
      BY DEF AboveIn
    <3>2. QED
      BY <3>1 DEF Chain, Reach
  <2>4. QED
    BY <1>1, <1>2, <2>1, <2>2, <2>3 DEF ChainInv, ChainUnmoved, Live
<1>4. CASE ~loaded'
  BY <1>1, <1>4 DEF ChainInv
<1>5. QED
  BY <1>3, <1>4

LEMMA ChainStep == RepoInv /\ ChainInv /\ [Next]_vars => ChainInv'
<1> SUFFICES ASSUME RepoInv, ChainInv, [Next]_vars PROVE ChainInv'
  OBVIOUS
<1>1. ASSUME NEW n \in Id, NEW p \in Id \cup {Root}, NEW t \in Title, Create(n, p, t) PROVE ChainInv'
  <2>1. /\ ~stuck /\ stuck' = stuck
        /\ boot' = boot /\ bootKids' = bootKids /\ cached' \subseteq cached
        /\ FsCreate(n, p, t)
    BY <1>1 DEF Create, Invalidate
  <2>2. \A a \in Live : a \in Live' /\ node'[a] = node[a]
    BY <2>1 DEF FsCreate, Live, RepoInv, DirInv, DirType
  <2>3. QED
    BY <2>1, <2>2, ChainKept
<1>2. ASSUME NEW n \in Id, NEW t \in Title, Rename(n, t) PROVE ChainInv'
  <2>1. /\ ~stuck /\ stuck' = stuck
        /\ boot' = boot /\ bootKids' = bootKids /\ cached' \subseteq cached
        /\ FsRename(n, t)
    BY <1>2 DEF Rename, Invalidate
  <2>2. \A a \in Live : a \in Live' /\ node'[a].parent = node[a].parent
    BY <2>1 DEF FsRename, Live, RepoInv, DirInv, DirType, NodeRecord
  <2>3. QED
    BY <2>1, <2>2, ChainKept
<1>3. ASSUME NEW n \in Id, NEW m \in Meta, UpdateMetadata(n, m) PROVE ChainInv'
  <2>1. /\ ~stuck /\ stuck' = stuck /\ n \in Live
        /\ boot' = boot /\ bootKids' = bootKids /\ cached' \subseteq cached
        /\ node' = [node EXCEPT ![n] = [LoadNode(n) EXCEPT !.meta = m]]
    BY <1>3 DEF UpdateMetadata, Invalidate, FsWriteNode
  <2>2. LoadNode(n) = node[n]
    BY <2>1 DEF LoadNode, RepoInv, CacheInv, WriteBackFresh
  <2>3. \A a \in Live : a \in Live' /\ node'[a].parent = node[a].parent
    BY <2>1, <2>2 DEF Live, RepoInv, DirInv, DirType, NodeRecord
  <2>4. QED
    BY <2>1, <2>3, ChainKept
<1>4. ASSUME NEW n \in Id, NEW p \in Id \cup {Root}, NEW pos \in Position, Move(n, p, pos) PROVE ChainInv'
  BY <1>4, ChainMove
<1>5. ASSUME NEW n \in Id, Delete(n) PROVE ChainInv'
  BY <1>5, ChainDelete
<1>6. ASSUME NEW n \in Id, NEW c \in Canvas, WriteCanvas(n, c) PROVE ChainInv'
  <2>1. /\ stuck' = stuck /\ node' = node /\ Live' = Live
        /\ boot' = boot /\ bootKids' = bootKids /\ cached' = cached
    BY <1>6 DEF WriteCanvas, FsWriteCanvas, cacheVars, Live
  <2>2. QED
    BY <2>1, ChainKept DEF ChainInv
<1>7. ASSUME BlockedRequest PROVE ChainInv'
  <2>1. stuck /\ stuck' = stuck /\ boot' = boot /\ bootKids' = bootKids /\ cached' = cached
    BY <1>7 DEF BlockedRequest, cacheVars
  <2>2. ~BootListsSound
    BY <2>1 DEF ChainInv
  <2>3. QED
    BY <2>1, <2>2, ChainKept
<1>8. ASSUME NEW populates \in BOOLEAN, NEW rebuilds \in BOOLEAN, Restart(populates, rebuilds)
      PROVE  ChainInv'
  BY <1>8, ChainRestart
<1>9. CASE UNCHANGED vars
  <2>1. /\ stuck' = stuck /\ node' = node /\ Live' = Live
        /\ boot' = boot /\ bootKids' = bootKids /\ cached' = cached
    BY <1>9 DEF vars, Live
  <2>2. QED
    BY <2>1, ChainKept DEF ChainInv
<1>10. QED
  BY <1>1, <1>2, <1>3, <1>4, <1>5, <1>6, <1>7, <1>8, <1>9 DEF Next

(* An entry that is still in the cache is that of a live node, and current,   *)
(* if the lists the boot read were sound: no move or delete anywhere above    *)
(* the node gets past the eviction, in any wiring and under any failures.     *)
THEOREM CacheAlwaysFresh == Spec => []CacheFresh
<1>1. Init => ChainInv
  BY DEF Init, ChainInv
<1>2. RepoInv /\ ChainInv => CacheFresh
  <2> SUFFICES ASSUME RepoInv, ChainInv, BootListsSound, NEW x \in cached
               PROVE  x \in Live /\ boot[x] = node[x]
    BY DEF CacheFresh
  <2>1. x \in Live
    BY ChainFacts DEF ChainInv, ChainUnmoved
  <2>2. QED
    BY <2>1 DEF ChainInv, RepoInv, CacheInv, WriteBackFresh
<1>3. QED
  BY <1>1, <1>2, ChainStep, RepoHolds, PTL DEF Spec

-----------------------------------------------------------------------------
LEMMA RepoStepRefines == RepoInv /\ [Next]_vars => [Abstract!TreeNext]_<<node, canvas, issued>>
<1> SUFFICES ASSUME RepoInv, [Next]_vars PROVE [Abstract!TreeNext]_<<node, canvas, issued>>
  OBVIOUS
<1>1. CASE [FsNext]_fsVars
  BY <1>1, StepRefines DEF RepoInv
<1>2. ASSUME NEW n \in Id, NEW m \in Meta, UpdateMetadata(n, m) PROVE Abstract!TreeNext
  <2>1. /\ n \in Live /\ LoadNode(n) = node[n]
        /\ FsWriteNode(n, [LoadNode(n) EXCEPT !.meta = m], LoadKids(n))
    BY <1>2 DEF UpdateMetadata, FsWriteNode, LoadNode, RepoInv, CacheInv, WriteBackFresh
  <2>2. Abstract!Annotate(n, m)
    BY <2>1 DEF FsWriteNode, Abstract!Annotate, Abstract!Change, Abstract!Nodes, Live
  <2>3. QED
    BY <2>2 DEF Abstract!TreeNext
<1>3. CASE UNCHANGED vars
  BY <1>3 DEF vars
<1>4. QED
  BY <1>1, <1>2, <1>3, RepoStep

(* The whole repository, cache, index and failures included, implements the  *)
(* abstract forest: what the disk holds of nodes and canvases is what it      *)
(* would hold without the cache.                                             *)
THEOREM RepositoryImplementsTree == Spec => AbstractSpec
<1>1. Init => Abstract!TreeInit
  BY DEF Init, FsInit, Abstract!TreeInit
<1>2. RepoInv /\ [Next]_vars => [Abstract!TreeNext]_<<node, canvas, issued>>
  BY RepoStepRefines
<1>3. QED
  BY <1>1, <1>2, RepoHolds, PTL DEF Spec, AbstractSpec, Abstract!TreeSpec, Abstract!treeVars

-----------------------------------------------------------------------------
(* Types. A row is written with the path the node's directory has after the  *)
(* request, and a path is built up from the directories above; the Story is  *)
(* one of the nodes of the tree that is asked, or none.                      *)
LEMMA PathsTyped == DirType /\ NoCycle => \A n \in Live : Paths[n] \in Seq(Slugs)
<1> SUFFICES ASSUME DirType, NoCycle PROVE \A n \in Live : Paths[n] \in Seq(Slugs)
  OBVIOUS
<1> DEFINE X == Seq(Slugs)
           first == [x \in Live |-> <<place[x].slug>>]
           ext == [x \in Live |-> [s \in X |-> Append(s, place[x].slug)]]
           Over(f) == [x \in Live |-> IF place[x].home = Root THEN <<place[x].slug>>
                                      ELSE Append(f[place[x].home], place[x].slug)]
           path == CHOOSE f : f = Over(f)
<1>1. Paths = path
  BY DEF Paths
<1>2. /\ DOMAIN HomeOf = Live /\ \A x \in Live : HomeOf[x] = place[x].home
      /\ Rooted(HomeOf) /\ Root \notin Live
      /\ \A x \in Live : place[x].home \in Live \cup {Root} /\ place[x].slug \in Slugs
  BY IdAssumption DEF HomeOf, NoCycle, DirType
<1>3. first \in [Live -> X] /\ ext \in [Live -> [X -> X]]
  <2>1. \A x \in Live : <<place[x].slug>> \in X /\ \A s \in X : Append(s, place[x].slug) \in X
    BY <1>2
  <2> HIDE DEF X
  <2>2. QED
    BY <2>1
<1>4. PICK f : /\ f \in [Live -> X]
               /\ \A x \in Live : f[x] = IF HomeOf[x] = Root THEN first[x] ELSE ext[x][f[HomeOf[x]]]
  <2> HIDE DEF first, ext, X
  <2>1. /\ Root \notin DOMAIN HomeOf /\ \A x \in DOMAIN HomeOf : HomeOf[x] \in DOMAIN HomeOf \cup {Root}
        /\ first \in [DOMAIN HomeOf -> X] /\ ext \in [DOMAIN HomeOf -> [X -> X]]
    BY <1>2, <1>3
  <2>2. \E f : Downwards(HomeOf, Root, X, first, ext, f)
    BY <1>2, <2>1, BuiltFromRoot
  <2>3. QED
    BY <1>2, <2>2 DEF Downwards
<1>5. ASSUME NEW x \in Live
      PROVE  f[x] = IF place[x].home = Root THEN <<place[x].slug>>
                    ELSE Append(f[place[x].home], place[x].slug)
  <2>1. CASE place[x].home = Root
    BY <1>2, <1>4, <2>1
  <2>2. CASE place[x].home # Root
    <3>1. f[place[x].home] \in X /\ f[x] = ext[x][f[place[x].home]]
      <4> HIDE DEF ext, X, first
      <4>1. QED
        BY <1>2, <1>4, <2>2
    <3>2. QED
      BY <2>2, <3>1
  <2>3. QED
    BY <2>1, <2>2
<1>6. path = Over(path)
  <2>1. f = Over(f)
    BY <1>4, <1>5
  <2> HIDE DEF Over
  <2>2. QED
    BY <2>1, Zenon
<1> HIDE DEF path
<1>7. ASSUME NEW x \in Live
      PROVE  path[x] = IF place[x].home = Root THEN <<place[x].slug>>
                       ELSE Append(path[place[x].home], place[x].slug)
  <2>1. path[x] = Over(path)[x]
    <3> HIDE DEF Over
    <3>1. QED
      BY <1>6
  <2>2. QED
    BY <2>1
<1>8. \A x \in Live : path[x] \in X
  <2> DEFINE B == {x \in Live : path[x] \notin X}
  <2>1. SUFFICES ASSUME B # {} PROVE FALSE
    OBVIOUS
  <2>2. PICK x \in B : HomeOf[x] \notin B
    BY <1>2, <2>1 DEF Rooted
  <2>3. place[x].home = Root \/ path[place[x].home] \in X
    BY <1>2, <2>2
  <2>4. path[x] \in X
    <3>1. <<place[x].slug>> \in X /\ \A s \in X : Append(s, place[x].slug) \in X
      BY <1>2
    <3> HIDE DEF X
    <3>2. QED
      BY <1>7, <2>2, <2>3, <3>1
  <2>5. QED
    BY <2>2, <2>4
<1>9. QED
  BY <1>1, <1>8

LEMMA PathsTypedAfter == (DirType /\ NoCycle)' => \A n \in Live' : Paths'[n] \in Seq(Slugs)
<1>1. (DirType /\ NoCycle => \A n \in Live : Paths[n] \in Seq(Slugs))'
  BY PathsTyped, PTL
<1>2. Slugs' = Slugs
  BY DEF Slugs, Suffix
<1>3. QED
  BY <1>1, <1>2

(* Every operation leaves lists of ids that name a child once, also when a   *)
(* list of the cache is written back: it was read from such a one.           *)
LEMMA FsNextLists ==
    ASSUME DirInv, ListType, FsNext
    PROVE  ListType'
<1>1. /\ DOMAIN kids = Live /\ Live \subseteq Id
      /\ \A x \in Live : kids[x] \in Seq(Id) /\ Once(kids[x])
  BY DEF DirInv, DirType, ListType
<1>2. ASSUME DOMAIN kids' = Live', kids' = [x \in Live' |-> kids'[x]],
             \A x \in Live' : kids'[x] \in Seq(Id) /\ Once(kids'[x])
      PROVE  ListType'
  BY <1>2 DEF ListType
<1>3. ASSUME NEW n \in Id, NEW p \in Id \cup {Root}, NEW t \in Title, FsCreate(n, p, t)
      PROVE  ListType'
  <2>1. /\ Live' = Live \cup {n}
        /\ kids' = [x \in Live' |-> IF x = n THEN << >> ELSE IF x = p THEN Appended(kids[x], n) ELSE kids[x]]
    BY <1>3 DEF FsCreate, Live
  <2>2. Once(<< >>) /\ << >> \in Seq(Id)
    BY DEF Once, IsInjective
  <2>3. \A x \in Live : Appended(kids[x], n) \in Seq(Id) /\ Once(Appended(kids[x], n))
    BY <1>1, AppendedList
  <2>4. \A x \in Live' : kids'[x] \in Seq(Id) /\ Once(kids'[x])
    BY <1>1, <2>1, <2>2, <2>3
  <2>5. QED
    BY <1>2, <2>1, <2>4
<1>4. ASSUME NEW n \in Id, NEW t \in Title, FsRename(n, t) PROVE ListType'
  <2>1. Live' = Live /\ kids' = kids
    BY <1>4 DEF FsRename, Live, DirInv, DirType
  <2>2. QED
    BY <2>1 DEF ListType
<1>5. ASSUME NEW n \in Id, NEW m \in Meta, FsSetMeta(n, m) PROVE ListType'
  <2>1. Live' = Live /\ kids' = [kids EXCEPT ![n] = kids[n]] /\ n \in Live
    BY <1>5 DEF FsSetMeta, FsWriteNode, Live, DirInv, DirType
  <2>2. kids' = kids
    BY <2>1 DEF ListType
  <2>3. QED
    BY <2>1, <2>2 DEF ListType
<1>6. ASSUME NEW n \in Id, NEW p \in Id \cup {Root}, NEW pos \in Position, FsMove(n, p, pos)
      PROVE  ListType'
  <2>1. /\ Live' = Live
        /\ kids' = [x \in Live' |-> IF x = p THEN Inserted(kids[x], n, pos)
                                    ELSE IF x = node[n].parent THEN Without(kids[x], n) ELSE kids[x]]
    BY <1>6 DEF FsMove, Live, DirInv, DirType
  <2>2. \A x \in Live : /\ Inserted(kids[x], n, pos) \in Seq(Id) /\ Once(Inserted(kids[x], n, pos))
                        /\ Without(kids[x], n) \in Seq(Id) /\ Once(Without(kids[x], n))
    BY <1>1, InsertedList, WithoutList, DataAssumption
  <2>3. \A x \in Live' : kids'[x] \in Seq(Id) /\ Once(kids'[x])
    BY <1>1, <2>1, <2>2
  <2>4. QED
    BY <1>2, <2>1, <2>3
<1>7. ASSUME NEW n \in Id, FsDelete(n) PROVE ListType'
  <2>1. /\ Live' \subseteq Live
        /\ kids' = [x \in Live' |-> IF x = node[n].parent THEN Without(kids[x], n) ELSE kids[x]]
    BY <1>7 DEF FsDelete, Live
  <2>2. \A x \in Live : Without(kids[x], n) \in Seq(Id) /\ Once(Without(kids[x], n))
    BY <1>1, WithoutList
  <2>3. \A x \in Live' : kids'[x] \in Seq(Id) /\ Once(kids'[x])
    BY <1>1, <2>1, <2>2
  <2>4. QED
    BY <1>2, <2>1, <2>3
<1>8. ASSUME NEW n \in Id, NEW c \in Canvas, FsWriteCanvas(n, c) PROVE ListType'
  <2>1. Live' = Live /\ kids' = kids
    BY <1>8 DEF FsWriteCanvas, Live
  <2>2. QED
    BY <2>1 DEF ListType
<1>9. QED
  BY <1>3, <1>4, <1>5, <1>6, <1>7, <1>8 DEF FsNext

ListsTyped ==
    /\ ListType
    /\ bootKids \in [DOMAIN boot -> Seq(Id)] /\ \A n \in DOMAIN boot : Once(bootKids[n])

LEMMA ListsTypedStep ==
    ASSUME RepoInv, ListsTyped, Next
    PROVE  ListsTyped'
<1>1. ListType'
  <2>1. CASE FsNext
    BY <2>1, FsNextLists DEF RepoInv, ListsTyped
  <2>2. CASE UNCHANGED fsVars
    BY <2>2 DEF fsVars, ListsTyped, ListType, Live
  <2>3. ASSUME NEW n \in Id, NEW m \in Meta, UpdateMetadata(n, m) PROVE ListType'
    <3>1. FsWriteNode(n, [LoadNode(n) EXCEPT !.meta = m], LoadKids(n))
      BY <2>3 DEF UpdateMetadata
    <3>2. Live' = Live /\ kids' = [kids EXCEPT ![n] = LoadKids(n)] /\ n \in Live
      BY <3>1 DEF FsWriteNode, Live, RepoInv, DirInv, DirType
    <3>3. LoadKids(n) \in Seq(Id) /\ Once(LoadKids(n))
      BY <3>2 DEF LoadKids, RepoInv, CacheInv, ListsTyped, ListType
    <3>4. QED
      BY <3>2, <3>3 DEF ListsTyped, ListType
  <2>4. QED
    BY <2>1, <2>2, <2>3, RepoStep
<1>2. CASE UNCHANGED <<boot, bootKids>>
  BY <1>1, <1>2 DEF ListsTyped
<1>3. ASSUME NEW populates \in BOOLEAN, NEW rebuilds \in BOOLEAN, Restart(populates, rebuilds)
      PROVE  ListsTyped'
  <2>1. \/ boot' = node /\ bootKids' = LoadedKids
        \/ boot' = << >> /\ bootKids' = << >>
    BY <1>3 DEF Restart
  <2>2. LoadedKids \in [Live -> Seq(Id)] /\ \A n \in Live : Once(LoadedKids[n])
    BY OnlyList DEF LoadedKids, ListsTyped, ListType
  <2>3. DOMAIN << >> = {} /\ << >> \in [{} -> Seq(Id)]
    OBVIOUS
  <2>4. QED
    BY <1>1, <2>1, <2>2, <2>3 DEF ListsTyped, Live
<1>4. UNCHANGED <<boot, bootKids>> \/ \E populates, rebuilds \in BOOLEAN : Restart(populates, rebuilds)
  BY DEF Next, Create, Rename, UpdateMetadata, Move, Delete, WriteCanvas, BlockedRequest,
         Invalidate, cacheVars
<1>5. QED
  BY <1>2, <1>3, <1>4

-----------------------------------------------------------------------------
(* The rows of the index: whatever tree a hook reads, that of the boot or the *)
(* one on disk, the row it writes is one of a node that is there.             *)
RowsTyped ==
    /\ DOMAIN index \subseteq issued
    /\ index \in [DOMAIN index -> RowRecord]
    /\ stale \in BOOLEAN
    /\ loaded \in BOOLEAN

LEMMA StoryTyped ==
    ASSUME NEW tree, DOMAIN tree \subseteq Id, NEW n \in Id, NEW p
    PROVE  StoryOf(tree, n, p) \in Id \cup {NoStory}
<1> DEFINE tops == {a \in Reach(AboveIn(tree), p) : tree[a].parent = Root}
<1>1. tops \subseteq Id
  BY DEF Reach, AboveIn
<1>2. CASE p = Root
  BY <1>2 DEF StoryOf
<1>3. CASE p # Root /\ p \in DOMAIN tree /\ tops # {}
  <2>1. (CHOOSE a \in tops : TRUE) \in tops
    BY <1>3
  <2>2. StoryOf(tree, n, p) = CHOOSE a \in tops : TRUE
    BY <1>3 DEF StoryOf
  <2> HIDE DEF tops
  <2>3. QED
    BY <1>1, <2>1, <2>2
<1>4. CASE p # Root /\ ~(p \in DOMAIN tree /\ tops # {})
  BY <1>4 DEF StoryOf
<1>5. QED
  BY <1>2, <1>3, <1>4

LEMMA RowTyped ==
    ASSUME RepoInv', NEW tree, DOMAIN tree \subseteq Id,
           NEW n \in Live', NEW record \in NodeRecord
    PROVE  Row(tree, n, record) \in RowRecord
<1>1. n \in Id
  BY DEF RepoInv, DirInv, DirType
<1>2. Paths'[n] \in Seq(Slugs)
  BY PathsTypedAfter DEF RepoInv, DirInv
<1>3. StoryOf(tree, n, record.parent) \in Id \cup {NoStory}
  BY <1>1, StoryTyped
<1>4. record.parent \in Id \cup {Root} /\ record.title \in Title
  BY DEF NodeRecord
<1>5. QED
  BY <1>2, <1>3, <1>4 DEF Row, RowRecord

(* Rows entered, rows dropped, a title replaced.                              *)
LEMMA RowsEntered ==
    ASSUME RowsTyped, RepoInv', issued \subseteq issued', NEW S, S \subseteq Live',
           NEW tree, DOMAIN tree \subseteq Id, NEW record, \A x \in S : record[x] \in NodeRecord,
           index' = [x \in DOMAIN index \cup S |->
                        IF x \in S THEN Row(tree, x, record[x]) ELSE index[x]]
    PROVE  DOMAIN index' \subseteq issued' /\ index' \in [DOMAIN index' -> RowRecord]
<1>1. \A x \in S : Row(tree, x, record[x]) \in RowRecord
  BY RowTyped
<1>2. DOMAIN index' = DOMAIN index \cup S /\ S \subseteq issued'
  BY DEF RepoInv, DirInv, DirType
<1>3. QED
  BY <1>1, <1>2 DEF RowsTyped

LEMMA RowsDropped ==
    ASSUME RowsTyped, issued \subseteq issued', NEW S, index' = [x \in DOMAIN index \ S |-> index[x]]
    PROVE  DOMAIN index' \subseteq issued' /\ index' \in [DOMAIN index' -> RowRecord]
BY DEF RowsTyped

LEMMA TitleReplaced ==
    ASSUME RowsTyped, issued \subseteq issued', NEW n, NEW t \in Title,
           index' = [index EXCEPT ![n].title = t]
    PROVE  DOMAIN index' \subseteq issued' /\ index' \in [DOMAIN index' -> RowRecord]
<1>1. index \in [DOMAIN index -> RowRecord] /\ DOMAIN index \subseteq issued
  BY DEF RowsTyped
<1>2. index' \in [DOMAIN index -> RowRecord]
  BY <1>1 DEF RowRecord
<1>3. DOMAIN index' = DOMAIN index
  BY <1>2
<1>4. QED
  BY <1>1, <1>2, <1>3

LEMMA RowsTypedStep ==
    ASSUME RepoInv, RowsTyped, Next
    PROVE  RowsTyped'
<1>1. RepoInv'
  BY RepoStep
<1>2. /\ DOMAIN boot \subseteq Id /\ boot \in [DOMAIN boot -> NodeRecord] /\ DOMAIN bootKids = DOMAIN boot
      /\ Live' \subseteq Id /\ node' \in [Live' -> NodeRecord] /\ DOMAIN kids' = Live'
  BY <1>1 DEF RepoInv, CacheInv, DirInv, DirType
<1>3. issued \subseteq issued'
  BY DEF Next, Create, Rename, UpdateMetadata, Move, Delete, WriteCanvas, BlockedRequest, Restart,
         FsCreate, FsRename, FsWriteNode, FsMove, FsDelete, FsWriteCanvas, fsVars
<1>4. loaded' \in BOOLEAN
  <2>1. UNCHANGED loaded \/ \E populates, rebuilds \in BOOLEAN : Restart(populates, rebuilds)
    BY DEF Next, Create, Rename, UpdateMetadata, Move, Delete, WriteCanvas, BlockedRequest,
           Invalidate, cacheVars
  <2>2. QED
    BY <2>1 DEF Restart, RowsTyped
<1>5. DOMAIN ProviderTree \subseteq Id /\ DOMAIN ProviderKids = DOMAIN ProviderTree
      /\ \A x \in DOMAIN ProviderTree : ProviderTree[x] \in NodeRecord
  BY <1>2 DEF ProviderTree, ProviderKids, Live
<1>6. ASSUME DOMAIN index' \subseteq issued' /\ index' \in [DOMAIN index' -> RowRecord], stale' \in BOOLEAN
      PROVE  RowsTyped'
  <2>1. RowRecord' = RowRecord
    BY DEF RowRecord, Slugs, Suffix
  <2>2. QED
    BY <1>4, <1>6, <2>1 DEF RowsTyped
<1>7. ASSUME UNCHANGED index, stale' \in BOOLEAN PROVE RowsTyped'
  BY <1>3, <1>6, <1>7 DEF RowsTyped
<1>8. ASSUME UNCHANGED indexVars \/ HookRaises PROVE RowsTyped'
  BY <1>7, <1>8 DEF indexVars, HookRaises, RowsTyped
<1>9. ASSUME NEW n \in Id, NEW t \in Title, NEW db, OnRetitled(n, t, db) PROVE RowsTyped'
  <2>1. CASE index' = [index EXCEPT ![n].title = t] /\ UNCHANGED stale
    BY <1>3, <1>6, <2>1, TitleReplaced DEF RowsTyped
  <2>2. QED
    BY <1>8, <1>9, <2>1 DEF OnRetitled
<1>10. ASSUME NEW n \in Id, NEW p \in Id \cup {Root}, NEW t \in Title, Create(n, p, t)
       PROVE  RowsTyped'
  <2>1. CASE index' = [x \in DOMAIN index \cup {n} |->
                          IF x = n THEN Row(ProviderTree, n, node'[n]) ELSE index[x]]
             /\ UNCHANGED stale
    <3>1. n \in Live' /\ node'[n] \in NodeRecord
      BY <1>2, <1>10 DEF Create, FsCreate, Live
    <3>2. index' = [x \in DOMAIN index \cup {n} |->
                       IF x \in {n} THEN Row(ProviderTree, x, node'[x]) ELSE index[x]]
      BY <2>1
    <3>3. DOMAIN index' \subseteq issued' /\ index' \in [DOMAIN index' -> RowRecord]
      <4> DEFINE S == {n}
                 record == node'
                 tree == ProviderTree
      <4>1. S \subseteq Live' /\ DOMAIN tree \subseteq Id /\ \A x \in S : record[x] \in NodeRecord
        BY <1>5, <3>1
      <4>2. index' = [x \in DOMAIN index \cup S |->
                         IF x \in S THEN Row(tree, x, record[x]) ELSE index[x]]
        BY <3>2
      <4> HIDE DEF S, record, tree
      <4>3. QED
        BY <1>1, <1>3, <4>1, <4>2, RowsEntered
    <3>4. QED
      BY <1>6, <2>1, <3>3 DEF RowsTyped
  <2>2. QED
    BY <1>8, <1>10, <2>1 DEF Create, Hook, OnCreated
<1>11. ASSUME NEW n \in Id, NEW t \in Title, Rename(n, t) PROVE RowsTyped'
  BY <1>8, <1>9, <1>11 DEF Rename, Hook
<1>12. ASSUME NEW n \in Id, NEW m \in Meta, UpdateMetadata(n, m) PROVE RowsTyped'
  <2>1. Found(n) /\ n \in Live
    BY <1>12 DEF UpdateMetadata, FsWriteNode
  <2>2. LoadNode(n) \in NodeRecord
    BY <1>2, <2>1 DEF LoadNode, RepoInv, CacheInv, DirInv, DirType
  <2>3. LoadNode(n).title \in Title
    BY <2>2 DEF NodeRecord
  <2>4. QED
    BY <1>8, <1>9, <1>12, <2>3 DEF UpdateMetadata, Hook
<1>13. ASSUME NEW n \in Id, NEW p \in Id \cup {Root}, NEW pos \in Position, Move(n, p, pos)
       PROVE  RowsTyped'
  <2>1. ASSUME OnMoved(n), ProviderUp, n \in DOMAIN ProviderTree, MovedRows(n) \subseteq Live'
        PROVE  RowsTyped'
    <3>1. PICK done \in SUBSET MovedRows(n) :
                /\ index' = [x \in DOMAIN index \cup done |->
                                IF x \in done THEN Row(ProviderTree, x, ProviderTree[x])
                                ELSE index[x]]
                /\ stale' = (stale \/ done # MovedRows(n))
      BY <2>1 DEF OnMoved
    <3>2. done \subseteq Live' /\ \A x \in done : ProviderTree[x] \in NodeRecord
      BY <1>5, <2>1, <3>1 DEF MovedRows, Subtree, Reach, ListedIn
    <3>3. DOMAIN index' \subseteq issued' /\ index' \in [DOMAIN index' -> RowRecord]
      BY <1>1, <1>3, <1>5, <3>1, <3>2, RowsEntered
    <3>4. QED
      BY <1>6, <3>1, <3>3 DEF RowsTyped
  <2>2. ASSUME OnMoved(n) PROVE RowsTyped'
    BY <1>8, <2>1, <2>2 DEF OnMoved
  <2>3. QED
    BY <1>8, <1>13, <2>2 DEF Move, Hook
<1>14. ASSUME NEW n \in Id, Delete(n) PROVE RowsTyped'
  <2>1. ASSUME NEW S, OnDeleted(S) PROVE RowsTyped'
    <3>1. \E T : index' = [x \in DOMAIN index \ T |-> index[x]]
      BY <2>1 DEF OnDeleted
    <3>2. stale' \in BOOLEAN
      BY <2>1 DEF OnDeleted, RowsTyped
    <3>3. QED
      BY <1>3, <1>6, <3>1, <3>2, RowsDropped
  <2>2. QED
    BY <1>8, <1>14, <2>1 DEF Delete, Hook
<1>15. ASSUME NEW n \in Id, NEW c \in Canvas, WriteCanvas(n, c) PROVE RowsTyped'
  BY <1>8, <1>15 DEF WriteCanvas, Hook, OnTouched
<1>16. ASSUME BlockedRequest PROVE RowsTyped'
  BY <1>8, <1>16 DEF BlockedRequest
<1>17. ASSUME NEW populates \in BOOLEAN, NEW rebuilds \in BOOLEAN, Restart(populates, rebuilds)
       PROVE  RowsTyped'
  <2>1. stale' = FALSE /\ node' = node
    BY <1>17 DEF Restart, fsVars
  <2>2. CASE index' = [x \in Live |-> Row(node, x, node[x])]
    <3>1. Live' = Live /\ Live \subseteq issued' /\ DOMAIN node \subseteq Id
          /\ \A x \in Live : node[x] \in NodeRecord
      BY <1>1, <1>2, <2>1 DEF RepoInv, DirInv, DirType, Live
    <3>2. \A x \in Live : Row(node, x, node[x]) \in RowRecord
      BY <1>1, <3>1, RowTyped
    <3>3. DOMAIN index' \subseteq issued' /\ index' \in [DOMAIN index' -> RowRecord]
      BY <2>2, <3>1, <3>2
    <3>4. QED
      BY <1>6, <2>1, <3>3
  <2>3. QED
    BY <1>7, <1>17, <2>1, <2>2 DEF Restart
<1>18. QED
  BY <1>10, <1>11, <1>12, <1>13, <1>14, <1>15, <1>16, <1>17 DEF Next

(* The types of the repository's variables, those of the cache and of the     *)
(* index among them, in every wiring and with any failure of the database.    *)
THEOREM RepositoryTypeCorrect == Spec => []TypeOK
<1>1. Init => ListsTyped /\ RowsTyped
  <2>1. DOMAIN << >> = {} /\ << >> \in [{} -> Seq(Id)] /\ << >> \in [{} -> RowRecord]
    OBVIOUS
  <2>2. Init => Live = {} /\ kids = << >> /\ boot = << >> /\ bootKids = << >> /\ index = << >>
                /\ stale = FALSE /\ loaded = HasCache
    BY <2>1 DEF Init, FsInit, Live
  <2>3. HasCache \in BOOLEAN
    BY WiringAssumption
  <2>4. QED
    BY <2>1, <2>2, <2>3 DEF ListsTyped, ListType, RowsTyped
<1>2. RepoInv /\ ListsTyped /\ RowsTyped /\ [Next]_vars => (ListsTyped /\ RowsTyped)'
  <2>1. UNCHANGED vars /\ ListsTyped /\ RowsTyped => (ListsTyped /\ RowsTyped)'
    <3>1. RowRecord' = RowRecord
      BY DEF RowRecord, Slugs, Suffix
    <3>2. UNCHANGED vars /\ ListsTyped => ListsTyped'
      BY DEF vars, ListsTyped, ListType, Live
    <3>3. UNCHANGED vars /\ RowsTyped => RowsTyped'
      BY <3>1 DEF vars, RowsTyped
    <3>4. QED
      BY <3>2, <3>3
  <2>2. QED
    BY <2>1, ListsTypedStep, RowsTypedStep
<1>3. RepoInv /\ ListsTyped /\ RowsTyped => TypeOK
  BY DEF RepoInv, DirInv, DirType, CacheInv, ListsTyped, ListType, RowsTyped, TypeOK
<1>4. QED
  BY <1>1, <1>2, <1>3, RepoHolds, PTL DEF Spec

-----------------------------------------------------------------------------
(* The index in the wiring of the lifespan. A node keeps its root Story if    *)
(* the nodes above it keep their parents, and then a row that was right and   *)
(* is not rewritten stays right.                                              *)
LEMMA KeepsStory ==
    ASSUME DirInv, DirInv', NEW S, S \subseteq Live, S \subseteq Live',
           \A y \in S : node'[y].parent = node[y].parent /\ node[y].parent \in S \cup {Root},
           NEW x \in S
    PROVE  StoryOf(node', x, node'[x].parent) = StoryOf(node, x, node[x].parent)
<1>1. Root \notin DOMAIN node /\ Root \notin DOMAIN node'
  BY IdAssumption DEF DirInv, DirType, Live
<1>2. StoryOf(node, x, node[x].parent) = StoryOf(node', x, node[x].parent)
  BY <1>1, StoryAgree DEF Live
<1>3. QED
  BY <1>2

LEMMA RowStays ==
    ASSUME DirInv, DirInv', NEW S, S \subseteq Live, S \subseteq Live',
           \A y \in S : node'[y].parent = node[y].parent /\ node[y].parent \in S \cup {Root},
           NEW x \in S, RowRight(x), node'[x].title = node[x].title,
           x \in DOMAIN index', index'[x].parent = index[x].parent,
           index'[x].title = index[x].title, index'[x].story = index[x].story
    PROVE  RowRight(x)'
<1>1. StoryOf(node', x, node'[x].parent) = StoryOf(node, x, node[x].parent)
  BY KeepsStory
<1>2. SameColumns(index[x], node, x) /\ node'[x].parent = node[x].parent
  BY DEF RowRight
<1>3. index'[x].parent = node'[x].parent /\ index'[x].title = node'[x].title
      /\ index'[x].story = StoryOf(node', x, node'[x].parent)
  BY <1>1, <1>2 DEF SameColumns
<1>4. QED
  BY <1>3 DEF RowRight, SameColumns

(* Nothing above the nodes of S has moved: the usual case, S all nodes.       *)
LEMMA ParentsStay ==
    ASSUME DirInv
    PROVE  \A y \in Live : node[y].parent \in Live \cup {Root}
BY DEF DirInv, DirType, ParentIsDirectory

LEMMA NoRowStays ==
    ASSUME NEW x, x \notin Live', x \notin DOMAIN index'
    PROVE  RowRight(x)'
BY DEF RowRight

Excused(x) == LookupFailed(x) \/ Misprojected(x) \/ Missed(x)

LEMMA DriftCreate ==
    ASSUME RepoInv, DirInv', HasSync, ~stale',
           NEW n \in Id, NEW p \in Id \cup {Root}, NEW t \in Title, Create(n, p, t),
           NEW x \in Id, RowRight(x), ~RowRight(x)'
    PROVE  Excused(x)
<1>1. FsCreate(n, p, t)
  BY DEF Create
<1>2. PICK db \in DbAnswers : OnCreated(n, db)
  BY DEF Create, Hook
<1>3. index' = [y \in DOMAIN index \cup {n} |->
                    IF y = n THEN Row(ProviderTree, n, node'[n]) ELSE index[y]]
  BY <1>2 DEF OnCreated, HookRaises
<1>4. Live' = Live \cup {n} /\ n \notin Live /\ n \notin issued /\ \A y \in Live : node'[y] = node[y]
  BY <1>1 DEF FsCreate, RepoInv, DirInv, DirType, Live
<1>5. CASE x = n
  <2>1. n \notin DOMAIN ProviderTree
    BY <1>4 DEF ProviderTree, RepoInv, CacheInv
  <2>2. n \in DOMAIN index' /\ index'[n] = TreeRow(n)
    BY <1>3, <2>1 DEF TreeRow
  <2>3. ~SameColumns(index'[n], node', n)
    BY <1>4, <1>5, <2>2 DEF RowRight
  <2>4. QED
    BY <1>4, <1>5, <2>2, <2>3 DEF Misprojected, Excused
<1>6. CASE x # n /\ x \in Live
  <2>1. x \in DOMAIN index' /\ index'[x] = index[x]
    BY <1>3, <1>6 DEF RowRight
  <2>2. \A y \in Live : node'[y].parent = node[y].parent /\ node[y].parent \in Live \cup {Root}
    BY <1>4, ParentsStay DEF RepoInv
  <2>3. QED
    BY <1>4, <1>6, <2>1, <2>2, RowStays DEF RepoInv
<1>7. CASE x # n /\ x \notin Live
  BY <1>3, <1>4, <1>7, NoRowStays DEF RowRight
<1>8. QED
  BY <1>5, <1>6, <1>7

(* rename and update_metadata: the row gets the title that is on disk.        *)
LEMMA DriftRetitle ==
    ASSUME RepoInv, DirInv', TypeOK, HasSync, ~stale', NEW n \in Live, Live' = Live,
           \A y \in Live : node'[y].parent = node[y].parent /\ (y # n => node'[y].title = node[y].title),
           NEW db \in DbAnswers, OnRetitled(n, node'[n].title, db),
           NEW x \in Id, RowRight(x), ~RowRight(x)'
    PROVE  Excused(x)
<1>1. \A y \in Live : node'[y].parent = node[y].parent /\ node[y].parent \in Live \cup {Root}
  BY ParentsStay DEF RepoInv
<1>2. \/ UNCHANGED index /\ (db = "read" \/ n \notin DOMAIN index)
      \/ n \in DOMAIN index /\ index' = [index EXCEPT ![n].title = node'[n].title]
  BY DEF OnRetitled, HookRaises, indexVars
<1>3. x \in Live
  <2>1. SUFFICES ASSUME x \notin Live PROVE FALSE
    OBVIOUS
  <2>2. x \notin DOMAIN index' /\ x \notin Live'
    BY <1>2, <2>1 DEF RowRight
  <2>3. QED
    BY <2>2, NoRowStays
<1>4. x \in DOMAIN index /\ x \in DOMAIN index' /\ index[x] \in RowRecord
  BY <1>2, <1>3 DEF RowRight, TypeOK
<1>5. CASE UNCHANGED index
  <2>1. node'[x].title # node[x].title
    BY <1>1, <1>3, <1>4, <1>5, RowStays DEF RepoInv
  <2>2. x = n
    BY <1>3, <2>1
  <2>3. CASE db = "read"
    BY <1>3, <1>5, <2>1, <2>2, <2>3 DEF LookupFailed, Excused, DbAnswers
  <2>4. CASE db # "read"
    <3>1. n \in DOMAIN index
      BY <1>4, <2>2
    <3>2. index' = [index EXCEPT ![n].title = node'[n].title]
      BY <3>1, <2>4 DEF OnRetitled, HookRaises
    <3>3. index'[n].title = node'[n].title
      BY <1>4, <2>2, <3>1, <3>2 DEF RowRecord
    <3>4. index'[n].title = node[n].title
      BY <1>3, <1>5, <2>2 DEF RowRight, SameColumns
    <3>5. QED
      BY <2>1, <2>2, <3>3, <3>4
  <2>5. QED
    BY <2>3, <2>4
<1>6. CASE n \in DOMAIN index /\ index' = [index EXCEPT ![n].title = node'[n].title]
  <2>1. CASE x # n
    <3>1. index'[x] = index[x] /\ node'[x].title = node[x].title
      BY <1>3, <1>6, <2>1
    <3>2. QED
      BY <1>1, <1>3, <1>4, <3>1, RowStays DEF RepoInv
  <2>2. CASE x = n
    <3>1. /\ index'[n].parent = index[n].parent
          /\ index'[n].story = index[n].story
          /\ index'[n].title = node'[n].title
      BY <1>4, <1>6, <2>2 DEF RowRecord
    <3>2. StoryOf(node', n, node'[n].parent) = StoryOf(node, n, node[n].parent)
      BY <1>1, KeepsStory DEF RepoInv
    <3>3. SameColumns(index'[n], node', n)
      BY <1>1, <2>2, <3>1, <3>2 DEF RowRight, SameColumns
    <3>4. QED
      BY <1>3, <1>4, <2>2, <3>3 DEF RowRight
  <2>3. QED
    BY <2>1, <2>2
<1>7. QED
  BY <1>2, <1>5, <1>6

(* What a hook of a move has done when the flag stays down.                   *)
LEMMA MoveHook ==
    ASSUME RepoInv, HasSync, ~stale', NEW n \in Id, NEW p \in Id \cup {Root}, NEW pos \in Position,
           Move(n, p, pos), WalkEnds(WalkedLists(n, kids'), n)
    PROVE  /\ n \in DOMAIN boot /\ MovedRows(n) \subseteq Live'
           /\ MovedRows(n) = Told(n, kids') /\ MovedRows(n) \subseteq DOMAIN boot
           /\ index' = [x \in DOMAIN index \cup MovedRows(n) |->
                           IF x \in MovedRows(n) THEN TreeRow(x) ELSE index[x]]
<1>1. OnMoved(n)
  BY DEF Move, Hook
<1>2. n \in DOMAIN boot /\ MovedRows(n) \subseteq Live'
  BY <1>1 DEF OnMoved, HookRaises, ProviderTree
<1>3. MovedRows(n) = Subtree(bootKids, n) /\ Told(n, kids') = Subtree(bootKids, n)
  BY <1>2 DEF MovedRows, ProviderKids, Told, Evicted, WalkedLists
<1>4. MovedRows(n) \subseteq DOMAIN boot
  <2>1. DOMAIN ListedIn(bootKids) = DOMAIN boot
    BY DEF ListedIn, RepoInv, CacheInv
  <2>2. QED
    BY <1>3, <2>1, ReachWithin DEF Subtree
<1> DEFINE all == MovedRows(n)
<1>5. PICK done \in SUBSET all :
         /\ index' = [x \in DOMAIN index \cup done |->
                         IF x \in done THEN Row(ProviderTree, x, ProviderTree[x]) ELSE index[x]]
         /\ stale' = (stale \/ done # all)
  BY <1>1 DEF OnMoved, HookRaises
<1>6. done = all
  BY <1>5
<1>7. \A x \in all : Row(ProviderTree, x, ProviderTree[x]) = TreeRow(x)
  BY <1>4 DEF TreeRow, ProviderTree
<1> HIDE DEF all
<1>8. index' = [x \in DOMAIN index \cup all |-> IF x \in all THEN TreeRow(x) ELSE index[x]]
  BY <1>5, <1>6, <1>7
<1>9. QED
  BY <1>2, <1>3, <1>4, <1>8 DEF all

LEMMA DriftMove ==
    ASSUME RepoInv, DirInv', HasSync, ~stale',
           NEW n \in Id, NEW p \in Id \cup {Root}, NEW pos \in Position, Move(n, p, pos),
           NEW x \in Id, RowRight(x), ~RowRight(x)'
    PROVE  Excused(x)
<1>1. FsMove(n, p, pos) /\ n \in Live /\ Live' = Live
  BY DEF Move, FsMove, RepoInv, DirInv, DirType, Live
<1>2. \A y \in Live \ {n} : node'[y] = node[y]
  BY <1>1 DEF FsMove, RepoInv, DirInv, DirType, Live
<1>3. Moves(n)
  BY <1>1 DEF Moves, FsMove, RepoInv, DirInv, DirType
<1>4. CASE x \in DirectoryTree(n) \ Told(n, kids')
  BY <1>1, <1>3, <1>4 DEF Missed, Excused
<1>5. ASSUME x \notin DirectoryTree(n), x \in DOMAIN index' <=> x \in DOMAIN index,
             x \in DOMAIN index => index'[x] = index[x]
      PROVE  FALSE
  <2> DEFINE S == Live \ DirectoryTree(n)
  <2>1. n \in DirectoryTree(n) /\ \A y \in S : place[y].home \in S \cup {Root}
    BY <1>1, DirectoryTreeFacts DEF RepoInv, DirInv, DirType
  <2>2. \A y \in S : node'[y].parent = node[y].parent /\ node[y].parent \in S \cup {Root}
    BY <1>2, <2>1 DEF RepoInv, DirInv, ParentIsDirectory
  <2>3. CASE x \in Live
    <3>1. x \in S /\ x \in DOMAIN index' /\ index'[x] = index[x] /\ node'[x] = node[x]
      BY <1>2, <1>5, <2>1, <2>3 DEF RowRight
    <3>2. S \subseteq Live /\ S \subseteq Live'
      BY <1>1
    <3> HIDE DEF S
    <3>3. QED
      BY <2>2, <3>1, <3>2, RowStays DEF RepoInv
  <2>4. CASE x \notin Live
    BY <1>1, <1>5, <2>4, NoRowStays DEF RowRight
  <2>5. QED
    BY <2>3, <2>4
<1>6. CASE ~WalkEnds(WalkedLists(n, kids'), n)
  <2>1. UNCHANGED index /\ Told(n, kids') = {}
    BY <1>6 DEF Move, indexVars, Told
  <2>2. QED
    BY <1>4, <1>5, <2>1
<1>7. CASE WalkEnds(WalkedLists(n, kids'), n)
  <2>1. CASE x \in MovedRows(n)
    <3>1. x \in Live' /\ x \in DOMAIN index' /\ index'[x] = TreeRow(x) /\ x \in Told(n, kids')
      BY <1>7, <2>1, MoveHook
    <3>2. ~SameColumns(index'[x], node', x)
      BY <3>1 DEF RowRight
    <3>3. QED
      BY <1>1, <1>3, <3>1, <3>2 DEF Misprojected, Excused
  <2>2. CASE x \notin MovedRows(n)
    <3>1. x \notin Told(n, kids') /\ (x \in DOMAIN index' <=> x \in DOMAIN index)
          /\ (x \in DOMAIN index => index'[x] = index[x])
      BY <1>7, <2>2, MoveHook
    <3>2. QED
      BY <1>4, <1>5, <3>1
  <2>3. QED
    BY <2>1, <2>2
<1>8. QED
  BY <1>6, <1>7

LEMMA DriftDelete ==
    ASSUME RepoInv, DirInv', HasSync, ~stale', NEW n \in Id, Delete(n),
           NEW x \in Id, RowRight(x), ~RowRight(x)'
    PROVE  Excused(x)
<1>1. ASSUME NEW S, S \subseteq Live, S \subseteq Live', node' = [y \in Live' |-> node[y]],
             \A y \in S : node[y].parent \in S \cup {Root},
             x \in S, x \in DOMAIN index', index'[x] = index[x]
      PROVE  FALSE
  <2>1. \A y \in S : node'[y].parent = node[y].parent /\ node'[y].title = node[y].title
    BY <1>1
  <2>2. QED
    BY <1>1, <2>1, RowStays DEF RepoInv
<1>2. CASE WalkEnds(WalkedLists(n, kids), n)
  <2> DEFINE S == Live \ DirectoryTree(n)
             told == Evicted(n, kids)
  <2>1. FsDelete(n) /\ OnDeleted(told) /\ n \in Live
    BY <1>2 DEF Delete, Hook, FsDelete
  <2>2. told = Told(n, kids)
    BY <1>2 DEF Told
  <2> HIDE DEF told
  <2>3. index' = [y \in DOMAIN index \ told |-> index[y]]
    BY <2>1 DEF OnDeleted
  <2>4. Live' = S /\ node' = [y \in Live' |-> node[y]]
    BY <2>1 DEF FsDelete, Live
  <2>5. \A y \in S : node[y].parent \in S \cup {Root}
    BY <2>1, DirectoryTreeFacts DEF RepoInv, DirInv, DirType, ParentIsDirectory
  <2>6. CASE x \in DirectoryTree(n) <=> x \notin Told(n, kids)
    BY <2>1, <2>6 DEF Missed, Excused
  <2>7. CASE x \in DirectoryTree(n) /\ x \in Told(n, kids)
    <3>1. x \notin Live' /\ x \notin DOMAIN index'
      BY <2>2, <2>3, <2>4, <2>7
    <3>2. QED
      BY <3>1, NoRowStays
  <2>8. CASE x \in Live /\ x \notin DirectoryTree(n) /\ x \notin Told(n, kids)
    <3>1. x \in S /\ x \in DOMAIN index' /\ index'[x] = index[x] /\ S \subseteq Live /\ S \subseteq Live'
      BY <2>2, <2>3, <2>4, <2>8 DEF RowRight
    <3> HIDE DEF S
    <3>2. QED
      BY <1>1, <2>4, <2>5, <3>1
  <2>9. CASE x \notin Live
    BY <2>3, <2>4, <2>9, NoRowStays DEF RowRight
  <2>10. QED
    BY <2>6, <2>7, <2>8, <2>9
<1>3. CASE ~WalkEnds(WalkedLists(n, kids), n)
  <2>1. node' = node /\ index' = index /\ Live' = Live
    BY <1>3 DEF Delete, fsVars, indexVars, Live
  <2>2. QED
    BY <2>1 DEF RowRight
<1>4. QED
  BY <1>2, <1>3

LEMMA DriftStep ==
    ASSUME RepoInv, DirInv', TypeOK, HasSync, [Next]_vars, ~stale', ~stuck,
           NEW x \in Id, RowRight(x), ~RowRight(x)'
    PROVE  Excused(x)
<1>1. ASSUME node' = node, index' = index PROVE FALSE
  BY <1>1 DEF RowRight, Live
<1>2. ASSUME NEW n \in Id, NEW p \in Id \cup {Root}, NEW t \in Title, Create(n, p, t) PROVE Excused(x)
  BY <1>2, DriftCreate
<1>3. ASSUME NEW n \in Id, NEW t \in Title, Rename(n, t) PROVE Excused(x)
  <2>1. FsRename(n, t)
    BY <1>3 DEF Rename
  <2>2. PICK db \in DbAnswers : OnRetitled(n, t, db)
    BY <1>3 DEF Rename, Hook
  <2>3. /\ n \in Live /\ Live' = Live /\ node'[n].title = t
        /\ \A y \in Live : node'[y].parent = node[y].parent /\ (y # n => node'[y].title = node[y].title)
    BY <2>1 DEF FsRename, RepoInv, DirInv, DirType, NodeRecord, Live
  <2>4. QED
    BY <2>2, <2>3, DriftRetitle
<1>4. ASSUME NEW n \in Id, NEW m \in Meta, UpdateMetadata(n, m) PROVE Excused(x)
  <2>1. FsWriteNode(n, [LoadNode(n) EXCEPT !.meta = m], LoadKids(n)) /\ n \in Live
    BY <1>4 DEF UpdateMetadata, FsWriteNode
  <2>2. PICK db \in DbAnswers : OnRetitled(n, LoadNode(n).title, db)
    BY <1>4 DEF UpdateMetadata, Hook
  <2>3. LoadNode(n) = node[n]
    BY <2>1 DEF LoadNode, RepoInv, CacheInv, WriteBackFresh
  <2>4. /\ Live' = Live /\ node'[n].title = node[n].title
        /\ \A y \in Live : node'[y].parent = node[y].parent /\ (y # n => node'[y].title = node[y].title)
    BY <2>1, <2>3 DEF FsWriteNode, RepoInv, DirInv, DirType, NodeRecord, Live
  <2>5. QED
    BY <2>1, <2>2, <2>3, <2>4, DriftRetitle
<1>5. ASSUME NEW n \in Id, NEW p \in Id \cup {Root}, NEW pos \in Position, Move(n, p, pos)
      PROVE  Excused(x)
  BY <1>5, DriftMove
<1>6. ASSUME NEW n \in Id, Delete(n) PROVE Excused(x)
  BY <1>6, DriftDelete
<1>7. ASSUME NEW n \in Id, NEW c \in Canvas, WriteCanvas(n, c) PROVE FALSE
  <2>1. node' = node
    BY <1>7 DEF WriteCanvas, FsWriteCanvas
  <2>2. index' = index
    BY <1>7 DEF WriteCanvas, Hook, OnTouched, HookRaises, indexVars
  <2>3. QED
    BY <1>1, <2>1, <2>2
<1>8. ASSUME BlockedRequest PROVE FALSE
  BY <1>8 DEF BlockedRequest
<1>9. ASSUME NEW populates \in BOOLEAN, NEW rebuilds \in BOOLEAN, Restart(populates, rebuilds)
      PROVE  FALSE
  <2>1. node' = node /\ Live' = Live
    BY <1>9 DEF Restart, fsVars, Live
  <2>2. CASE index' = [y \in Live |-> Row(node, y, node[y])]
    BY <2>1, <2>2 DEF RowRight, SameColumns, Row
  <2>3. QED
    BY <1>1, <1>9, <2>1, <2>2 DEF Restart
<1>10. CASE UNCHANGED vars
  BY <1>1, <1>10 DEF vars
<1>11. QED
  BY <1>2, <1>3, <1>4, <1>5, <1>6, <1>7, <1>8, <1>9, <1>10 DEF Next

(* In every step of the wiring with a synchroniser, whatever the database     *)
(* does: a row that was right stays right, or the flag goes up, or the reason *)
(* is one of the three that a Tree of the boot and a swallowed lookup make.   *)
THEOREM DriftAlwaysFlagged == ASSUME HasSync PROVE Spec => DriftIsFlagged
<1> DEFINE Body == \/ stale' \/ stuck
                   \/ \A n \in Id : RowRight(n) /\ ~RowRight(n)' =>
                         LookupFailed(n) \/ Misprojected(n) \/ Missed(n)
<1>1. RepoInv /\ RepoInv' /\ TypeOK /\ [Next]_vars => Body
  <2> SUFFICES ASSUME RepoInv, RepoInv', TypeOK, [Next]_vars, ~stale', ~stuck,
                      NEW n \in Id, RowRight(n), ~RowRight(n)'
               PROVE  Excused(n)
    BY DEF Excused
  <2>1. DirInv'
    BY DEF RepoInv
  <2>2. QED
    BY <2>1, DriftStep
<1> HIDE DEF Body
<1>2. RepoInv /\ RepoInv' /\ TypeOK /\ [Next]_vars => [Body]_vars
  BY <1>1
<1>3. Spec => [][Body]_vars
  BY <1>2, RepoHolds, RepositoryTypeCorrect, PTL DEF Spec
<1>4. QED
  BY <1>3 DEF Body, DriftIsFlagged

(* A node that has hung below r in the same place since the boot is found by  *)
(* the walk over the lists of the boot, when every child stood in the list of *)
(* its parent: so is each node between r and it.                              *)
LEMMA WalkFindsStayed ==
    ASSUME RepoInv, BootListsSound, NEW r \in Live, r \in DOMAIN boot,
           NEW m \in DirectoryTree(r), StayedBelow(m, r)
    PROVE  m \in Subtree(bootKids, r)
<1> DEFINE W == Subtree(bootKids, r)
           missed == {a \in DirectoryTree(r) : m \in DirectoryTree(a)} \ W
<1>1. /\ DirType /\ DirectoryTree(r) \subseteq Live /\ Root \notin Live
      /\ \A a \in Live : node[a].parent = place[a].home
  BY DirectoryTreeFacts, IdAssumption DEF RepoInv, DirInv, DirType, ParentIsDirectory
<1>2. DOMAIN ListedIn(bootKids) = DOMAIN boot
      /\ \A a \in DOMAIN boot : ListedIn(bootKids)[a] = ToSet(bootKids[a]) \cap DOMAIN boot
  BY DEF ListedIn, RepoInv, CacheInv
<1>3. r \in W
  BY <1>2, ReachSelf DEF Subtree
<1>4. SUFFICES ASSUME m \notin W PROVE FALSE
  OBVIOUS
<1>5. m \in missed
  BY <1>1, <1>4, DirectoryTreeFacts
<1>6. DOMAIN HomeOf = Live /\ \A a \in Live : HomeOf[a] = place[a].home
  BY DEF HomeOf
<1>7. PICK a \in missed : HomeOf[a] \notin missed
  BY <1>1, <1>5, <1>6 DEF RepoInv, DirInv, NoCycle, Rooted
<1> DEFINE b == place[a].home
<1>8. a \in Live /\ a \in DirectoryTree(r) \ {r} /\ m \in DirectoryTree(a)
  BY <1>1, <1>3, <1>7
<1>9. b \in DirectoryTree(r) /\ b \in Live
  BY <1>1, <1>8, DirectoryTreeFacts
<1>10. m \in DirectoryTree(b)
  <2>1. a \in DirectoryTree(b)
    BY <1>1, <1>8, <1>9, DirectoryTreeFacts
  <2>2. DOMAIN Subdirs = Live /\ \A y \in Live : Subdirs[y] \subseteq Live
    BY DEF Subdirs
  <2>3. DirectoryTree(a) \subseteq DirectoryTree(b)
    BY <2>1, <2>2, ReachTransitive DEF DirectoryTree
  <2>4. QED
    BY <1>8, <2>3
<1>11. b \in W
  BY <1>6, <1>7, <1>8, <1>9, <1>10
<1>12. a \in DOMAIN boot /\ boot[a].parent = b
  BY <1>1, <1>8 DEF StayedBelow
<1>13. b \in DOMAIN boot
  BY <1>2, <1>11, ReachWithin DEF Subtree
<1>14. a \in ListedIn(bootKids)[b]
  BY <1>1, <1>2, <1>9, <1>12, <1>13 DEF BootListsSound
<1>15. a \in W
  BY <1>2, <1>11, <1>12, <1>14, ReachClosed DEF Subtree
<1>16. QED
  BY <1>7, <1>15

(* A move rewrites the path of every node that has hung below the moved one   *)
(* since the boot, wherever both hang now, or raises the flag.                *)
THEOREM MovesRefreshPaths == ASSUME HasSync PROVE Spec => MoveRefreshesPaths
<1> DEFINE Body == \/ stale'
                   \/ \A r \in Live : Moves(r) /\ BootListsSound /\ WalkEnds(WalkedLists(r, kids'), r) =>
                         \A m \in DirectoryTree(r) : StayedBelow(m, r) =>
                            m \in DOMAIN index' /\ index'[m].path = Paths'[m]
<1>1. RepoInv => Body
  <2> SUFFICES ASSUME RepoInv, ~stale', NEW r \in Live, Moves(r), BootListsSound,
                      WalkEnds(WalkedLists(r, kids'), r),
                      NEW m \in DirectoryTree(r), StayedBelow(m, r)
               PROVE  m \in DOMAIN index' /\ index'[m].path = Paths'[m]
    OBVIOUS
  <2>1. PICK pos \in Position : Move(r, place'[r].home, pos)
    BY DEF Moves
  <2>2. r \in Id /\ place'[r].home \in Id \cup {Root}
    <3>1. Live \subseteq Id
      BY DEF RepoInv, DirInv, DirType
    <3>2. place'[r].home \in Live \cup {Root}
      BY <2>1 DEF Move, FsMove
    <3>3. QED
      BY <3>1, <3>2
  <2>3. r \in DOMAIN boot
        /\ index' = [x \in DOMAIN index \cup MovedRows(r) |->
                        IF x \in MovedRows(r) THEN TreeRow(x) ELSE index[x]]
    BY <2>1, <2>2, MoveHook
  <2>4. m \in MovedRows(r)
    BY <2>3, WalkFindsStayed DEF MovedRows, ProviderKids
  <2>5. m \in DOMAIN index' /\ index'[m] = TreeRow(m)
    BY <2>3, <2>4
  <2>6. TreeRow(m).path = Paths'[m]
    BY DEF TreeRow, Row
  <2>7. QED
    BY <2>5, <2>6
<1> HIDE DEF Body
<1>2. RepoInv => [Body]_vars
  BY <1>1
<1>3. Spec => [][Body]_vars
  BY <1>2, RepoHolds, PTL DEF Spec
<1>4. QED
  BY <1>3 DEF Body, MoveRefreshesPaths
=============================================================================
