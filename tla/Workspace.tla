------------------------------ MODULE Workspace ------------------------------
(* LocalWorkspaceRepository over the directory of LocalFilesystem, with the  *)
(* in-memory cache it reads first and the synchroniser that maintains the    *)
(* index rows in Postgres. Requests run one at a time; every one of them     *)
(* writes the disk, then invalidates the cache, then calls its index hook.   *)
EXTENDS LocalFilesystem

CONSTANTS
    HasCache,   \* FALSE: a repository without a cache
    HasSync,    \* FALSE: a repository without a synchroniser (no index)
    DbFaults    \* the database calls that may fail: "read", "write"

(* The synchroniser's tree provider reads the cache (lifespan.py).           *)
ASSUME WiringAssumption ==
    /\ HasCache \in BOOLEAN /\ HasSync \in BOOLEAN
    /\ HasSync => HasCache
    /\ DbFaults \subseteq {"read", "write"}

VARIABLES
    loaded,     \* has populate() succeeded in this process
    boot,       \* the cache's Tree: the nodes as load_tree read them at boot
    bootKids,   \* and their children lists
    cached,     \* the ids not invalidated since; their entry is still boot's
    index,      \* the rows of node_index
    stale,      \* the synchroniser's staleness flag
    stuck       \* a walk over boot's lists runs forever, the cache's lock held

cacheVars == <<loaded, boot, bootKids, cached>>
indexVars == <<index, stale>>
vars == <<place, node, kids, canvas, issued, loaded, boot, bootKids, cached, index, stale, stuck>>

-----------------------------------------------------------------------------
(* Reading the disk and the cache                                            *)

(* load_tree drops the children ids that no loadable node has.               *)
LoadedKids == [x \in Live |-> Only(kids[x], Live)]

(* Path of every directory below the workspace root, as path_for returns it. *)
Paths ==
    LET path[x \in Live] == IF place[x].home = Root THEN <<place[x].slug>>
                            ELSE Append(path[place[x].home], place[x].slug)
    IN  path

(* load_node: cache first, disk on a miss. A miss does not refill the cache. *)
Found(n) == n \in cached \cup Live
LoadNodeOnce(n) == IF n \in DOMAIN boot THEN boot[n] ELSE node[n]  \* mutant: ignores invalidation
LoadNode(n) == IF n \in cached THEN boot[n] ELSE node[n]
LoadKids(n) == IF n \in cached THEN bootKids[n] ELSE kids[n]

(* load_children: from the Tree of the boot, invalidated or not.             *)
LoadChildren(n) ==
    IF n \in DOMAIN boot THEN bootKids[n]
    ELSE Only(kids[n], Live)

(* The lists that subtree_ids walks, or the disk walk that replaces it.      *)
WalkedLists(n, lists) == IF n \in DOMAIN boot THEN bootKids ELSE lists

(* What a move or a delete of n drops from the cache, and for a delete from  *)
(* the index. Mutant: the node alone, without those below it.                *)
EvictedAlone(n, lists) == {n}
Evicted(n, lists) == Subtree(WalkedLists(n, lists), n)

(* Mutant: no write reaches the cache.                                       *)
InvalidateNone(S) == UNCHANGED cacheVars

Invalidate(S) ==
    /\ cached' = cached \ S
    /\ UNCHANGED <<loaded, boot, bootKids>>

-----------------------------------------------------------------------------
(* The synchroniser's hooks. db is how the database answers: "read" when the *)
(* first lookup fails, "write" when the update does. A hook that raises sets *)
(* the flag and leaves the rows alone.                                       *)
DbAnswers == {"ok"} \cup DbFaults

(* current_tree: the cache's Tree of the boot; it raises when there is none. *)
ProviderUp == loaded
ProviderTree == boot
ProviderKids == bootKids

(* _project_record: the path is read from disk, the rest from the tree.      *)
Row(tree, n, record) ==
    [parent |-> record.parent, story |-> StoryOf(tree, n, record.parent),
     title |-> record.title, path |-> Paths'[n]]

Hook(effect) == IF HasSync THEN effect ELSE UNCHANGED indexVars
HookSwallows == UNCHANGED indexVars  \* mutant: the flag is forgotten
HookRaises == stale' = TRUE /\ UNCHANGED index

OnCreated(n, db) ==
    IF ProviderUp /\ db = "ok"
    THEN /\ index' = [x \in DOMAIN index \cup {n} |->
                         IF x = n THEN Row(ProviderTree, n, node'[n]) ELSE index[x]]
         /\ UNCHANGED stale
    ELSE HookRaises

(* on_node_renamed and on_metadata_updated: any failure of the lookup counts *)
(* as "row not yet in index".                                                *)
OnRetitled(n, t, db) ==
    IF db = "read" \/ n \notin DOMAIN index THEN UNCHANGED indexVars
    ELSE IF db = "ok" /\ ProviderUp /\ n \in DOMAIN ProviderTree
    THEN index' = [index EXCEPT ![n].title = t] /\ UNCHANGED stale
    ELSE HookRaises

(* The rows a move rewrites. Mutant: the moved node's only.                  *)
MovedRow(n) == {n}
MovedRows(n) == Subtree(ProviderKids, n)

(* Mutant: an upsert that fails ends the loop and nobody is told.            *)
OnMovedQuietly(n) ==
    IF ProviderUp /\ n \in DOMAIN ProviderTree /\ MovedRows(n) \subseteq Live'
    THEN \E done \in SUBSET MovedRows(n) :
            /\ index' = [x \in DOMAIN index \cup done |->
                            IF x \in done THEN Row(ProviderTree, x, ProviderTree[x])
                            ELSE index[x]]
            /\ UNCHANGED stale
    ELSE HookRaises

(* One upsert per node of the subtree; when one fails those before it stay.  *)
OnMoved(n) ==
    IF ProviderUp /\ n \in DOMAIN ProviderTree /\ MovedRows(n) \subseteq Live'
    THEN LET all == MovedRows(n)
         IN  \E done \in IF DbFaults = {} THEN {all} ELSE SUBSET all :
                /\ index' = [x \in DOMAIN index \cup done |->
                                IF x \in done THEN Row(ProviderTree, x, ProviderTree[x])
                                ELSE index[x]]
                /\ stale' = (stale \/ done # all)
    ELSE HookRaises

(* on_node_deleted for each id, every call on its own.                       *)
OnDeleted(S) ==
    \E failed \in IF DbFaults = {} THEN {{}} ELSE SUBSET S :
        /\ index' = [x \in DOMAIN index \ (S \ failed) |-> index[x]]
        /\ stale' = (stale \/ failed # {})

(* on_canvas_updated only moves the row's updated_at.                        *)
OnTouched(n, db) ==
    IF db = "write" /\ n \in DOMAIN index THEN HookRaises ELSE UNCHANGED indexVars

-----------------------------------------------------------------------------
(* The repository's operations: disk, then cache, then index.                *)
Create(n, p, t) ==
    /\ ~stuck
    /\ FsCreate(n, p, t)
    /\ Invalidate({n})
    /\ Hook(\E db \in DbAnswers : OnCreated(n, db))
    /\ UNCHANGED stuck

(* Mutant: the entry of a renamed node stays in the cache.                   *)
RenameKeepsEntry(n, t) ==
    /\ ~stuck
    /\ FsRename(n, t)
    /\ UNCHANGED cacheVars
    /\ Hook(\E db \in DbAnswers : OnRetitled(n, t, db))
    /\ UNCHANGED stuck

Rename(n, t) ==
    /\ ~stuck
    /\ FsRename(n, t)
    /\ Invalidate({n})
    /\ Hook(\E db \in DbAnswers : OnRetitled(n, t, db))
    /\ UNCHANGED stuck

(* The Node written back is the one load_node returned, lists included.      *)
UpdateMetadata(n, m) ==
    /\ ~stuck
    /\ Found(n)
    /\ FsWriteNode(n, [LoadNode(n) EXCEPT !.meta = m], LoadKids(n))
    /\ Invalidate({n})
    /\ Hook(\E db \in DbAnswers : OnRetitled(n, LoadNode(n).title, db))
    /\ UNCHANGED stuck

(* When the walk over the lists does not end, neither does the request: the  *)
(* directory has moved, cache and index never hear of it. On the lists of    *)
(* boot the walk runs under the cache's lock, and every later request that   *)
(* asks the cache waits for it.                                              *)
Move(n, p, pos) ==
    /\ ~stuck
    /\ FsMove(n, p, pos)
    /\ IF WalkEnds(WalkedLists(n, kids'), n)
       THEN Invalidate(Evicted(n, kids')) /\ Hook(OnMoved(n)) /\ UNCHANGED stuck
       ELSE stuck' = (n \in DOMAIN boot) /\ UNCHANGED <<cacheVars, indexVars>>

(* The descendants are collected before the directory goes, and before it    *)
(* is looked for.                                                            *)
Delete(n) ==
    /\ ~stuck
    /\ IF WalkEnds(WalkedLists(n, kids), n)
       THEN /\ FsDelete(n)
            /\ Invalidate(Evicted(n, kids))
            /\ Hook(OnDeleted(Evicted(n, kids)))
            /\ UNCHANGED stuck
       ELSE stuck' = (n \in DOMAIN boot) /\ UNCHANGED <<fsVars, cacheVars, indexVars>>

WriteCanvas(n, c) ==
    /\ FsWriteCanvas(n, c)
    /\ UNCHANGED cacheVars
    /\ Hook(\E db \in DbAnswers : OnTouched(n, db))
    /\ UNCHANGED stuck

(* Requests that find the lock held after they have changed the disk. The    *)
(* others (delete, metadata) ask the cache first and change nothing.         *)
BlockedRequest ==
    /\ stuck
    /\ \/ \E n \in Id, p \in Id \cup {Root}, t \in Title : FsCreate(n, p, t)
       \/ \E n \in Id, t \in Title : FsRename(n, t)
       \/ \E n \in Id, p \in Id \cup {Root}, pos \in Position : FsMove(n, p, pos)
    /\ UNCHANGED <<cacheVars, indexVars, stuck>>

(* A new process: cache populated from disk (or not, when load_tree fails),  *)
(* flag cleared because it lives in memory, index rebuilt when the count()   *)
(* probe fails or finds no row and the rebuild goes through.                 *)
Restart(populates, rebuilds) ==
    /\ loaded' = (HasCache /\ populates)
    /\ boot' = IF loaded' THEN node ELSE << >>
    /\ bootKids' = IF loaded' THEN LoadedKids ELSE << >>
    /\ cached' = DOMAIN boot'
    /\ stale' = FALSE
    /\ stuck' = FALSE
    /\ rebuilds => HasSync
    /\ HasSync /\ DbFaults = {} => rebuilds = (DOMAIN index = {})
    /\ UNCHANGED fsVars
    /\ index' = IF rebuilds THEN [x \in Live |-> Row(node, x, node[x])] ELSE index

Init ==
    /\ FsInit
    /\ loaded = HasCache
    /\ boot = << >>
    /\ bootKids = << >>
    /\ cached = {}
    /\ index = << >>
    /\ stale = FALSE
    /\ stuck = FALSE

Next ==
    \/ \E n \in Id, p \in Id \cup {Root}, t \in Title : Create(n, p, t)
    \/ \E n \in Id, t \in Title : Rename(n, t)
    \/ \E n \in Id, m \in Meta : UpdateMetadata(n, m)
    \/ \E n \in Id, p \in Id \cup {Root}, pos \in Position : Move(n, p, pos)
    \/ \E n \in Id : Delete(n)
    \/ \E n \in Id, c \in Canvas : WriteCanvas(n, c)
    \/ BlockedRequest
    \/ \E populates, rebuilds \in BOOLEAN : Restart(populates, rebuilds)

Spec == Init /\ [][Next]_vars

-----------------------------------------------------------------------------
RowRecord == [parent: Id \cup {Root}, story: Id \cup {NoStory}, title: Title, path: Seq(Slugs)]

TypeOK ==
    /\ issued \subseteq Id
    /\ Live \subseteq issued
    /\ place \in [Live -> [home: Live \cup {Root}, slug: Slugs]]
    /\ node \in [Live -> NodeRecord]
    /\ kids \in [Live -> Seq(Id)] /\ \A n \in Live : Once(kids[n])
    /\ canvas \in [Live -> Canvas]
    /\ loaded \in BOOLEAN
    /\ DOMAIN boot \subseteq issued
    /\ boot \in [DOMAIN boot -> NodeRecord]
    /\ bootKids \in [DOMAIN boot -> Seq(Id)]
    /\ cached \subseteq DOMAIN boot
    /\ DOMAIN index \subseteq issued
    /\ index \in [DOMAIN index -> RowRecord]
    /\ stale \in BOOLEAN
    /\ stuck \in BOOLEAN

(* At boot every child stood in its parent's list, and no walk over the      *)
(* lists was endless.                                                        *)
BootListsSound ==
    /\ \A c \in DOMAIN boot : boot[c].parent # Root => c \in ToSet(bootKids[boot[c].parent])
    /\ \A r \in DOMAIN boot : WalkEnds(bootKids, r)

(* "The repository invalidates on every write": an entry still in the cache  *)
(* is that of a node still on disk, with its present title, parent and       *)
(* metadata, however far up the tree the write was, if the lists read at     *)
(* boot were sound.                                                          *)
CacheFresh ==
    BootListsSound => \A n \in cached : n \in Live /\ boot[n] = node[n]

(* A metadata update writes the cached Node back; the parent and the title   *)
(* it writes are never older than those on disk.                             *)
WriteBackFresh == ~stuck => \A n \in cached \cap Live : boot[n] = node[n]

(* The columns of a row that do not name its node's directory.               *)
SameColumns(row, tree, n) ==
    /\ row.parent = tree[n].parent
    /\ row.title = tree[n].title
    /\ row.story = StoryOf(tree, n, tree[n].parent)

(* n has a row exactly while it is on disk, with its parent, title and story. *)
RowRight(n) ==
    /\ n \in Live <=> n \in DOMAIN index
    /\ n \in Live => SameColumns(index[n], node, n)

(* The nodes a move or delete of r hears of: none when the walk never ends.  *)
Told(r, lists) == IF WalkEnds(WalkedLists(r, lists), r) THEN Evicted(r, lists) ELSE {}
Moves(r) == r \in Live' /\ \E pos \in Position : Move(r, place'[r].home, pos)

(* The ways in which a row is left behind with the flag down. A lookup that  *)
(* fails counts as "row not yet in index": a new title is lost.             *)
LookupFailed(n) ==
    /\ "read" \in DbFaults
    /\ n \in Live \cap Live' /\ node'[n].title # node[n].title
    /\ UNCHANGED index

(* The hook of a create or a move took the row from a Tree of the boot that  *)
(* has another parent, title or story for n than the disk.                   *)
TreeRow(n) == Row(ProviderTree, n, IF n \in DOMAIN ProviderTree THEN ProviderTree[n] ELSE node'[n])
Misprojected(n) ==
    /\ n \in Live' \ Live \/ \E r \in Live : Moves(r) /\ n \in Told(r, kids')
    /\ n \in DOMAIN index' /\ index'[n] = TreeRow(n)
    /\ ~SameColumns(index'[n], node', n)

(* n is below the node moved or deleted and the walk over the lists of the   *)
(* boot does not name it, or the walk names it and n has left.               *)
Missed(n) ==
    \E r \in Live :
        \/ Moves(r) /\ n \in DirectoryTree(r) \ Told(r, kids')
        \/ FsDelete(r) /\ (n \in DirectoryTree(r) <=> n \notin Told(r, kids))

(* TECH_SPEC "Failure semantics": the index may have drifted, the staleness  *)
(* flag says so. In the wiring of the lifespan, with failures at any row: a  *)
(* step that makes a node's row wrong raises the flag, but for a failed      *)
(* lookup, a row the Tree of the boot has wrong, a walk over its lists that  *)
(* is wrong about the node, and requests that wait for the lock for ever.    *)
DriftIsFlagged ==
    [][\/ stale' \/ stuck
       \/ \A n \in Id : RowRight(n) /\ ~RowRight(n)' =>
             LookupFailed(n) \/ Misprojected(n) \/ Missed(n)]_vars

(* m has hung below r in the same place since the boot.                      *)
StayedBelow(m, r) ==
    \A a \in DirectoryTree(r) \ {r} :
        m \in DirectoryTree(a) => a \in DOMAIN boot /\ boot[a].parent = node[a].parent

(* A move moves the directories of all nodes below it: the row of each that  *)
(* has hung there since the boot gets its new path, also of those an earlier *)
(* rename had left behind, or the flag is up, at whatever row it fails.      *)
MoveRefreshesPaths ==
    [][\/ stale'
       \/ \A r \in Live : Moves(r) /\ BootListsSound /\ WalkEnds(WalkedLists(r, kids'), r) =>
             \A m \in DirectoryTree(r) : StayedBelow(m, r) =>
                m \in DOMAIN index' /\ index'[m].path = Paths'[m]]_vars

-----------------------------------------------------------------------------
(* What the documents say of the production wiring and the code does not do. *)

(* TECH_SPEC on the synchroniser: it sees the tree as it is after the write  *)
(* and its failures raise the flag; a step that makes a row wrong, with a    *)
(* database that answers, says so.                                           *)
NoSilentDrift == [][\A n \in Id : RowRight(n) /\ ~RowRight(n)' => stale']_vars

(* ADR-0017: "cache corruption must only affect performance". No request     *)
(* walks the children lists in a circle, the cache's lock held.              *)
NeverStuck == ~stuck

(* TECH_SPEC "Memory tree immediately after disk": a listing of children     *)
(* shows the children the node has after the last write.                     *)
ListingCurrent ==
    \A n \in Live : ToSet(LoadChildren(n)) = {c \in Live : node[c].parent = n}
=============================================================================
