# A TLA+ development of perfect-task-tracker

The program keeps a forest of *Nodes* (Stories, tasks, notes). The workspace
directory on disk is the source of truth; a cache in memory answers reads; a
table in Postgres (`node_index`) is a projection for search. Paths below are
relative to `src/backend/`.

## 1. Inventory

| Component | State | Operations | Calls |
|---|---|---|---|
| Workspace directory, `filesystem/impl/local_filesystem.py` | one directory per Node with `node.json` (title, parent_id, children_ids, metadata) and `canvas.md` | create_node, rename_node, write_node, move_node, delete_node, write_canvas | disk |
| Workspace service, `services/workspace_service.py` | none | the same operations with title checks and typed errors | repository |
| Repository, `repositories/impl/local_workspace_repository.py` | none of its own | each write: disk, then cache invalidation, then one index hook; reads are cache-first | directory, cache, synchroniser |
| Cache, `workspace/cache.py`, and `workspace/tree_provider.py` | the Tree read at boot, a dictionary of its nodes from which writes remove ids, a re-entrant lock | populate, load_node, load_children, load_tree, invalidate(_many), subtree_ids | domain tree |
| Synchroniser, `index/sync.py` | a staleness flag | on_node_created, renamed, moved, deleted, on_metadata_updated, on_canvas_updated | tree provider, path provider, index repository |
| Index repository, `index/impl/sqlalchemy_index_repository.py` | rows of `node_index` | get, upsert, delete, count, all_node_ids, replace_all, each a transaction | Postgres |
| Reconciler, `index/reconciler.py` | none | rebuild: load tree, project, list ids, replace all rows | repository, index repository |
| Startup, `index/startup.py`, `core/startup_subsystem.py`, `core/lifespan.py` | a report | config, filesystem check, index probe, decision, rebuild, classification, cache population | all of the above |
| Domain tree, `domain/tree.py` | nodes by id | add, attach, detach, insert_child, move_child, remove, subtree | none |
| Search, `search/service.py` | none | validate, scan row by row, filter, sort, page | index repository |
| HTTP API, `api/` | none | one endpoint per operation, on a pool of threads; a readiness probe over the boot's report | service, search |
| Configuration, logging, ORM models, migrations | constants | none that change state | |

Where it is hard, and what makes each part correct:

- **Directory.** `parent_id`, `children_ids` and the nesting of directories are
  three copies of one relation, written one file at a time. Correct: they
  agree after every operation, there is no cycle, names are free, sibling order
  is the user's.
- **Cache.** Nothing refills it after the boot and a write only removes ids.
  Correct: what it still answers is what the disk says, although the set of ids
  to remove is itself read from a Tree of the boot.
- **Repository.** `update_metadata` writes a Node it took from the cache back to
  disk, so a stale entry does not stay a wrong *read*.
- **Index.** Hooks are best effort. Correct: rows equal the disk, or the flag is
  up. The code does not quite keep that (section 4); what it does keep is stated
  with its exceptions named.
- **Boot.** Database and disk may fail at any stage and the process may die.
  Correct: rows are replaced all or not at all, an outcome that promises an
  exact index has one, and the boot ends.
- **Threads.** FastAPI runs the endpoints, plain functions, on a pool of threads;
  only the cache has a lock. Correct: the cache comes back to the disk, no read
  goes behind an answered write, a `node.json` is whole at any moment, requests
  about different nodes leave each other alone, rows of a node that one request
  at a time writes are exact or flagged, a failed lookup apart.
- **Search.** A scan is one transaction per row, each page a scan of its own.
  Correct: pages partition the result of an index at rest; a scan of a changing
  index that answers at all misses nothing that nobody touched and counts nothing
  twice.

PROJECT.json lists each hazard at its line.

## 2. Modules

| Module | Models |
|---|---|
| `NodeTree` | operators on ordered children lists, reachability, roots, slugs |
| `WorkspaceTree` | abstract: the forest the service promises |
| `LocalFilesystem` | the directory, one action per operation |
| `DiskSteps` | the directory, one action per file system call, with crashes |
| `Workspace` | repository, cache, synchroniser and rows over `LocalFilesystem` |
| `RequestThreads` | requests on several threads: each step of repository, cache and synchroniser |
| `DirectoryThreads` | create, rename and write of root Stories on several threads: each file system call |
| `Search` | a client reading page after page while hooks change the rows |
| `Startup` | one boot after another, with failures and crashes, and the readiness probe |
| `NodeTree_proofs`, `LocalFilesystem_proofs`, `DiskSteps_proofs`, `Workspace_proofs`, `RequestThreads_proofs`, `DirectoryThreads_proofs`, `Startup_proofs`, `Search_proofs` | lemmas and theorems |
| `MCLocalFilesystem`, `MCDiskSteps`, `MCWorkspace`, `MCRequestThreads`, `MCDirectoryThreads`, `MCSearch`, `MCStartup` | instances for TLC |

`Workspace` EXTENDS `LocalFilesystem`: its actions conjoin the directory's action
with the effect on the cache and on the rows, in the order of the repository's
method. `DiskSteps` implements `LocalFilesystem` as long as nothing is cut short
(`AtomicSteps`). `LocalFilesystem` and `Workspace` both implement `WorkspaceTree` under
`tree <- node, pages <- canvas, spent <- issued`.

**LocalFilesystem.** `place[n]` is the directory of `n`: the node whose directory
holds it, and its name. `node[n]` and `kids[n]` are the two halves of
`node.json`, `canvas[n]` is `canvas.md`, `issued` the UUIDs handed out
(`new_node_id` never repeats one). `FsCreate` ... `FsWriteCanvas` are the methods
of the same name; a guard stands for each exception the method raises before it
writes. A directory name is a sequence of words, so that `"a-2"` as the slug of
the title "a 2" and as the second `"a"` are the same value. `FsMove` keeps a
peculiarity of the code: a move within the same parent finds the node's own
directory in the way and renames it to `-2`.

**DiskSteps.** A request draws up its `plan`, the calls of its method in their
order, from what it reads at its start; each action makes the first call of the
plan. That is the code's behaviour as long as requests run one at a time, because
nothing the method reads later has been written by another. A `node.json` or
`canvas.md` is written in one step (a temporary file is renamed into place).
`rmtree` takes the entries of a directory in any order. `Crash` drops the plan; a
call that raises leaves the same files behind, and the next request may come from
the same process. Directories now exist without `node.json`, so `place` has a
domain of its own. `cut` records the nodes a crash harmed: the one the request
was about and those below it at that moment.

**Workspace.** `boot`, `bootKids` are the Tree that `populate()` stored; `cached`
is the set of ids still in the dictionary. Two facts of the code are the core of
the model: the Tree is never updated, and the synchroniser's tree provider
returns that same Tree (`ProviderTree`). The wiring is that of `lifespan.py`; the
constants leave room for a repository without a synchroniser, or with neither
synchroniser nor cache, but not for a synchroniser that reads anything but the
cache (`WiringAssumption`), since the program has no other provider.
`DbFaults` says which database calls may fail: `"read"` the first lookup of a
hook, `"write"` its updates; a move or a delete updates row by row and may stop,
or skip, anywhere. `stuck` records a walk over looping lists: inside
`cache.subtree_ids` it never returns and keeps the lock, so afterwards only the
disk halves of create, rename and move happen (`BlockedRequest`). `Restart` is a
new process; the boot is one step here and has its own module.
`DriftIsFlagged` is the documents' promise as far as the code keeps it: a step that
makes a row wrong raises the flag, but for `LookupFailed` (the lookup of a retitled
node's hook failed), `Misprojected` (the hook of a create or a move took the row
from a Tree that has another parent, title or Story for the node), `Missed` (a
move or a delete walked the lists of the boot, which do not name the node, or name
it although it has left) and a request that never gets out of its walk.

**RequestThreads.** `job[t]` is the request that thread `t` runs: the steps it has
still to make (`Steps`, the order of the repository's methods), the Node it has
read or written and the title its hook has read. A call to the directory, to the
cache (which locks) and a transaction of the index are one step each. `disk[n]` is
`node.json`: `rev` the number of the write that put it there, `title` the write
that gave the node its title, which is the part of it a row repeats. An
`update_metadata` writes the Node it loaded, so it may put an older title back.
The service loads the node once more before that, to validate (the first of the
two `load` steps). The wiring is that of the lifespan: `Upsert` after a rename raises
when the node is not in the Tree of the boot. `Lookup` may fail at any time, which
ends the hook with the flag down. `answered`, `suspect` and `missed` are history: the
last write to each node that was answered with success, the nodes on which two
writing requests overlapped or a crash cut one short, and those whose row an edit
left alone because its lookup failed. The nodes are root Stories; lists of children
are the subject of `LocalFilesystem`.

**DirectoryThreads.** What `RequestThreads` takes as one call to the directory,
taken apart. `entry` maps the names in the workspace directory to directories,
`file` the names in them to inodes, `data` the inodes to contents; a handle
(`job[t].h`) keeps its inode whatever happens to the names, which is why the
temporary file of `write_node_json` had to be modelled by inode. The walk of
`node_dir` (`List`, `Look`, `Read`), the search for a free name (`Try`, one
`exists()` at a time), `mkdir`, `rename` (which replaces an empty directory),
open, write, `replace` and the clean-up after an exception are steps of their
own. A rename goes on with the node its directory turns out to hold (`Again`), which
is another when the directory has been replaced since. `shared` records the files two threads had open at once or one put in place
that it had not written; `met` the nodes of requests that ever held one path.

**Search.** `scan` is the request that runs: the ids still to read, the rows read,
the total it answers. `walk` is a client that asks for page 0, 1, ... until one is
empty. The ids come in any order (`AllNodeIds`: the statement has no ORDER BY) and
in another one for each page. Titles are model values; `Fold` is their casefolded
text as a sequence of numbers, so that exact match, prefix and order are what the
code computes. The statement for the ids and every get may raise, a get also because
its row has gone; either ends the search with an error. `Upsert` and `DeleteRow` are
hooks of other requests.

**Startup.** Stages follow `StartupSubsystem.run` > `StartupCoordinator.run` >
`IndexReconciler.rebuild` > `replace_all`. `table` is the content an open
transaction sees; only `CommitRows` moves it to `index`, and a `Crash` at any
stage drops it. `whole` is history: what the index last was when a rebuild had
committed all its rows or a hook its one. Between boots requests write nodes (`WriteNode`, `DeleteNode`;
a subtree's delete is a sequence of deletes of leaves) with hooks that may fail,
and files are damaged or mended by hand (`Damage`). Note that the cache is
populated *after* the index probe and the rebuild; `HealthReady` is what
`/health/ready` answers from the report (a missing report counts as FAILED); the comment at
`core/startup_subsystem.py:154-163` states the opposite order.

## 3. Runs

| Run | Instance | Shows |
|---|---|---|
| `fs` | 4 nodes, titles "a" and "a 2", positions 0, 1, 2 | type, `ListsMatchParents`, `ListsNameLiveNodes`, `NoCycle`, `SiblingSlugsDistinct`, `OrderKept` |
| `crash` | 3 nodes, one title, positions 0 and 9, one crash | `TypeOK`, `AtomicSteps`, `DamageStaysBelow`, `BootLoadsRest` |
| `cached` | 2 nodes, 2 titles, 2 metadata values, cache and index, every database call may fail | `CacheFresh`, `WriteBackFresh`, refinement of `WorkspaceTree`, `DriftIsFlagged` |
| `index` | 3 nodes, 1 title, cache and index, updates may fail at any row | `TypeOK`, `ParentIsDirectory`, `CacheFresh`, refinement of `WorkspaceTree`, `DriftIsFlagged`, `MoveRefreshesPaths` |
| `startup` | a root and a child, 2 revisions | `TypeOK`, `AllOrNothing`, `RecoveringIsExact`, `ReadyServesIndex`, `BootCompletes` |
| `threads` | 1 watched node, 3 threads, 3 disk writes, 1 crash | `TypeOK`, `CacheSettles`, `ReadsSeeAnswered`, `RowsSettle` |
| `directory` | 2 nodes, 2 threads, 1 slug with its numbered names, 3 writes of a `node.json`, 2 failures or crashes | `TypeOK`, `WholeUnlessShared`, `ApartUndisturbed` |
| `search` | 3 ids, 2 titles (one a prefix of the other), 2 time stamps, pages of 1 and 2, 1 hook during a walk, any read may fail | `TypeOK`, `PagesPartition`, `ScanComplete` |
| `bug_stuck`, `bug_listing`, `bug_healthy`, `bug_drift` | small | violated: section 4 |

*Bounds.* The set of ids bounds every run: an id is used once, so with all of
them spent only moves, renames, deletes and writes remain. Four nodes are the
least with a parent of three children (an insertion in the middle) and a chain
deep enough for a move below a grandchild. Three nodes are the least at which a
subtree changes Story (a root, a second root, a child) and at which an eviction
read from the Tree of the boot differs from the subtree on disk; also those at which
a move halfway through its rows leaves one of them behind. Two are enough
where the question is about one node's data and its parent: in `cached` an entry
could be older than the disk in each of parent, title and metadata. Titles collide on
purpose. In `threads` every property is about one node at a time and no step of a request
about one node reads or writes anything of another but the flag (which may rise
at any time anyway) and, after a crash, whether there are any rows at all (either
case is allowed); so one watched node is enough, while a write, a second write
and a reader need three threads. In `directory` two threads meet on a node, on a
name, or not at all; three writes are two that mix and one after them, or two
and the one before whose file they reuse; two faults are a failed write and a
crash after it. Two contents of different size show the tail a shorter text
leaves behind. In `search` three rows on pages of one are three scans whose orders
may all differ. `cached` and `index` look at states through `Relevant`, which drops two
kinds of detail. Directory names and the order of children enable no action there (all
titles have one slug). Of the rows it keeps which there are and which are right, and
nothing while the flag is up: what a wrong row holds depends on the path TLC came by,
and of two states that differ in it alone TLC goes on from one only. So the two runs
do not enumerate every way in which a wrong row goes on being wrong; the theorems
`DriftAlwaysFlagged` and `MovesRefreshPaths` do not depend on the view. Permutations
of ids are symmetries: no action or property tells ids apart. The instances of `LocalFilesystem` and
`DiskSteps` may run out of ids and nodes, and `DirectoryThreads` of writes, so
`fs`, `crash` and `directory` do not check deadlock; all others do. In `crash`
three nodes are a chain, or two parents and the child that moves between them;
with one crash every later request still meets the damage. `before` is not part of the state viewed between requests, when
nothing reads it.

*Fairness.* Only `Startup` assumes any: weak fairness of `BootStep`. The stages
are consecutive statements on the thread of the lifespan and each ends, by
return or by exception, as far as the database driver's calls do. Starting the
process again after a crash is not assumed, so `BootCompletes` admits `"down"`.

## 4. Disagreements between the documents and the code

With a run (`expect: violation`), quoted in PROJECT.json:

- `bug_stuck`: an `update_metadata` writes the cached Node back with the children
  list of the boot. One such write-back is enough: a child is created below a node;
  after a restart it moves out, an `update_metadata` of the node puts it back into
  the node's list on disk, and the node moves below it. Now each lists the other, and
  after the next boot `Tree.subtree`, which keeps no set of visited nodes, does not
  return, and it holds the cache's lock.
- `bug_listing`: `load_children` answers from the Tree of the boot.
- `bug_healthy`: a hook fails, the process restarts, the index is not empty: the
  boot is HEALTHY over rows that have drifted. (`sync_flagged_stale` is never the
  reason of a rebuild: the flag of a new process is down.)
- `bug_drift`: the synchroniser projects rows from the Tree of the boot. The child
  of a Story created since gets a row without a Story (`OnCreated` with
  `ProviderTree`), with no call failed and no flag raised, against the contract of the
  provider, "the filesystem state AFTER the triggering write"
  (`index/sync.py:168-169`), and "catches every write on the hot path. Drift
  accumulates only across crashes" (`TECH_SPEC.md:2976-2978`).

Met while modelling, visible in the model, without a run of their own:

- `ListsMatchParents` fails in `Workspace` with a cache: create a child under a node
  that was cached at boot, then update the node's metadata; the write-back drops the
  child from the list on disk (`local_workspace_repository.py:488`). This is the
  first half of `bug_stuck`.
- In the same way as in `bug_drift` a moved row gets the parent and Story of the boot
  (`OnMoved`), against "the *current* parent_id from the Tree"
  (`TECH_SPEC.md:2409-2412`): `Misprojected` in `DriftIsFlagged`.
- `_do_rename` takes every failure of its lookup for a missing row (`OnRetitled` with
  `db = "read"`, `Lookup`): the row keeps the old title with the flag down, against
  "the index may have drifted; the staleness flag says so" (`TECH_SPEC.md:2398-2400`)
  and the comment "404 -> no-op + stale flag" (`index/sync.py:454`): `LookupFailed` in
  `DriftIsFlagged`, `missed` in `RowsSettle`.
- "No partial JSON is ever observable" (`TECH_SPEC.md:271-275`) holds unless two
  writers share the temporary file (`WholeUnlessShared`, `JsonIsWhole`): `open("w")`
  of the second empties the file the first then puts in place, or a longer text
  keeps its tail behind a shorter one.
- "Collisions with existing siblings are auto-resolved" (`TECH_SPEC.md:278-282`):
  between `exists()` and `mkdir` or `rename` another request can take the name.
  `mkdir` then fails (500). `rename` does not when the other directory is still
  empty: it replaces it, both requests write under one path, and one node is gone
  although its request may have been answered with success (`Rename`, `met`).
- A write whose `replace()` finds its temporary file gone answers 500 with its
  content possibly in place (`Replace`); a request about one node answers 500 when
  an unrelated directory is renamed during its walk (`Read`).
- Two requests that write one node at once can leave its row behind the disk, or a
  row for a deleted node, with the flag down (`RowsSettle` with `suspect` left out
  fails); so can a crash between the disk write and the hook. That the second of
  two writers overwrites the first is documented (`TECH_SPEC.md:810-813`); that the
  index then differs from the disk is not.
- A search answers 500 when a row is deleted between the list of ids and its get, or
  the database fails at either (`BeginSearch`, `Fetch`); the endpoint declares 200 and
  422.
- A delete leaves the row of a descendant that
  joined the subtree after the boot, and removes the row of one that left it
  (`Delete` with `WalkedLists`), the flag down in both cases (`Missed`). That such a
  descendant's cache entry goes all the same is `CacheFresh`: whatever joined since the
  boot has been evicted by the write that moved it.
- `on_node_renamed` keeps the row's path, "the relative path stays the same"
  (`index/sync.py:334-336`); the directory is renamed. This is why `DriftIsFlagged`
  leaves the path out and `MoveRefreshesPaths` states when it is right again.
- `all_node_ids` failing makes a rebuild that commits every row report errors
  (`ListIds`, `CommitRows`), against "no rows have been committed"
  (`index/reconciler.py:85-86`).
- `delete_node` says "Delete deepest first" (`local_filesystem.py:223`) and calls
  `rmtree` on the directory itself first: `reversed` puts it at the head. A crash
  in the middle can leave nodes whose parent has no `node.json` any more
  (`Delete`, `UnlinkFile`, `Crash`). The boot drops them (`Loaded`), and they can
  be neither moved nor deleted, since both begin by looking their parent up
  (`Attached`). `DamageStaysBelow` says that it gets no worse than that.
- A damaged `node.json` takes its subtree out of a rebuild that reports success
  (`Loadable`), against "we never silently drop a Node" (`index/reconciler.py:233`).

## 5. Proofs

All theorems hold for every finite set of ids, every set of titles with every
slug function into sequences of numbers, all metadata, canvases and positions;
those of `Workspace` for every wiring that `WiringAssumption` allows and every choice
of failing calls, the two about the index (`DriftAlwaysFlagged`, `MovesRefreshPaths`)
for the wiring of the lifespan; those of `RequestThreads` and
`DirectoryThreads` for any finite number of threads and any number of nodes,
writes, failures and crashes; those of `DiskSteps` for any number of nodes and
crashes; those of `Search` for any number of rows, titles,
time stamps and hooks and for every size of a page. The
assumptions are the named ASSUMEs of `LocalFilesystem` (ids are finite and are
not `Root`; slugs are sequences; a default metadata and canvas exist), `DiskSteps` (the same
and `CrashAssumption`: the bound on crashes is a number),
`Workspace` (`WiringAssumption`), `RequestThreads` (`CountAssumption`;
`PoolAssumption`: the pool of threads is finite), `DirectoryThreads`
(`ValueAssumption`: ids are not numbers, slugs are; `PoolAssumption`), `Startup`
(`ShapeAssumption`) and `Search` (`BoundAssumption`; `IdAssumption`: ids are finitely
many and ordered like numbers, since the last tie of a sort is the id;
`TitleAssumption`: a title folds to a sequence of code points).

- `NodeTree_proofs`: facts about `Reach` (it is closed, least, transitive),
  `Rooted` (kept by adding a leaf, by restriction, and by rehanging a node to one
  outside its subtree), the list operations (what `Without`, `Appended`, `Inserted`
  contain, that they name nothing twice and keep the order of the others, what
  `Only` lets through, and that a walk along the lists meets what a walk along the
  parents meets), that a function defined from the root of a forest downwards, as
  the path of a directory is, exists (`BuiltFromRoot`), and that
  `UniqueSlug` returns a free name, by counting: there are more suffixes than
  siblings.
- `LocalFilesystem_proofs`: three layers. `DirInv` (types, directories, parents,
  no cycle) is inductive by itself and is what the repository needs as well;
  `ListInv` adds the children lists; `FsInv` adds distinct names. The layers are
  needed because `FsDelete` cuts a *directory* subtree while lists and parents
  name nodes: `ParentIsDirectory` carries the one over to the other. Theorems
  `TypeCorrect`, `ParentsAreDirectories`, `ListsAreParents`, `ListsNameTheLiving`,
  `ListsKeepOrder`, `ForestHasNoCycle`, `SiblingsApart`, `ImplementsWorkspaceTree`.
- `DiskSteps_proofs`: `DiskInv`. A crash may come between any two calls, so every
  intermediate state must be fit to be left behind. The files are passed around as
  one record, because three of them are compared: those the request began with,
  those it has made so far, and those it will leave. For a request that writes,
  `Way` lists the states its calls go through up to the last, and each is `Fine`:
  outside the node the request is about and the directories below it every node is
  sound (`Sane`). That follows from `Safe`, which each kind of call keeps (`SafeDir`,
  `SafeList`, `SafeOwn`, `SafeCanvas`): the calls change nothing but that node and
  its entry in other lists, and no list names it unless its directory and its
  `node.json` agree with that list. This is why the order "out of the old list, move,
  rewrite, into the new list" matters. For `rmtree`, whose steps come in any order,
  `Thinned` says that outside the deleted directory nothing is missing and that what
  is left inside still hangs on it; `Walked`, that the directories the walk is in
  lie inside one another. `Goal` is that the last state is sane again and, if nothing
  crashed so far, what one step of `LocalFilesystem` makes of the first. `CallsOK`
  types the calls still planned, names of directories included, which `DiskTypeCorrect`
  needs. `BootLoadsRest` compares paths, and a path is a recursive function of the
  directories: `PathsBuilt` shows that it is the one function that takes each
  directory from the one above it, by joining the pieces of it that exist over sets
  closed under parents and extending them by one directory, so that the order of the walk puts a parent before its
  children (`ParentComesFirst`) and a chain of undamaged nodes is loaded from its top
  down (`UndamagedAreLoaded`). Theorems `DiskTypeCorrect`, `CrashHarmsOnlyBelow`,
  `RequestsAreAtomic` (the property `AtomicSteps`), `BootLoadsTheRest`.
- `Workspace_proofs`: `RepoInv` = `DirInv` and "an entry still cached of a live
  node equals the node on disk". Without the second part a metadata update could
  write an old parent and `DirInv` would fall; without the first the write-back
  would not be typed. Theorems `CachedWriteBackIsFresh`, `RepositoryKeepsParents`,
  `RepositoryImplementsTree`. `CacheFresh` also speaks of entries whose node is gone,
  and is not inductive: a delete evicts the subtree of the *boot* and removes the
  subtree of the *disk*. `ChainInv` adds why the one covers the other: above a
  cached node nothing has moved, so its chain of parents in `boot` is its chain on
  disk. Theorem `CacheAlwaysFresh`.
  `DriftAlwaysFlagged` and `MovesRefreshPaths` assume only `HasSync`, hence the wiring of
  the lifespan (`WiringAssumption`), and nothing about which calls fail. The first goes
  through one lemma per operation (`DriftCreate`, `DriftRetitle`, `DriftMove`,
  `DriftDelete`, joined in `DriftStep`): a node that keeps its parent, and whose parents
  keep theirs, keeps its Story (`KeepsStory`), so a row the hook does not write stays
  right (`RowStays`), and one it writes wrongly is one of the exceptions the property
  names. The second rests on `WalkFindsStayed`, that the walk over the lists of the
  boot, when they are sound, finds every node that has hung below the moved one since,
  and on `MoveHook`, what the hook has written if the flag is down after it.
  `RepositoryTypeCorrect` adds to `RepoInv` the types of the lists, those of the boot
  included (`ListsTyped`: a write-back puts the list of the boot on disk), and of the
  rows (`RowsTyped`: a hook reads title and parent from whichever tree the provider
  has, and the path from the disk after the write, where `PathsTyped` finds one for
  every directory because there is no cycle).
- `RequestThreads_proofs`: `ThreadInv`. `CacheSettles` is not inductive by itself: a
  write that is not followed by its eviction would break it, so `TypeInv` carries
  which steps a request can still have before it (`Rest`); `Settled` is
  `CacheSettles`, `Issued` that nobody writes a node that has no id yet, `Current` that
  neither the disk nor an entry of the cache is older than what was answered,
  `Writers` that a request past its eviction has left no entry behind, `Readers`
  what a read holds. Theorems `CacheAlwaysSettles`, `ReadsFollowAnswers`. The second
  needs `Writers`: a write is answered only after its eviction, so what the cache
  still has is as new as every answer. `RowsInv` gives `RowsAlwaysSettle`: between
  its write to the disk and the end of its hook a request owns the difference
  between row and disk, and a node that is not suspect has at most one such
  request; what it leaves behind when its lookup fails is in `missed` (`Agreed`). `BoundsInv` (the counters) gives `RequestsTypeCorrect`.
- `DirectoryThreads_proofs`: `FileInv`. A thread has at most one file open (`Handles`);
  a file has one name, and one that is a `node.json` and not shared is nobody's open
  file (`Placed`); what a thread has to itself is empty before its write and whole
  after it (`OwnFile`). The last part is what makes the step `replace` preserve the
  property. Theorem `JsonIsWhole`. `ApartInv` gives `ApartStaysWhole`, that requests
  which met on no path leave each other's nodes alone: `Requests` (what a thread's
  next steps can be), `Dirs` (one directory per name, one name per node that nobody met), `Meetings`
  (two requests on one path have been recorded in `met`) and `Quiets` (a node that
  is not in `met` has its own directory, a request about it is on course, and what
  was answered is what is there). `BoundsInv` gives `DirectoryTypeCorrect`.
  The three are inductive only together (`InvHolds`): a rename goes on with the node
  its directory holds, so which requests there can be depends on what is in the files.
- `Startup_proofs`: `BootInv` = types and, per stage, what `tree`, `table`, `index`,
  `whole` and the report hold. Theorems `BootTypeCorrect`, `RebuildIsAllOrNothing`,
  `RecoveringMeansExact`, `ReadyOverWholeRows`. `BootAdvances`
  is the part of `BootCompletes` that is no liveness: a boot makes at most twelve
  steps (`StepsLeft`).
- `Search_proofs`: each page is sorted by itself from a scan in another order, so
  that pages fit together is a fact about sorting. The order of the keys is total
  and the id breaks every tie (`BeforeOrder`), so the place of a row is the number of
  rows before it (`RankOrder`), whatever order they were read in; the page is a slice
  of one answer all scans share (`WholeAnswer`, `PageFacts`). `PagesInv` adds the
  history: an id is listed once (`Single`), a row that no hook touched is read or
  still to be read (`Covered`), and as long as no hook ran (`Untouched`) what the pages have shown is the
  beginning of that one answer (`Prefix`). `ScanComplete` follows from `Single`
  and `Covered` alone; `Prefix` rests on `ReadAllAnswer`, that a scan which has read the
  row of every id has each matching row once, at the place its key gives it. Theorems `PagesMakeOneAnswer`,
  `ScansMissNothing`, `SearchTypeCorrect`.

Every invariant and action property of the passing runs is a theorem. Only
model-checked is `BootCompletes`: that the steps `BootAdvances` bounds are taken is
liveness under fairness, and needs ENABLED.

## 6. Abstractions

Titles, metadata and canvases are model values; `slugify` is a constant function.
Time stamps, node types, `search_text`, hit counters and logging are left out.
In `LocalFilesystem` and `Workspace` one operation runs to its end before the next
begins; `DiskSteps` lets it be cut short, `RequestThreads` and `DirectoryThreads`
let others in between.

Not modelled: several threads and a *tree* at once. Moves, deletes and children
lists under concurrency multiply the steps of `DiskSteps` by the threads of
`DirectoryThreads`, and what the code does there is what `TECH_SPEC.md:810-813`
grants (the later writer wins, parent lists included), so a property would have
little to promise. HTTP status codes, configuration, ORM
declarations, migrations, log output and the test doubles keep no state that the
properties relate. `exists`, `list_by_story`, `upsert_many`, `delete_many`,
`atomic_write_bytes` and `clear` have no caller in the program.

## 7. Plan

1. Service errors (`_would_cycle` and the missing-parent case of a move) as operators
   checked against the directory's guards.
2. `DomainTree`: the mutators of `domain/tree.py` that only its tests call.
