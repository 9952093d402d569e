------------------------------- MODULE Startup -------------------------------
(* The boot of one process: StartupSubsystem.run over StartupCoordinator.run *)
(* and IndexReconciler.rebuild. The stages follow one another on one thread; *)
(* any call to the database or the disk may fail, and the process may die    *)
(* between any two of them, the replacement of all rows included. Disk and   *)
(* rows are told apart by the nodes they hold and a revision of each.        *)
EXTENDS NodeTree

CONSTANTS
    Id,         \* node ids
    Parent,     \* the parent of each, Root for a root Story
    Rev         \* what a write changes in a node, and its row repeats

ASSUME ShapeAssumption == Root \notin Id /\ Parent \in [Id -> Id \cup {Root}]

VARIABLES
    disk,       \* the node.json files: their revision
    unreadable, \* those that cannot be read back
    index,      \* the committed rows
    stage,      \* where the boot stands
    rows,       \* what count() said: "unknown", "unavailable", "none", "some"
    stale,      \* the synchroniser's flag, new with the process
    attempted,  \* rebuild_attempted
    tree,       \* the nodes load_tree returned to the rebuild
    flawed,     \* the rebuild has something in its errors
    table,      \* the rows as the open transaction of replace_all sees them
    report,     \* ReconcileReport: "none", "clean" or "errors"
    outcome,    \* StartupOutcome, "none" until it is classified
    before,     \* history: the committed rows when the boot began
    whole,      \* history: the rows as a rebuild or a hook last left them, done
    loaded      \* the cache is populated

lasting == <<disk, unreadable, index>>
boot == <<rows, stale, attempted, tree, flawed, table, report, outcome>>
vars == <<disk, unreadable, index, stage, rows, stale, attempted, tree, flawed, table, report,
          outcome, before, whole, loaded>>

Booting == {"config", "filesystem", "probe", "decide", "load", "project", "list",
            "truncate", "insert", "commit", "classify", "populate"}
Stages == Booting \cup {"down", "raised", "serving"}

(* load_tree skips what it cannot read and drops every node whose parent is  *)
(* not in the tree by then: a node is there if all above it could be read.   *)
Above == [x \in DOMAIN disk |-> {Parent[x]} \cap DOMAIN disk]
Loadable ==
    LET read == {n \in DOMAIN disk : Reach(Above, n) \cap unreadable = {}}
    IN  [n \in read |-> disk[n]]

-----------------------------------------------------------------------------
(* A new process has a new synchroniser, a new cache and no report.          *)
StartProcess ==
    /\ stage = "down"
    /\ stage' = "config"
    /\ rows' = "unknown" /\ stale' = FALSE /\ attempted' = FALSE
    /\ tree' = << >> /\ flawed' = FALSE /\ table' = << >>
    /\ report' = "none" /\ outcome' = "none"
    /\ before' = index
    /\ loaded' = FALSE
    /\ UNCHANGED <<lasting, whole>>

(* Configuration and workspace root: a failure ends the process.             *)
LoadConfig ==
    /\ stage = "config"
    /\ stage' \in {"filesystem", "raised"}
    /\ UNCHANGED <<lasting, boot, before, whole, loaded>>

ValidateFilesystem ==
    /\ stage = "filesystem"
    /\ stage' \in {"probe", "raised"}
    /\ UNCHANGED <<lasting, boot, before, whole, loaded>>

ProbeIndex ==
    /\ stage = "probe"
    /\ stage' = "decide"
    /\ rows' \in {"unavailable", IF DOMAIN index = {} THEN "none" ELSE "some"}
    /\ UNCHANGED <<lasting, stale, attempted, tree, flawed, table, report, outcome, before, whole, loaded>>

ShouldRebuild == rows = "unavailable" \/ stale \/ rows = "none"

(* Mutant: tries the probe again until the database answers.                 *)
DecideRetries ==
    /\ stage = "decide"
    /\ attempted' = ShouldRebuild
    /\ stage' = IF rows = "unavailable" THEN "probe" ELSE IF ShouldRebuild THEN "load" ELSE "classify"
    /\ UNCHANGED <<lasting, rows, stale, tree, flawed, table, report, outcome, before, whole, loaded>>

DecideRebuild ==
    /\ stage = "decide"
    /\ attempted' = ShouldRebuild
    /\ stage' = IF ShouldRebuild THEN "load" ELSE "classify"
    /\ UNCHANGED <<lasting, rows, stale, tree, flawed, table, report, outcome, before, whole, loaded>>

(* Mutant: the error does not reach the report.                              *)
RebuildFailsQuietly ==
    /\ stage \in {"load", "project", "truncate", "insert", "commit"}
    /\ stage' = "classify"
    /\ report' = "clean"
    /\ UNCHANGED <<lasting, rows, stale, attempted, tree, flawed, table, outcome, before, whole, loaded>>

(* A stage of the rebuild that ends it with an error; a transaction that is  *)
(* open is rolled back.                                                      *)
RebuildFails ==
    /\ stage \in {"load", "project", "truncate", "insert", "commit"}
    /\ stage' = "classify"
    /\ report' = "errors"
    /\ UNCHANGED <<lasting, rows, stale, attempted, tree, flawed, table, outcome, before, whole, loaded>>

LoadTree ==
    /\ stage = "load"
    /\ stage' = "project"
    /\ tree' = Loadable
    /\ UNCHANGED <<lasting, rows, stale, attempted, flawed, table, report, outcome, before, whole, loaded>>

(* Every node got its path: rows are built for all of the tree.              *)
ProjectTree ==
    /\ stage = "project"
    /\ stage' = "list"
    /\ UNCHANGED <<lasting, boot, before, whole, loaded>>

(* all_node_ids, for the count of deleted rows. Its failure is an error of   *)
(* the report; the rebuild goes on.                                          *)
ListIds ==
    /\ stage = "list"
    /\ stage' = "truncate"
    /\ flawed' \in BOOLEAN
    /\ UNCHANGED <<lasting, rows, stale, attempted, tree, table, report, outcome, before, whole, loaded>>

(* Mutant: truncate() first, in a transaction of its own.                    *)
TruncateCommits ==
    /\ stage = "truncate"
    /\ stage' = "insert"
    /\ table' = << >>
    /\ index' = << >>
    /\ UNCHANGED <<disk, unreadable, rows, stale, attempted, tree, flawed, report, outcome, before, whole, loaded>>

(* replace_all: delete, insert and commit in one transaction.                *)
TruncateRows ==
    /\ stage = "truncate"
    /\ stage' = "insert"
    /\ table' = << >>
    /\ UNCHANGED <<lasting, rows, stale, attempted, tree, flawed, report, outcome, before, whole, loaded>>

(* Mutant: a row, and what the transaction has done so far, at each commit.  *)
InsertCommits ==
    /\ stage = "insert"
    /\ \/ \E n \in DOMAIN tree \ DOMAIN table :
             /\ table' = [x \in DOMAIN table \cup {n} |-> tree[x]]
             /\ index' = table'
             /\ UNCHANGED stage
       \/ /\ DOMAIN table = DOMAIN tree
          /\ stage' = "commit"
          /\ UNCHANGED <<table, index>>
    /\ UNCHANGED <<disk, unreadable, rows, stale, attempted, tree, flawed, report, outcome, before,
                   whole, loaded>>

InsertRows ==
    /\ stage = "insert"
    /\ stage' = "commit"
    /\ table' = tree
    /\ UNCHANGED <<lasting, rows, stale, attempted, tree, flawed, report, outcome, before, whole, loaded>>

CommitRows ==
    /\ stage = "commit"
    /\ stage' = "classify"
    /\ index' = table
    /\ report' = IF flawed THEN "errors" ELSE "clean"
    /\ stale' = (stale /\ flawed)
    /\ whole' = tree
    /\ UNCHANGED <<disk, unreadable, rows, attempted, tree, flawed, table, outcome, before, loaded>>

Classify ==
    /\ stage = "classify"
    /\ stage' = "populate"
    /\ outcome' = IF attempted THEN IF report = "clean" THEN "recovering" ELSE "degraded"
                  ELSE IF rows = "unavailable" THEN "degraded" ELSE "healthy"
    /\ UNCHANGED <<lasting, rows, stale, attempted, tree, flawed, table, report, before, whole, loaded>>

(* A failure to populate the cache is a warning in the report, no more.      *)
PopulateCache ==
    /\ stage = "populate"
    /\ stage' = "serving"
    /\ loaded' \in BOOLEAN
    /\ UNCHANGED <<lasting, boot, before, whole>>

BootStep ==
    \/ LoadConfig \/ ValidateFilesystem \/ ProbeIndex \/ DecideRebuild
    \/ LoadTree \/ ProjectTree \/ ListIds \/ TruncateRows \/ InsertRows \/ CommitRows
    \/ RebuildFails \/ Classify \/ PopulateCache

(* The readiness probe. Before the lifespan has installed a report it        *)
(* answers as for FAILED.                                                    *)
GetStartupReport == IF stage = "serving" THEN outcome ELSE "failed"
IsReady(o) == o \in {"healthy", "recovering"}
HealthReady == IsReady(GetStartupReport)

-----------------------------------------------------------------------------
(* A request: the disk is written, then the row; a hook that fails leaves    *)
(* the rows alone and raises the flag.                                       *)
Hook(newRows) ==
    \/ index' = newRows /\ whole' = newRows /\ UNCHANGED stale
    \/ stale' = TRUE /\ UNCHANGED <<index, whole>>

WriteNode(n, r) ==
    /\ stage = "serving"
    /\ Parent[n] \in DOMAIN disk \cup {Root}
    /\ n \notin unreadable
    /\ disk' = [x \in DOMAIN disk \cup {n} |-> IF x = n THEN r ELSE disk[x]]
    /\ Hook([x \in DOMAIN index \cup {n} |-> IF x = n THEN r ELSE index[x]])
    /\ UNCHANGED <<unreadable, stage, rows, attempted, tree, flawed, table, report, outcome, before, loaded>>

(* Mutant: a node whose file cannot be read is deleted like any other.       *)
DeleteAnyNode(n) ==
    /\ stage = "serving"
    /\ n \in DOMAIN disk
    /\ disk' = [x \in DOMAIN disk \ {n} |-> disk[x]]
    /\ Hook([x \in DOMAIN index \ {n} |-> index[x]])
    /\ UNCHANGED <<unreadable, stage, rows, attempted, tree, flawed, table, report, outcome, before, loaded>>

DeleteNode(n) ==
    /\ stage = "serving"
    /\ n \in DOMAIN disk \ unreadable
    /\ \A x \in DOMAIN disk : Parent[x] # n
    /\ disk' = [x \in DOMAIN disk \ {n} |-> disk[x]]
    /\ Hook([x \in DOMAIN index \ {n} |-> index[x]])
    /\ UNCHANGED <<unreadable, stage, rows, attempted, tree, flawed, table, report, outcome, before, loaded>>

(* The process dies; an open transaction goes with it.                       *)
Crash ==
    /\ stage # "down"
    /\ stage' = "down"
    /\ UNCHANGED <<lasting, boot, before, whole, loaded>>

(* A node.json is damaged or mended by hand, no process running.             *)
Damage(n) ==
    /\ stage = "down"
    /\ n \in DOMAIN disk
    /\ unreadable' = IF n \in unreadable THEN unreadable \ {n} ELSE unreadable \cup {n}
    /\ UNCHANGED <<disk, index, stage, boot, before, whole, loaded>>

Init ==
    /\ disk = << >> /\ unreadable = {} /\ index = << >>
    /\ stage = "down"
    /\ rows = "unknown" /\ stale = FALSE /\ attempted = FALSE
    /\ tree = << >> /\ flawed = FALSE /\ table = << >>
    /\ report = "none" /\ outcome = "none"
    /\ before = << >> /\ whole = << >>
    /\ loaded = FALSE

Next ==
    \/ StartProcess
    \/ BootStep
    \/ Crash
    \/ \E n \in Id : (\E r \in Rev : WriteNode(n, r)) \/ DeleteNode(n) \/ Damage(n)

(* The stages run to their end on the thread of the lifespan; a supervisor   *)
(* that starts the process again is not assumed.                             *)
Spec == Init /\ [][Next]_vars /\ WF_vars(BootStep)

-----------------------------------------------------------------------------
Rows == UNION {[S -> Rev] : S \in SUBSET Id}

TypeOK ==
    /\ disk \in Rows /\ unreadable \subseteq DOMAIN disk /\ index \in Rows
    /\ stage \in Stages
    /\ rows \in {"unknown", "unavailable", "none", "some"}
    /\ stale \in BOOLEAN /\ attempted \in BOOLEAN /\ flawed \in BOOLEAN /\ loaded \in BOOLEAN
    /\ tree \in Rows /\ table \in Rows /\ before \in Rows /\ whole \in Rows
    /\ report \in {"none", "clean", "errors"}
    /\ outcome \in {"none", "healthy", "recovering", "degraded"}

(* ReconcileReport.is_success: the rows are "either fully consistent with    *)
(* the rebuild input, or entirely untouched", at every point of the boot,    *)
(* whichever call of it has failed.                                          *)
AllOrNothing == stage # "serving" /\ stage # "down" => index = before \/ index = tree

(* RECOVERING, and so ready with 200: the rebuild has gone through, and the  *)
(* rows are those of every node the workspace can load.                      *)
RecoveringIsExact == stage = "populate" /\ outcome = "recovering" => index = Loadable

(* The readiness probe turns to 200 only over rows that a rebuild or a hook  *)
(* has finished, in this process or in an earlier one, and never over the    *)
(* remains of a rebuild that failed or that its process died in. Where the   *)
(* boot found no rows to keep, they are those of every loadable node.        *)
ReadyServesIndex ==
    [][(~HealthReady /\ HealthReady') =>
          index' = whole' /\ (rows' = "some" \/ index' = Loadable)]_vars

(* The lifespan gets to serve, or raises, whatever fails on the way.         *)
BootCompletes == stage = "config" ~> stage \in {"serving", "raised", "down"}

-----------------------------------------------------------------------------
(* What the documents say of the boot and the code does not do.              *)

(* StartupOutcome.HEALTHY: "index ok, no rebuild needed". Rows that a failed *)
(* hook of an earlier process left behind pass for it.                       *)
HealthyIsExact ==
    stage = "populate" /\ outcome = "healthy" /\ unreadable = {} => index = disk
=============================================================================
