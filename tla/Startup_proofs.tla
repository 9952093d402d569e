---------------------------- MODULE Startup_proofs ----------------------------
(* The boot never leaves part of the rows, and says "recovering" only of an  *)
(* index that holds every loadable node: for any workspace and any sequence  *)
(* of failures, crashes and restarts.                                        *)
EXTENDS Startup, TLAPS

(* What holds at each stage. The rebuild works on the tree it loaded; the    *)
(* rows are those the boot found until the commit, which is the last step    *)
(* that can fail; nothing but a commit or a hook touches them.               *)
StageInv ==
    /\ index = whole
    /\ stage \in Booting \cup {"raised"} => index = before \/ index = tree
    /\ stage \in Booting \ {"classify", "populate"} => index = before
    /\ stage \in {"project", "list", "truncate", "insert", "commit"} => tree = Loadable
    /\ stage = "commit" => table = tree
    /\ stage = "classify" /\ attempted /\ report = "clean" => index = Loadable
    /\ stage = "populate" /\ outcome = "recovering" => index = Loadable
    /\ stage = "decide" => rows # "unknown"
    /\ stage \in {"load", "project", "list", "truncate", "insert", "commit"} => attempted
    /\ stage = "classify" /\ ~attempted => rows = "some" /\ index = before
    /\ stage = "populate" /\ outcome = "healthy" => rows = "some" /\ index = before

BootInv == TypeOK /\ StageInv

-----------------------------------------------------------------------------
LEMMA LoadableRows == ASSUME disk \in Rows PROVE Loadable \in Rows
<1> DEFINE read == {n \in DOMAIN disk : Reach(Above, n) \cap unreadable = {}}
<1>1. PICK S \in SUBSET Id : disk \in [S -> Rev]
  BY DEF Rows
<1>2. Loadable = [n \in read |-> disk[n]]
  BY DEF Loadable
<1>3. read \in SUBSET S
  BY <1>1
<1> HIDE DEF read
<1>4. Loadable \in [read -> Rev]
  BY <1>1, <1>2, <1>3
<1>5. QED
  BY <1>1, <1>3, <1>4 DEF Rows

LEMMA NoRows == << >> \in Rows
<1>1. << >> \in [{} -> Rev]
  OBVIOUS
<1>2. QED
  BY <1>1 DEF Rows

LEMMA WrittenRows ==
    ASSUME NEW f \in Rows, NEW n \in Id, NEW r \in Rev
    PROVE  [x \in DOMAIN f \cup {n} |-> IF x = n THEN r ELSE f[x]] \in Rows
<1>1. PICK S \in SUBSET Id : f \in [S -> Rev]
  BY DEF Rows
<1>2. [x \in S \cup {n} |-> IF x = n THEN r ELSE f[x]] \in [S \cup {n} -> Rev]
  BY <1>1
<1>3. QED
  BY <1>1, <1>2 DEF Rows

LEMMA DeletedRows ==
    ASSUME NEW f \in Rows, NEW n \in Id
    PROVE  [x \in DOMAIN f \ {n} |-> f[x]] \in Rows
<1>1. PICK S \in SUBSET Id : f \in [S -> Rev]
  BY DEF Rows
<1>2. [x \in S \ {n} |-> f[x]] \in [S \ {n} -> Rev]
  BY <1>1
<1>3. QED
  BY <1>1, <1>2 DEF Rows

LEMMA BootInit == Init => BootInv
<1>1. Init => TypeOK
  BY NoRows DEF Init, TypeOK, Stages, Booting
<1>2. Init => StageInv
  BY DEF Init, StageInv, Booting
<1>3. QED
  BY <1>1, <1>2 DEF BootInv

LEMMA BootNext == BootInv /\ [Next]_vars => BootInv'
<1> SUFFICES ASSUME BootInv, [Next]_vars PROVE BootInv'
  OBVIOUS
<1> USE DEF BootInv, TypeOK, StageInv, Stages, Booting, lasting, boot
<1>0. UNCHANGED <<disk, unreadable>> => Loadable' = Loadable
  BY DEF Loadable, Above
<1>1. CASE StartProcess
  BY <1>0, <1>1, NoRows DEF StartProcess
<1>2. CASE LoadConfig
  BY <1>0, <1>2 DEF LoadConfig
<1>3. CASE ValidateFilesystem
  BY <1>0, <1>3 DEF ValidateFilesystem
<1>4. CASE ProbeIndex
  BY <1>0, <1>4 DEF ProbeIndex
<1>5. CASE DecideRebuild
  <2>1. /\ stage = "decide"
        /\ UNCHANGED <<lasting, rows, stale, tree, flawed, table, report, outcome, before, whole, loaded>>
    BY <1>5 DEF DecideRebuild
  <2>2. CASE ShouldRebuild
    <3>1. stage' = "load" /\ attempted' = TRUE
      BY <1>5, <2>2 DEF DecideRebuild, ShouldRebuild
    <3>2. QED
      BY <1>0, <2>1, <3>1
  <2>3. CASE ~ShouldRebuild
    <3>1. stage' = "classify" /\ attempted' = FALSE
      BY <1>5, <2>3 DEF DecideRebuild, ShouldRebuild
    <3>2. rows = "some"
      BY <2>1, <2>3 DEF ShouldRebuild
    <3>3. QED
      BY <1>0, <2>1, <3>1, <3>2
  <2>4. QED
    BY <2>2, <2>3
<1>6. CASE LoadTree
  BY <1>0, <1>6, LoadableRows DEF LoadTree
<1>7. CASE ProjectTree
  BY <1>0, <1>7 DEF ProjectTree
<1>8. CASE ListIds
  BY <1>0, <1>8 DEF ListIds
<1>9. CASE TruncateRows
  BY <1>0, <1>9, NoRows DEF TruncateRows
<1>10. CASE InsertRows
  BY <1>0, <1>10 DEF InsertRows
<1>11. CASE CommitRows
  BY <1>0, <1>11 DEF CommitRows
<1>12. CASE RebuildFails
  BY <1>0, <1>12 DEF RebuildFails
<1>13. CASE Classify
  BY <1>0, <1>13 DEF Classify
<1>14. CASE PopulateCache
  BY <1>0, <1>14 DEF PopulateCache
<1>15. CASE Crash
  BY <1>0, <1>15 DEF Crash
<1>16. ASSUME NEW n \in Id, NEW r \in Rev, WriteNode(n, r) PROVE BootInv'
  <2>1. /\ stage = "serving"
        /\ UNCHANGED <<unreadable, stage, rows, attempted, tree, flawed, table, report, outcome,
                       before, loaded>>
    BY <1>16 DEF WriteNode
  <2>2. disk' \in Rows /\ unreadable \subseteq DOMAIN disk'
    BY <1>16, WrittenRows DEF WriteNode
  <2>3. index' \in Rows /\ whole' = index' /\ stale' \in BOOLEAN
    <3>1. [x \in DOMAIN index \cup {n} |-> IF x = n THEN r ELSE index[x]] \in Rows
      BY WrittenRows
    <3>2. QED
      BY <1>16, <3>1 DEF WriteNode, Hook
  <2>4. TypeOK'
    BY <2>1, <2>2, <2>3
  <2>5. StageInv'
    BY <2>1, <2>3
  <2>6. QED
    BY <2>4, <2>5
<1>17. ASSUME NEW n \in Id, DeleteNode(n) PROVE BootInv'
  <2>1. /\ stage = "serving"
        /\ UNCHANGED <<unreadable, stage, rows, attempted, tree, flawed, table, report, outcome,
                       before, loaded>>
    BY <1>17 DEF DeleteNode
  <2>2. disk' \in Rows /\ unreadable \subseteq DOMAIN disk'
    BY <1>17, DeletedRows DEF DeleteNode
  <2>3. index' \in Rows /\ whole' = index' /\ stale' \in BOOLEAN
    <3>1. [x \in DOMAIN index \ {n} |-> index[x]] \in Rows
      BY DeletedRows
    <3>2. QED
      BY <1>17, <3>1 DEF DeleteNode, Hook
  <2>4. TypeOK'
    BY <2>1, <2>2, <2>3
  <2>5. StageInv'
    BY <2>1, <2>3
  <2>6. QED
    BY <2>4, <2>5
<1>18. ASSUME NEW n \in Id, Damage(n) PROVE BootInv'
  BY <1>18 DEF Damage
<1>19. CASE UNCHANGED vars
  BY <1>0, <1>19 DEF vars
<1>20. QED
  BY <1>1, <1>2, <1>3, <1>4, <1>5, <1>6, <1>7, <1>8, <1>9, <1>10, <1>11, <1>12, <1>13, <1>14,
     <1>15, <1>16, <1>17, <1>18, <1>19 DEF Next, BootStep

LEMMA BootHolds == Spec => []BootInv
<1>1. Init => BootInv
  BY BootInit
<1>2. BootInv /\ [Next]_vars => BootInv'
  BY BootNext
<1>3. QED
  BY <1>1, <1>2, PTL DEF Spec

-----------------------------------------------------------------------------
(* Whatever the disk, the database and the crashes do, the stage, the rows   *)
(* read and written, the report and the outcome are among those there are.   *)
THEOREM BootTypeCorrect == Spec => []TypeOK
<1>1. BootInv => TypeOK
  BY DEF BootInv
<1>2. QED
  BY <1>1, BootHolds, PTL

-----------------------------------------------------------------------------
(* At no stage of the boot do the rows hold part of the workspace: they are  *)
(* those the boot found or those of the whole tree it loaded.                *)
THEOREM RebuildIsAllOrNothing == Spec => []AllOrNothing
<1>1. BootInv => AllOrNothing
  BY DEF BootInv, TypeOK, StageInv, AllOrNothing, Stages
<1>2. QED
  BY <1>1, BootHolds, PTL

(* An outcome of "recovering" is only given to an index that holds the       *)
(* loadable nodes and nothing else.                                          *)
THEOREM RecoveringMeansExact == Spec => []RecoveringIsExact
<1>1. BootInv => RecoveringIsExact
  BY DEF BootInv, StageInv, RecoveringIsExact
<1>2. QED
  BY <1>1, BootHolds, PTL

(* The readiness probe turns to 200 only over rows that a rebuild or a hook  *)
(* has finished; where the boot found none, they are those of every loadable *)
(* node.                                                                     *)
THEOREM ReadyOverWholeRows == Spec => ReadyServesIndex
<1>1. BootInv /\ [Next]_vars
      => [(~HealthReady /\ HealthReady') =>
            index' = whole' /\ (rows' = "some" \/ index' = Loadable)]_vars
  <2>1. SUFFICES ASSUME BootInv, Next, ~HealthReady, HealthReady'
                 PROVE  index' = whole' /\ (rows' = "some" \/ index' = Loadable)
    OBVIOUS
  <2>2. stage' = "serving" /\ outcome' \in {"healthy", "recovering"}
    BY <2>1 DEF HealthReady, IsReady, GetStartupReport
  <2>3. ~(stage = "serving" /\ outcome \in {"healthy", "recovering"})
    BY <2>1 DEF HealthReady, IsReady, GetStartupReport
  <2>4. PopulateCache
    BY <2>1, <2>2, <2>3
    DEF Next, StartProcess, BootStep, LoadConfig, ValidateFilesystem, ProbeIndex, DecideRebuild,
        LoadTree, ProjectTree, ListIds, TruncateRows, InsertRows, CommitRows, RebuildFails,
        Classify, Crash, WriteNode, DeleteNode, Damage
  <2>5. QED
    BY <2>1, <2>2, <2>4 DEF PopulateCache, BootInv, StageInv, lasting, boot
<1>2. QED
  BY <1>1, BootHolds, PTL DEF Spec, ReadyServesIndex

-----------------------------------------------------------------------------
(* The steps a boot has before it at most.                                   *)
StepsLeft ==
    CASE stage = "config"     -> 12
      [] stage = "filesystem" -> 11
      [] stage = "probe"      -> 10
      [] stage = "decide"     -> 9
      [] stage = "load"       -> 8
      [] stage = "project"    -> 7
      [] stage = "list"       -> 6
      [] stage = "truncate"   -> 5
      [] stage = "insert"     -> 4
      [] stage = "commit"     -> 3
      [] stage = "classify"   -> 2
      [] stage = "populate"   -> 1
      [] OTHER                -> 0

(* No stage comes back to an earlier one, whatever fails: a boot that is not *)
(* over gets nearer to its end with every step of the system, so it takes    *)
(* twelve at most. What BootCompletes adds is that the steps are taken.      *)
THEOREM BootAdvances == Spec => [][(stage \in Booting) => (StepsLeft' < StepsLeft)]_vars
<1>1. [Next]_vars => [(stage \in Booting) => (StepsLeft' < StepsLeft)]_vars
  <2>1. SUFFICES ASSUME Next, stage \in Booting PROVE StepsLeft' < StepsLeft
    OBVIOUS
  <2>2. BootStep \/ Crash
    BY <2>1 DEF Next, Booting, StartProcess, WriteNode, DeleteNode, Damage
  <2>3. CASE Crash
    BY <2>1, <2>3 DEF Crash, Booting, StepsLeft
  <2>4. CASE LoadConfig \/ ValidateFilesystem
    BY <2>4 DEF LoadConfig, ValidateFilesystem, StepsLeft
  <2>5. CASE ProbeIndex \/ DecideRebuild
    BY <2>5 DEF ProbeIndex, DecideRebuild, StepsLeft
  <2>6. CASE LoadTree \/ ProjectTree \/ ListIds
    BY <2>6 DEF LoadTree, ProjectTree, ListIds, StepsLeft
  <2>7. CASE TruncateRows \/ InsertRows \/ CommitRows
    BY <2>7 DEF TruncateRows, InsertRows, CommitRows, StepsLeft
  <2>8. CASE RebuildFails
    BY <2>8 DEF RebuildFails, StepsLeft
  <2>9. CASE Classify \/ PopulateCache
    BY <2>9 DEF Classify, PopulateCache, StepsLeft
  <2>10. QED
    BY <2>2, <2>3, <2>4, <2>5, <2>6, <2>7, <2>8, <2>9 DEF BootStep
<1>2. QED
  BY <1>1, PTL DEF Spec
=============================================================================
