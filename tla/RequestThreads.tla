--------------------------- MODULE RequestThreads ---------------------------
(* Several requests at once, as the pool of threads runs the endpoints: each *)
(* reads the cache, writes the disk, evicts and calls its index hook in      *)
(* steps between which the others run. Neither the repository nor the        *)
(* synchroniser holds a lock; a call to the cache and a transaction of the   *)
(* index are units, and so is here a call to LocalFilesystem (taken apart in *)
(* DirectoryThreads). The nodes are root Stories; the wiring is that of the  *)
(* lifespan: a cache, and a tree provider over it. Id holds the nodes that   *)
(* are watched: the workspace may have others, with rows of their own.       *)
EXTENDS Integers, FiniteSets, SequencesExt

CONSTANTS
    Id,         \* node ids
    Thread,     \* the threads of the pool
    MaxWrites,  \* bound on the writes to the disk
    MaxCrashes  \* bound on the crashes

ASSUME CountAssumption == MaxWrites \in Nat /\ MaxCrashes \in Nat
ASSUME PoolAssumption == IsFiniteSet(Thread)

VARIABLES
    disk,       \* node.json of the nodes that exist: rev is the number of the write
                \* that put it there, title that of the write that gave it its title
    boot,       \* the same in the Tree of the boot
    cached,     \* the nodes still in the cache's dictionary
    index,      \* the title in each row
    stale,      \* the synchroniser's flag
    issued,     \* the UUIDs handed out
    writes,     \* how many writes there have been
    crashes,
    job,        \* the request each thread runs, with the steps it has still to make
    answered,   \* history: the last write to each node whose request was answered
    suspect,    \* history: the nodes two writing requests overlapped on, or a crash
                \* cut one about; all of them when a crash took a raised flag with it
    missed      \* history: the nodes whose row an edit left alone because the get of
                \* its hook failed, until a hook writes or erases the row
vars == <<disk, boot, cached, index, stale, issued, writes, crashes, job, answered, suspect, missed>>

Live == DOMAIN disk
With(f, x, v) == [y \in DOMAIN f \cup {x} |-> IF y = x THEN v ELSE f[y]]
Less(f, x) == [y \in DOMAIN f \ {x} |-> f[y]]

Nothing == [rev |-> 0, title |-> 0]
Gone == MaxWrites + 1       \* a deletion, later than anything that can be read

-----------------------------------------------------------------------------
(* The steps of each request, in the order of the repository's method. The   *)
(* service loads the node of a metadata update first, to validate.           *)
Steps == [create   |-> <<"write", "evict", "locate", "upsert", "answer">>,
          rename   |-> <<"write", "evict", "lookup", "upsert", "answer">>,
          metadata |-> <<"load", "load", "write", "evict", "lookup", "upsert", "answer">>,
          canvas   |-> <<"write", "lookup", "upsert", "answer">>,
          delete   |-> <<"write", "evict", "erase", "answer">>,
          get      |-> <<"load", "answer">>]

Reading == {"get", "metadata"}    \* begin with load_node

Idle == [op |-> "none", todo |-> << >>]
Busy(t) == job[t].op # "none"
On(n) == {t \in Thread : Busy(t) /\ job[t].n = n}
Writer(t) == job[t].op # "get"
At(t, step) == Busy(t) /\ Head(job[t].todo) = step

(* held: the Node the request has read or written; row: the title its hook   *)
(* read; floor: the last write answered before the request began.            *)
Start(t, op, n) ==
    /\ ~Busy(t)
    /\ (op = "create") = (n \notin issued)
    /\ op \in {"create", "rename", "metadata"} => writes + Cardinality({u \in Thread : Busy(u)}) < MaxWrites
    /\ issued' = issued \cup {n}
    /\ job' = [job EXCEPT ![t] = [op |-> op, n |-> n, todo |-> Steps[op], held |-> Nothing,
                                  row |-> 0, floor |-> IF op \in Reading THEN answered[n] ELSE 0]]
    /\ suspect' = IF op # "get" /\ \E u \in On(n) : Writer(u) THEN suspect \cup {n} ELSE suspect
    /\ UNCHANGED <<disk, boot, cached, index, stale, writes, crashes, answered, missed>>

Done(t) == job' = [job EXCEPT ![t].todo = Tail(@)]
DoneWith(t, record) == job' = [job EXCEPT ![t].todo = Tail(@), ![t].held = record]
NotFound(t) == job' = [job EXCEPT ![t] = Idle]      \* NodeNotFoundError: 404
HookEnds(t) == job' = [job EXCEPT ![t].todo = <<"answer">>]

(* load_node: the dictionary, and the disk on a miss.                        *)
Load(t) ==
    /\ At(t, "load")
    /\ LET n == job[t].n
       IN  IF n \in cached THEN DoneWith(t, boot[n])
           ELSE IF n \in Live THEN DoneWith(t, disk[n])
           ELSE NotFound(t)
    /\ UNCHANGED <<disk, boot, cached, index, stale, issued, writes, crashes, answered, suspect, missed>>

(* The call to the filesystem. update_metadata writes the Node it loaded.    *)
Write(t) ==
    /\ At(t, "write")
    /\ LET n == job[t].n
           new == [rev |-> writes + 1,
                   title |-> IF job[t].op = "metadata" THEN job[t].held.title ELSE writes + 1]
       IN  IF n \notin Live /\ job[t].op # "create"
           THEN NotFound(t) /\ UNCHANGED <<disk, writes>>
           ELSE CASE job[t].op = "delete" ->
                        /\ disk' = Less(disk, n) /\ UNCHANGED writes
                        /\ DoneWith(t, [rev |-> Gone, title |-> 0])
                  [] job[t].op = "canvas" -> UNCHANGED <<disk, writes>> /\ Done(t)
                  [] OTHER -> /\ disk' = With(disk, n, new) /\ writes' = writes + 1
                              /\ DoneWith(t, new)
    /\ UNCHANGED <<boot, cached, index, stale, issued, crashes, answered, suspect, missed>>

EvictNone(t) ==     \* mutant: the dictionary keeps the entry
    /\ At(t, "evict")
    /\ Done(t)
    /\ UNCHANGED <<disk, boot, cached, index, stale, issued, writes, crashes, answered, suspect, missed>>

EvictRefills(t) ==  \* mutant: the id goes back into the dictionary, the Tree has it or not
    /\ At(t, "evict")
    /\ cached' = cached \cup {job[t].n}
    /\ Done(t)
    /\ UNCHANGED <<disk, boot, index, stale, issued, writes, crashes, answered, suspect, missed>>

Evict(t) ==
    /\ At(t, "evict")
    /\ cached' = cached \ {job[t].n}
    /\ Done(t)
    /\ UNCHANGED <<disk, boot, index, stale, issued, writes, crashes, answered, suspect, missed>>

-----------------------------------------------------------------------------
(* The hooks. on_node_created asks the disk for the path first.              *)
Locate(t) ==
    /\ At(t, "locate")
    /\ IF job[t].n \in Live THEN Done(t) /\ UNCHANGED stale ELSE HookEnds(t) /\ stale' = TRUE
    /\ UNCHANGED <<disk, boot, cached, index, issued, writes, crashes, answered, suspect, missed>>

(* get in a transaction of its own. The hook takes whatever it raises for a  *)
(* missing row: it ends, and the flag stays down.                            *)
Lookup(t) ==
    LET n == job[t].n
    IN  /\ At(t, "lookup")
        /\ \/ /\ n \in DOMAIN index
              /\ job' = [job EXCEPT ![t].todo = Tail(@), ![t].row = index[n]]
              /\ UNCHANGED missed
           \/ /\ HookEnds(t)
              /\ missed' = IF n \in DOMAIN index /\ job[t].op # "canvas" THEN missed \cup {n} ELSE missed
        /\ UNCHANGED <<disk, boot, cached, index, stale, issued, writes, crashes, answered, suspect>>

HookSwallows(t) ==  \* mutant: an exception that leaves the flag down
    /\ At(t, "upsert")
    /\ Done(t)
    /\ UNCHANGED <<disk, boot, cached, index, stale, issued, writes, crashes, answered, suspect, missed>>

(* upsert writes the whole row: on_canvas_updated the title it has read.     *)
Upsert(t) ==
    LET n == job[t].n
        known == job[t].op \in {"rename", "metadata"} => n \in DOMAIN boot
    IN  /\ At(t, "upsert")
        /\ \/ /\ known
              /\ index' = With(index, n, IF job[t].op = "canvas" THEN job[t].row ELSE job[t].held.title)
              /\ missed' = IF job[t].op = "canvas" THEN missed ELSE missed \ {n}
              /\ UNCHANGED stale
           \/ stale' = TRUE /\ UNCHANGED <<index, missed>>
        /\ job' = [job EXCEPT ![t].todo = Tail(@), ![t].row = 0]
        /\ UNCHANGED <<disk, boot, cached, issued, writes, crashes, answered, suspect>>

Erase(t) ==
    /\ At(t, "erase")
    /\ \/ index' = Less(index, job[t].n) /\ missed' = missed \ {job[t].n} /\ UNCHANGED stale
       \/ stale' = TRUE /\ UNCHANGED <<index, missed>>
    /\ Done(t)
    /\ UNCHANGED <<disk, boot, cached, issued, writes, crashes, answered, suspect>>

(* Mutant: what the request has read goes into the dictionary, a write that  *)
(* came in between or not.                                                   *)
AnswerFills(t) ==
    /\ At(t, "answer")
    /\ NotFound(t)
    /\ answered' = IF Writer(t) /\ job[t].held.rev > answered[job[t].n]
                   THEN [answered EXCEPT ![job[t].n] = job[t].held.rev] ELSE answered
    /\ IF Writer(t) THEN UNCHANGED <<boot, cached>>
       ELSE boot' = With(boot, job[t].n, job[t].held) /\ cached' = cached \cup {job[t].n}
    /\ UNCHANGED <<disk, index, stale, issued, writes, crashes, suspect, missed>>

Answer(t) ==
    /\ At(t, "answer")
    /\ job' = [job EXCEPT ![t] = Idle]
    /\ answered' = IF Writer(t) /\ job[t].held.rev > answered[job[t].n]
                   THEN [answered EXCEPT ![job[t].n] = job[t].held.rev] ELSE answered
    /\ UNCHANGED <<disk, boot, cached, index, stale, issued, writes, crashes, suspect, missed>>

(* The process dies and the next one boots: cache and flag are new; the rows *)
(* are rebuilt when there are none, of the other nodes either, or the probe  *)
(* finds no database.                                                        *)
Crash ==
    /\ crashes < MaxCrashes
    /\ crashes' = crashes + 1
    /\ job' = [t \in Thread |-> Idle]
    /\ boot' = disk /\ cached' = Live
    /\ stale' = FALSE
    /\ \/ index' = [n \in Live |-> disk[n].title] /\ suspect' = {} /\ missed' = {}
       \/ /\ UNCHANGED <<index, missed>>
          /\ suspect' = IF stale THEN Id ELSE suspect \cup {n \in Id : \E t \in On(n) : Writer(t)}
    /\ UNCHANGED <<disk, issued, writes, answered>>

Init ==
    /\ \E S \in SUBSET Id :
          /\ disk = [n \in S |-> Nothing] /\ boot = disk /\ cached = S
          /\ index = [n \in S |-> 0] /\ issued = S
    /\ stale = FALSE /\ writes = 0 /\ crashes = 0
    /\ job = [t \in Thread |-> Idle]
    /\ answered = [n \in Id |-> 0] /\ suspect = {} /\ missed = {}

Step(t) ==
    \/ Load(t) \/ Write(t) \/ Evict(t) \/ Locate(t) \/ Lookup(t) \/ Upsert(t) \/ Erase(t) \/ Answer(t)

Next ==
    \/ \E t \in Thread : (\E op \in DOMAIN Steps, n \in Id : Start(t, op, n)) \/ Step(t)
    \/ Crash

Spec == Init /\ [][Next]_vars

-----------------------------------------------------------------------------
Record == [rev: Nat, title: Nat]
Job == [op: DOMAIN Steps, n: Id, todo: UNION {Suffixes(Steps[op]) : op \in DOMAIN Steps},
        held: Record, row: Nat, floor: Nat]

TypeOK ==
    /\ disk \in [Live -> Record] /\ Live \subseteq issued
    /\ boot \in [DOMAIN boot -> Record] /\ DOMAIN boot \subseteq issued
    /\ cached \subseteq DOMAIN boot
    /\ index \in [DOMAIN index -> Nat] /\ DOMAIN index \subseteq issued
    /\ stale \in BOOLEAN
    /\ issued \subseteq Id
    /\ writes \in 0 .. MaxWrites /\ crashes \in 0 .. MaxCrashes
    /\ \A t \in Thread : job[t] = Idle \/ job[t] \in Job
    /\ answered \in [Id -> Nat] /\ suspect \subseteq Id /\ missed \subseteq Id

(* Whatever the threads do, an entry of the cache equals the node on disk,   *)
(* except between the disk write of a request and its eviction.              *)
CacheSettles ==
    \A n \in cached : \/ n \in Live /\ boot[n] = disk[n]
                      \/ \E t \in On(n) : At(t, "evict")

(* No request reads a node as it was before a write that had been answered   *)
(* when the request began, nor one whose deletion had been.                  *)
ReadsSeeAnswered ==
    \A t \in Thread :
        Busy(t) /\ job[t].op \in Reading /\ Head(job[t].todo) # "load"
            => job[t].held.rev >= job[t].floor

(* "The index may have drifted, the staleness flag says so" holds for a node *)
(* as long as the requests that write it do not overlap and none is cut by a *)
(* crash, whatever other threads do, but for one case: it has a row exactly  *)
(* when it exists, and the row its title on disk, or the flag is up; only a  *)
(* node whose edit could not get its row may have an older title there, the  *)
(* flag down, until the next hook that writes the row.                       *)
RowsSettle ==
    \A n \in Id \ suspect :
        (\A t \in On(n) : ~Writer(t)) =>
            \/ stale
            \/ n \notin Live /\ n \notin DOMAIN index
            \/ n \in Live /\ n \in DOMAIN index /\ (index[n] = disk[n].title \/ n \in missed)
=============================================================================
