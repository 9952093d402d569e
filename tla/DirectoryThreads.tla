-------------------------- MODULE DirectoryThreads --------------------------
(* LocalFilesystem from several threads at once, one call to the operating   *)
(* system at a time: create_node, rename_node and write_node of root         *)
(* Stories, which share the workspace directory and, when they meet on a     *)
(* node or on a name, the temporary file beside node.json. Every path is     *)
(* resolved again by each call that takes it; an open file follows its       *)
(* inode. The bytes of a node.json fit the buffer of the stream, so that     *)
(* they reach the file in one write, when it is closed; canvas.md, which     *)
(* goes the same way through a temporary file of its own, is left out.       *)
EXTENDS Integers, FiniteSets, SequencesExt

CONSTANTS
    Id,           \* node ids; the inode of a directory is that of the node it was made for
    Thread,
    Title,        \* what slugify makes of the titles, as numbers in alphabetical order
    None,         \* no node
    MaxWrites,    \* bound on the writes of a node.json that are begun
    MaxFaults     \* bound on the crashes and the failures in a write

ASSUME ValueAssumption ==
    /\ MaxWrites \in Nat /\ MaxFaults \in Nat /\ Title \subseteq Nat
    /\ None \notin Id /\ \A x \in Id \cup {None} : x \notin Nat

ASSUME PoolAssumption == IsFiniteSet(Thread)

VARIABLES
    entry,      \* the workspace directory: <<slug, number of its suffix>> -> directory
    file,       \* the directories: <<directory, "json" or "tmp">> -> inode
    data,       \* the files: inode -> content
    job,        \* the request each thread runs
    writes,     \* how many have been begun
    faults,
    issued,     \* the UUIDs handed out
    answered,   \* history: the last write of each node that was answered with success
    shared,     \* history: the files two threads had open, or one put in place
                \* that it had not written itself
    met         \* history: the nodes of requests that ever held the same path at once
vars == <<entry, file, data, job, writes, faults, issued, answered, shared, met>>

-----------------------------------------------------------------------------
(* A content is one node.json, or no readable one: the bytes of two writers, *)
(* or none yet. len is a size; a shorter text over a longer leaves the tail. *)
Empty == [n |-> None, rev |-> 0, len |-> 0]
Torn == [n |-> None, rev |-> 0, len |-> 2]
Over(old, new) == IF new.len >= old.len THEN new ELSE Torn

Idle == [op |-> "none", h |-> None, at |-> << >>, to |-> << >>]
Busy(t) == job[t].op # "none"
At(t, step) == Busy(t) /\ job[t].step = step

File(name, kind) == <<entry[name], kind>>
Exists(name, kind) == name \in DOMAIN entry /\ File(name, kind) \in DOMAIN file
Vacant(d) == \A kind \in {"json", "tmp"} : <<d, kind>> \notin DOMAIN file

(* _load_from_dir gives the Node with this id.                               *)
Content(name) == IF Exists(name, "json") THEN data[file[File(name, "json")]] ELSE Empty
Readable(name) == Content(name).n # None

Plus(f, x, v) == [y \in DOMAIN f \cup {x} |-> IF y = x THEN v ELSE f[y]]
Minus(f, S) == [y \in DOMAIN f \ S |-> f[y]]

(* A file that has neither a name nor an open handle is freed.               *)
Store(d) ==
    LET used == {file'[x] : x \in DOMAIN file'} \cup {job'[t].h : t \in Thread}
    IN  data' = [i \in DOMAIN d \cap used |-> d[i]]

(* The paths a request holds, and whom it meets when it takes one more.      *)
Paths(t) == {job[t].at, job[t].to} \ {<< >>}
Meets(t, name) ==
    LET others == {job[u].n : u \in {u \in Thread \ {t} : name \in Paths(u)}}
    IN  met' = IF others = {} THEN met ELSE met \cup others \cup {job[t].n}

Goto(t, step) == job' = [job EXCEPT ![t].step = step]
Fail(t) == job' = [job EXCEPT ![t] = Idle]      \* an exception, or 404

-----------------------------------------------------------------------------
(* update_metadata ends in write_node; a create has a new UUID.              *)
Start(t, op, n, title, len) ==
    /\ ~Busy(t)
    /\ writes + Cardinality({u \in Thread : Busy(u) /\ job[u].rev = 0}) < MaxWrites
    /\ (op = "create") = (n \notin issued)
    /\ issued' = issued \cup {n}
    /\ job' = [job EXCEPT ![t] =
                 [op |-> op, n |-> n, title |-> title, len |-> len, rev |-> 0,
                  step |-> IF op = "create" THEN "try" ELSE "list",
                  left |-> << >>, k |-> 1, at |-> << >>, to |-> << >>, h |-> None]]
    /\ UNCHANGED <<entry, file, data, writes, faults, answered, shared, met>>

(* node_dir: sorted(iterdir()), then is_dir() and the loading of each, and   *)
(* the listing of its own directory, which raises when it has gone since.    *)
ByName(a, b) == a[1] < b[1] \/ (a[1] = b[1] /\ a[2] < b[2])
List(t) ==
    /\ At(t, "list")
    /\ job' = [job EXCEPT ![t].left = SetToSortSeq(DOMAIN entry, ByName), ![t].step = "look"]
    /\ UNCHANGED <<entry, file, data, writes, faults, issued, answered, shared, met>>

Look(t) ==
    /\ At(t, "look")
    /\ LET left == job[t].left
       IN  IF left = << >> THEN Fail(t)
           ELSE IF Head(left) \in DOMAIN entry THEN Goto(t, "read")
           ELSE job' = [job EXCEPT ![t].left = Tail(left)]
    /\ UNCHANGED <<entry, file, data, writes, faults, issued, answered, shared, met>>

Read(t) ==
    LET name == Head(job[t].left)
    IN  /\ At(t, "read")
        /\ \/ /\ Content(name).n = job[t].n
              /\ job' = [job EXCEPT ![t].left = << >>, ![t].at = name,
                                    ![t].step = IF job[t].op = "rename" THEN "again" ELSE "open"]
              /\ Meets(t, name)
           \/ /\ Content(name).n # job[t].n
              /\ IF name \in DOMAIN entry
                 THEN job' = [job EXCEPT ![t].left = Tail(@), ![t].step = "look"]
                 ELSE Fail(t)
              /\ UNCHANGED met
        /\ UNCHANGED <<entry, file, data, writes, faults, issued, answered, shared>>

(* rename_node loads a node from the directory it has found, and it is that  *)
(* node it will write: another, when the directory has been replaced since.  *)
Again(t) ==
    /\ At(t, "again")
    /\ IF Readable(job[t].at)
       THEN job' = [job EXCEPT ![t].n = Content(job[t].at).n, ![t].step = "try"]
       ELSE Fail(t)
    /\ UNCHANGED <<entry, file, data, writes, faults, issued, answered, shared, met>>

(* _unique_slug, one exists() at a time; exclude is the node's own name.     *)
Try(t) ==
    LET name == <<job[t].title, job[t].k>>
    IN  /\ At(t, "try")
        /\ IF name \in DOMAIN entry /\ name # job[t].at
           THEN job' = [job EXCEPT ![t].k = @ + 1] /\ UNCHANGED met
           ELSE /\ job' = [job EXCEPT ![t].to = name,
                              ![t].step = IF job[t].op = "create" THEN "mkdir" ELSE "rename"]
                /\ Meets(t, name)
        /\ UNCHANGED <<entry, file, data, writes, faults, issued, answered, shared>>

Arrived(t) == job' = [job EXCEPT ![t].at = job[t].to, ![t].to = << >>, ![t].step = "open",
                                       ![t].title = 0, ![t].k = 1]

MkDir(t) ==
    /\ At(t, "mkdir")
    /\ IF job[t].to \in DOMAIN entry THEN Fail(t) /\ UNCHANGED entry
       ELSE Arrived(t) /\ entry' = Plus(entry, job[t].to, job[t].n)
    /\ UNCHANGED <<file, data, writes, faults, issued, answered, shared, met>>

(* rename(2) replaces an empty directory, and fails on another.              *)
Rename(t) ==
    LET from == job[t].at
        to == job[t].to
    IN  /\ At(t, "rename")
        /\ \/ /\ from \notin DOMAIN entry
              /\ Fail(t) /\ UNCHANGED entry
           \/ /\ from \in DOMAIN entry /\ to = from
              /\ Arrived(t) /\ UNCHANGED entry
           \/ /\ from \in DOMAIN entry /\ to # from
              /\ IF to \in DOMAIN entry /\ ~Vacant(entry[to]) THEN Fail(t) /\ UNCHANGED entry
                 ELSE Arrived(t) /\ entry' = Plus(Minus(entry, {from}), to, entry[from])
        /\ UNCHANGED <<file, data, writes, faults, issued, answered, shared, met>>

-----------------------------------------------------------------------------
(* write_node_json: open("w") makes or empties the temporary file.           *)
Fault == faults < MaxFaults /\ faults' = faults + 1
Undo(t) == Goto(t, "undo")
Share(t, inode) ==
    shared' = IF \E u \in Thread \ {t} : job[u].h = inode THEN shared \cup {inode} ELSE shared

OpenAs(t, kind) ==
    LET name == job[t].at
        inode == IF Exists(name, kind) THEN file[File(name, kind)] ELSE writes + 1
    IN  /\ At(t, "open")
        /\ \/ /\ name \in DOMAIN entry
              /\ file' = Plus(file, File(name, kind), inode)
              /\ job' = [job EXCEPT ![t].h = inode, ![t].rev = writes + 1, ![t].step = "put"]
              /\ writes' = writes + 1
              /\ Store(Plus(data, inode, Empty))
              /\ Share(t, inode)
              /\ UNCHANGED faults
           \/ /\ IF name \in DOMAIN entry THEN Fault ELSE UNCHANGED faults
              /\ Undo(t)
              /\ UNCHANGED <<file, data, shared, writes>>
        /\ UNCHANGED <<entry, issued, answered, met>>

OpenInPlace(t) == OpenAs(t, "json")   \* mutant: no temporary file
Open(t) == OpenAs(t, "tmp")

(* The bytes go out and the file is closed; h stays, to say what was written.*)
Put(t) ==
    LET i == job[t].h
        new == [n |-> job[t].n, rev |-> job[t].rev, len |-> job[t].len]
    IN  /\ At(t, "put")
        /\ UNCHANGED file
        /\ \/ Goto(t, "replace") /\ Store(Plus(data, i, Over(data[i], new))) /\ UNCHANGED faults
           \/ Fault /\ Undo(t) /\ Store(Plus(data, i, Torn))
        /\ UNCHANGED <<entry, writes, issued, answered, shared, met>>

ReplaceLinks(t) ==  \* mutant: the temporary file keeps its name
    LET name == job[t].at
    IN  /\ At(t, "replace") /\ Exists(name, "tmp")
        /\ file' = Plus(file, File(name, "json"), file[File(name, "tmp")])
        /\ job' = [job EXCEPT ![t].h = None, ![t].step = "load"]
        /\ Store(data)
        /\ UNCHANGED <<entry, writes, faults, issued, answered, shared, met>>

Replace(t) ==
    LET name == job[t].at
    IN  /\ At(t, "replace")
        /\ \/ /\ Exists(name, "tmp")
              /\ file' = Plus(Minus(file, {File(name, "tmp")}),
                              File(name, "json"), file[File(name, "tmp")])
              /\ job' = [job EXCEPT ![t].h = None, ![t].step = "load"]
              /\ LET inode == file[File(name, "tmp")]
                 IN  IF job[t].h = inode THEN Share(t, inode) ELSE shared' = shared \cup {inode}
              /\ UNCHANGED faults
           \/ /\ IF Exists(name, "tmp") THEN Fault ELSE UNCHANGED faults
              /\ Undo(t) /\ UNCHANGED <<file, shared>>
        /\ Store(data)
        /\ UNCHANGED <<entry, writes, issued, answered, met>>

(* The except clause: the temporary file goes, whosever it is by now.        *)
CleanUpOf(t, kind) ==
    LET name == job[t].at
    IN  /\ At(t, "undo")
        /\ file' = IF Exists(name, kind) THEN Minus(file, {File(name, kind)}) ELSE file
        /\ Fail(t)
        /\ Store(data)
        /\ UNCHANGED <<entry, writes, faults, issued, answered, shared, met>>

CleanUpTarget(t) == CleanUpOf(t, "json")    \* mutant: it removes node.json
CleanUp(t) == CleanUpOf(t, "tmp")

(* The node is loaded back, and that is the answer.                          *)
Load(t) ==
    /\ At(t, "load")
    /\ Fail(t)
    /\ answered' = IF Readable(job[t].at) /\ job[t].rev > answered[job[t].n]
                   THEN [answered EXCEPT ![job[t].n] = job[t].rev] ELSE answered
    /\ UNCHANGED <<entry, file, data, writes, faults, issued, shared, met>>

(* The process dies between two calls; what is on the disk stays.            *)
Crash ==
    /\ Fault
    /\ \E t \in Thread : Busy(t)
    /\ job' = [t \in Thread |-> Idle]
    /\ UNCHANGED <<entry, file, writes, issued, answered, shared, met>>
    /\ Store(data)

-----------------------------------------------------------------------------
Init ==
    /\ \E S \in SUBSET Id : \E f \in [S -> Title \X {1, 2}] :
          /\ \A n, m \in S : f[n] = f[m] => n = m
          /\ entry = [name \in {f[n] : n \in S} |-> CHOOSE n \in S : f[n] = name]
          /\ file = [x \in S \X {"json"} |-> x[1]]
          /\ data = [n \in S |-> [n |-> n, rev |-> 0, len |-> 1]]
          /\ issued = S
    /\ job = [t \in Thread |-> Idle]
    /\ writes = 0 /\ faults = 0
    /\ answered = [n \in Id |-> 0]
    /\ shared = {} /\ met = {}

Step(t) ==
    \/ List(t) \/ Look(t) \/ Read(t) \/ Again(t) \/ Try(t) \/ MkDir(t) \/ Rename(t)
    \/ Open(t) \/ Put(t) \/ Replace(t) \/ CleanUp(t) \/ Load(t)

Next ==
    \/ \E t \in Thread :
          \/ \E op \in {"create", "rename"}, n \in Id, title \in Title, len \in {1, 2} :
                Start(t, op, n, title, len)
          \/ \E n \in Id, len \in {1, 2} : Start(t, "write", n, 0, len)
          \/ Step(t)
    \/ Crash

Spec == Init /\ [][Next]_vars

-----------------------------------------------------------------------------
Names == Title \X Nat
Inodes == Id \cup 1 .. MaxWrites

TypeOK ==
    /\ DOMAIN entry \subseteq Names /\ IsInjective(entry)
    /\ DOMAIN file \subseteq Id \X {"json", "tmp"} /\ IsInjective(file)
    /\ \A x \in DOMAIN file : file[x] \in DOMAIN data
    /\ DOMAIN data \subseteq Inodes
    /\ \A i \in DOMAIN data : data[i] \in [n: issued \cup {None}, rev: 0 .. writes, len: 0 .. 2]
    /\ \A t \in Thread : Busy(t) => job[t].n \in issued /\ Paths(t) \subseteq Names
    /\ \A t \in Thread : At(t, "put") => job[t].h \in DOMAIN data
    /\ issued \subseteq Id /\ met \subseteq issued
    /\ writes \in 0 .. MaxWrites /\ faults \in 0 .. MaxFaults

(* node.json never holds half a write, also after a crash or a failed call:  *)
(* under that name is one whole version, unless two writers had that file    *)
(* open at once, or the one put in place what the other was writing.         *)
WholeUnlessShared ==
    \A x \in DOMAIN file : x[2] = "json" => data[file[x]].n # None \/ file[x] \in shared

(* A node that exists has one directory, and in it the last version that was *)
(* answered or a later one, whatever the other threads do, fail at or crash  *)
(* in, as long as no other request ever held a path its own requests held.   *)
ApartUndisturbed ==
    \A n \in issued \ met :
        answered[n] > 0 \/ (\E name \in DOMAIN entry : Content(name).n = n) =>
            /\ \E name \in DOMAIN entry : Content(name).n = n /\ Content(name).rev >= answered[n]
            /\ Cardinality({name \in DOMAIN entry : Content(name).n = n}) = 1
=============================================================================
