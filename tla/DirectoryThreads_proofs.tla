----------------------- MODULE DirectoryThreads_proofs -----------------------
(* What the file steps of any number of threads keep, for any names, any     *)
(* failures and any crashes: node.json is whole under its name unless        *)
(* writers have shared its file; a node whose requests met no other is left  *)
(* alone; and everything stays within its type and its bounds.               *)
EXTENDS DirectoryThreads, FiniteSetTheorems, TLAPS

Fields == {"op", "n", "title", "len", "rev", "step", "left", "k", "at", "to", "h"}

JobShape ==
    /\ job = [t \in Thread |-> job[t]]
    /\ \A t \in Thread : \/ job[t] = Idle
                         \/ /\ job[t] = [f \in Fields |-> job[t][f]]
                            /\ job[t].op # "none" /\ job[t].n \in Id /\ job[t].len \in {1, 2}

Writing(t) == At(t, "put") \/ At(t, "replace")

(* A thread has at most one file; it is there as long as the thread has it.  *)
Handles ==
    /\ writes \in Nat
    /\ None \notin DOMAIN data
    /\ \A i \in DOMAIN data : i \in Nat => i <= writes
    /\ \A t \in Thread : job[t].h \in DOMAIN data \cup {None}
    /\ \A t \in Thread : Writing(t) => job[t].h # None
    /\ \A t, u \in Thread : t # u /\ job[t].h = job[u].h /\ job[t].h # None => job[t].h \in shared

(* A file has one name, and no thread has the file that is a node.json.      *)
Placed ==
    /\ \A x \in DOMAIN file : file[x] \in DOMAIN data
    /\ \A x, y \in DOMAIN file : file[x] = file[y] => x = y
    /\ \A x \in DOMAIN file : x[2] = "json" /\ file[x] \notin shared =>
          data[file[x]].n # None /\ \A t \in Thread : job[t].h # file[x]

(* What a thread has to itself is empty before its write and whole after it. *)
OwnFile ==
    \A t \in Thread : job[t].h \notin shared =>
        /\ At(t, "put") => data[job[t].h] = Empty
        /\ At(t, "replace") => data[job[t].h].n # None

FileInv == JobShape /\ Handles /\ Placed /\ OwnFile

-----------------------------------------------------------------------------
LEMMA FilesInit == Init => FileInv
<1> SUFFICES ASSUME Init PROVE FileInv
  OBVIOUS
<1>1. PICK S \in SUBSET Id :
         /\ file = [x \in S \X {"json"} |-> x[1]]
         /\ data = [n \in S |-> [n |-> n, rev |-> 0, len |-> 1]]
  BY DEF Init
<1>2. job = [t \in Thread |-> Idle] /\ writes = 0
  BY DEF Init
<1>3. \A t \in Thread : job[t] = Idle /\ ~Busy(t) /\ job[t].h = None
  BY <1>2 DEF Busy, Idle
<1>4. JobShape
  BY <1>2, <1>3 DEF JobShape
<1>5. Handles
  BY <1>1, <1>2, <1>3, ValueAssumption DEF Handles, Writing, At
<1>6. Placed
  <2>1. ASSUME NEW x \in DOMAIN file
        PROVE  x = <<x[1], "json">> /\ x[1] \in S /\ file[x] = x[1]
    BY <1>1, <2>1
  <2>2. \A x, y \in DOMAIN file : file[x] = file[y] => x = y
    BY <2>1
  <2>3. \A x \in DOMAIN file : file[x] \in DOMAIN data /\ data[file[x]].n = x[1] /\ x[1] # None
    BY <1>1, <2>1, ValueAssumption
  <2>4. QED
    BY <1>3, <2>1, <2>2, <2>3, ValueAssumption DEF Placed
<1>7. OwnFile
  BY <1>3 DEF OwnFile, At
<1>8. QED
  BY <1>4, <1>5, <1>6, <1>7 DEF FileInv

(* The job of one thread after a change to some of its fields.               *)
LEMMA JobChange ==
    ASSUME JobShape, NEW t \in Thread, NEW j, job' = [job EXCEPT ![t] = j],
           \/ j = Idle
           \/ /\ j = [f \in Fields |-> j[f]]
              /\ j.op # "none" /\ j.n \in Id /\ j.len \in {1, 2}
    PROVE  /\ JobShape' /\ job'[t] = j
           /\ \A u \in Thread \ {t} : /\ job'[u] = job[u]
                                      /\ \A step : At(u, step)' = At(u, step)
  BY DEF JobShape, At, Busy

(* A step that leaves the files alone, and after which its thread is not     *)
(* about to write.                                                           *)
LEMMA AwayStep ==
    ASSUME FileInv, NEW t \in Thread, JobShape',
           \A u \in Thread \ {t} : job'[u] = job[u] /\ \A step : At(u, step)' = At(u, step),
           job'[t].h \in {job[t].h, None}, ~Writing(t)',
           UNCHANGED <<file, data, shared, writes>>
    PROVE  FileInv'
<1> USE DEF FileInv
<1>1. Handles'
  BY DEF Handles, Writing
<1>2. Placed'
  BY DEF Placed, Handles
<1>3. OwnFile'
  BY DEF OwnFile, Writing
<1>4. QED
  BY <1>1, <1>2, <1>3

-----------------------------------------------------------------------------
(* The record of a request, one step on.                                     *)
LEMMA OnlyStep ==
    ASSUME JobShape, NEW t \in Thread, Busy(t), NEW step, Goto(t, step)
    PROVE  /\ JobShape'
           /\ \A u \in Thread \ {t} : job'[u] = job[u] /\ \A s : At(u, s)' = At(u, s)
           /\ Busy(t)' /\ job'[t].step = step /\ job'[t].h = job[t].h
           /\ job'[t].rev = job[t].rev
<1> DEFINE j == [job[t] EXCEPT !.step = step]
<1>1. job[t] = [f \in Fields |-> job[t][f]] /\ job[t].op # "none"
      /\ job[t].n \in Id /\ job[t].len \in {1, 2}
  BY DEF JobShape, Busy, Idle
<1>2. job' = [job EXCEPT ![t] = j]
  BY DEF Goto
<1>3. /\ j = [f \in Fields |-> j[f]] /\ j.op = job[t].op /\ j.n = job[t].n
      /\ j.len = job[t].len /\ j.step = step /\ j.h = job[t].h /\ j.rev = job[t].rev
  BY <1>1 DEF Fields
<1> HIDE DEF j
<1>4. QED
  BY <1>1, <1>2, <1>3, JobChange DEF Busy

(* An exception or an answer ends the request.                               *)
LEMMA Ended ==
    ASSUME JobShape, NEW t \in Thread, Fail(t)
    PROVE  /\ JobShape'
           /\ \A u \in Thread \ {t} : job'[u] = job[u] /\ \A s : At(u, s)' = At(u, s)
           /\ job'[t].h = None /\ ~Writing(t)'
<1>1. job' = [job EXCEPT ![t] = Idle]
  BY DEF Fail
<1>2. Idle.op = "none" /\ Idle.h = None
  BY DEF Idle
<1>3. JobShape' /\ job'[t] = Idle
  BY <1>1, JobChange
<1>4. QED
  BY <1>1, <1>2, <1>3, JobChange DEF Writing, At, Busy

(* Other changes to the record of a request.                                 *)
LEMMA Edited ==
    ASSUME JobShape, NEW t \in Thread, NEW j, job' = [job EXCEPT ![t] = j],
           j = [f \in Fields |-> j[f]], j.op # "none", j.n \in Id, j.len \in {1, 2},
           j.h = job[t].h, j.step \notin {"put", "replace"}
    PROVE  /\ JobShape'
           /\ \A u \in Thread \ {t} : job'[u] = job[u] /\ \A s : At(u, s)' = At(u, s)
           /\ job'[t].h = job[t].h /\ ~Writing(t)'
<1>1. JobShape' /\ job'[t] = j
  BY JobChange
<1>2. QED
  BY <1>1, JobChange DEF Writing, At

LEMMA StartFiles ==
    ASSUME FileInv, NEW t \in Thread, NEW op \in {"create", "rename", "write"}, NEW n \in Id,
           NEW title, NEW len \in {1, 2}, Start(t, op, n, title, len)
    PROVE  FileInv'
<1> DEFINE j == [op |-> op, n |-> n, title |-> title, len |-> len, rev |-> 0,
                 step |-> IF op = "create" THEN "try" ELSE "list",
                 left |-> << >>, k |-> 1, at |-> << >>, to |-> << >>, h |-> None]
<1>1. job' = [job EXCEPT ![t] = j] /\ UNCHANGED <<file, data, shared, writes>>
  BY DEF Start
<1>2. job[t] = Idle /\ job[t].h = None
  BY DEF Start, Busy, FileInv, JobShape, Idle
<1>3. /\ j = [f \in Fields |-> j[f]] /\ j.op = op /\ j.n = n /\ j.len = len
      /\ j.step \in {"try", "list"} /\ j.h = None
  BY DEF Fields
<1> HIDE DEF j
<1>4. QED
  BY <1>1, <1>2, <1>3, Edited, AwayStep DEF FileInv

(* The search for the directory and for a free name.                         *)
LEMMA WalkFiles ==
    ASSUME FileInv, NEW t \in Thread,
           List(t) \/ Look(t) \/ Read(t) \/ Again(t) \/ Try(t),
           \A i \in DOMAIN data : data[i].n \in Id \cup {None}
    PROVE  FileInv'
<1>1. Busy(t) /\ UNCHANGED <<file, data, shared, writes>>
  BY DEF List, Look, Read, Again, Try, At
<1>2. job[t] = [f \in Fields |-> job[t][f]] /\ job[t].op # "none"
      /\ job[t].n \in Id /\ job[t].len \in {1, 2}
  BY <1>1 DEF FileInv, JobShape, Busy, Idle
<1>3. ASSUME NEW j, job' = [job EXCEPT ![t] = j],
             j = [f \in Fields |-> j[f]], j.op = job[t].op, j.n = job[t].n,
             j.len = job[t].len, j.h = job[t].h, j.step \notin {"put", "replace"}
      PROVE  FileInv'
  BY <1>1, <1>2, <1>3, Edited, AwayStep DEF FileInv
<1>4. ASSUME Fail(t) PROVE FileInv'
  BY <1>1, <1>4, Ended, AwayStep DEF FileInv
<1>5. ASSUME NEW step, step \notin {"put", "replace"}, Goto(t, step) PROVE FileInv'
  BY <1>1, <1>5, OnlyStep, AwayStep DEF FileInv, Writing, At
<1>6. CASE List(t)
  <2> DEFINE j == [job[t] EXCEPT !.left = SetToSortSeq(DOMAIN entry, ByName), !.step = "look"]
  <2>1. job' = [job EXCEPT ![t] = j]
    BY <1>6 DEF List
  <2>2. /\ j = [f \in Fields |-> j[f]] /\ j.op = job[t].op /\ j.n = job[t].n
        /\ j.len = job[t].len /\ j.h = job[t].h /\ j.step = "look"
    BY <1>2 DEF Fields
  <2> HIDE DEF j
  <2>3. QED
    BY <1>3, <2>1, <2>2
<1>7. CASE Look(t)
  <2>1. CASE job' = [job EXCEPT ![t].left = Tail(job[t].left)]
    <3> DEFINE j == [job[t] EXCEPT !.left = Tail(job[t].left)]
    <3>1. job' = [job EXCEPT ![t] = j]
      BY <2>1
    <3>2. /\ j = [f \in Fields |-> j[f]] /\ j.op = job[t].op /\ j.n = job[t].n
          /\ j.len = job[t].len /\ j.h = job[t].h /\ j.step = job[t].step
      BY <1>2 DEF Fields
    <3>3. job[t].step = "look"
      BY <1>7 DEF Look, At
    <3> HIDE DEF j
    <3>4. QED
      BY <1>3, <3>1, <3>2, <3>3
  <2>2. QED
    BY <1>4, <1>5, <1>7, <2>1 DEF Look
<1>8. CASE Read(t)
  <2>1. CASE job' = [job EXCEPT ![t].left = << >>, ![t].at = Head(job[t].left),
                                ![t].step = IF job[t].op = "rename" THEN "again" ELSE "open"]
    <3> DEFINE j == [job[t] EXCEPT !.left = << >>, !.at = Head(job[t].left),
                                   !.step = IF job[t].op = "rename" THEN "again" ELSE "open"]
    <3>1. job' = [job EXCEPT ![t] = j]
      BY <2>1, <1>2
    <3>2. /\ j = [f \in Fields |-> j[f]] /\ j.op = job[t].op /\ j.n = job[t].n
          /\ j.len = job[t].len /\ j.h = job[t].h /\ j.step \in {"again", "open"}
      BY <1>2 DEF Fields
    <3> HIDE DEF j
    <3>3. QED
      BY <1>3, <3>1, <3>2
  <2>2. CASE job' = [job EXCEPT ![t].left = Tail(@), ![t].step = "look"]
    <3> DEFINE j == [job[t] EXCEPT !.left = Tail(@), !.step = "look"]
    <3>1. job' = [job EXCEPT ![t] = j]
      BY <2>2
    <3>2. /\ j = [f \in Fields |-> j[f]] /\ j.op = job[t].op /\ j.n = job[t].n
          /\ j.len = job[t].len /\ j.h = job[t].h /\ j.step = "look"
      BY <1>2 DEF Fields
    <3> HIDE DEF j
    <3>3. QED
      BY <1>3, <3>1, <3>2
  <2>3. QED
    BY <1>4, <1>8, <2>1, <2>2 DEF Read
<1>9. CASE Again(t)
  <2>1. CASE ~Readable(job[t].at)
    BY <1>4, <1>9, <2>1 DEF Again
  <2>2. CASE Readable(job[t].at)
    <3> DEFINE m == Content(job[t].at).n
               j == [job[t] EXCEPT !.n = m, !.step = "try"]
    <3>1. job' = [job EXCEPT ![t] = j]
      BY <1>2, <1>9, <2>2 DEF Again
    <3>2. m \in Id
      BY <2>2 DEF Readable, Content, Exists, Empty, FileInv, Placed
    <3> HIDE DEF m
    <3>3. /\ j = [f \in Fields |-> j[f]] /\ j.op = job[t].op /\ j.n \in Id
          /\ j.len = job[t].len /\ j.h = job[t].h /\ j.step = "try"
      BY <1>2, <3>2 DEF Fields
    <3> HIDE DEF j
    <3>4. QED
      BY <1>1, <1>2, <3>1, <3>3, Edited, AwayStep DEF FileInv
  <2>3. QED
    BY <2>1, <2>2
<1>10. CASE Try(t)
  <2>1. CASE job' = [job EXCEPT ![t].k = @ + 1]
    <3> DEFINE j == [job[t] EXCEPT !.k = @ + 1]
    <3>1. job' = [job EXCEPT ![t] = j]
      BY <2>1
    <3>2. /\ j = [f \in Fields |-> j[f]] /\ j.op = job[t].op /\ j.n = job[t].n
          /\ j.len = job[t].len /\ j.h = job[t].h /\ j.step = job[t].step
      BY <1>2 DEF Fields
    <3>3. job[t].step = "try"
      BY <1>10 DEF Try, At
    <3> HIDE DEF j
    <3>4. QED
      BY <1>3, <3>1, <3>2, <3>3
  <2>2. CASE job' = [job EXCEPT ![t].to = <<job[t].title, job[t].k>>,
                        ![t].step = IF job[t].op = "create" THEN "mkdir" ELSE "rename"]
    <3> DEFINE j == [job[t] EXCEPT !.to = <<job[t].title, job[t].k>>,
                        !.step = IF job[t].op = "create" THEN "mkdir" ELSE "rename"]
    <3>1. job' = [job EXCEPT ![t] = j]
      BY <2>2, <1>2
    <3>2. /\ j = [f \in Fields |-> j[f]] /\ j.op = job[t].op /\ j.n = job[t].n
          /\ j.len = job[t].len /\ j.h = job[t].h /\ j.step \in {"mkdir", "rename"}
      BY <1>2 DEF Fields
    <3> HIDE DEF j
    <3>3. QED
      BY <1>3, <3>1, <3>2
  <2>3. QED
    BY <1>10, <2>1, <2>2 DEF Try
<1>11. QED
  BY <1>6, <1>7, <1>8, <1>9, <1>10

(* The name is taken, the node is in its directory.                          *)
LEMMA TakeNameFiles ==
    ASSUME FileInv, NEW t \in Thread, MkDir(t) \/ Rename(t)
    PROVE  FileInv'
<1>1. Busy(t) /\ UNCHANGED <<file, data, shared, writes>> /\ (Fail(t) \/ Arrived(t))
  BY DEF MkDir, Rename, At
<1>2. job[t] = [f \in Fields |-> job[t][f]] /\ job[t].op # "none"
      /\ job[t].n \in Id /\ job[t].len \in {1, 2}
  BY <1>1 DEF FileInv, JobShape, Busy, Idle
<1>3. CASE Fail(t)
  BY <1>1, <1>3, Ended, AwayStep DEF FileInv
<1>4. CASE Arrived(t)
  <2> DEFINE j == [job[t] EXCEPT !.at = job[t].to, !.to = << >>, !.step = "open",
                                 !.title = 0, !.k = 1]
  <2>1. job' = [job EXCEPT ![t] = j]
    BY <1>4, <1>2 DEF Arrived
  <2>2. /\ j = [f \in Fields |-> j[f]] /\ j.op = job[t].op /\ j.n = job[t].n
        /\ j.len = job[t].len /\ j.h = job[t].h /\ j.step = "open"
    BY <1>2 DEF Fields
  <2> HIDE DEF j
  <2>3. QED
    BY <1>1, <1>2, <2>1, <2>2, Edited, AwayStep DEF FileInv
<1>5. QED
  BY <1>1, <1>3, <1>4

LEMMA LoadFiles ==
    ASSUME FileInv, NEW t \in Thread, Load(t)
    PROVE  FileInv'
BY Ended, AwayStep DEF Load, FileInv

-----------------------------------------------------------------------------
(* What Store keeps: the files with a name or a handle, as they are.         *)
LEMMA Kept ==
    ASSUME NEW d, Store(d)
    PROVE  /\ \A i \in DOMAIN data' : i \in DOMAIN d /\ data'[i] = d[i]
           /\ \A x \in DOMAIN file' : file'[x] \in DOMAIN d => file'[x] \in DOMAIN data'
           /\ \A t \in Thread : job'[t].h \in DOMAIN d => job'[t].h \in DOMAIN data'
BY DEF Store

(* A step that only frees files, for a thread that gives up.                 *)
LEMMA GiveUp ==
    ASSUME FileInv, JobShape', Store(data), UNCHANGED <<shared, writes>>,
           \A x \in DOMAIN file' : x \in DOMAIN file /\ file'[x] = file[x],
           \A u \in Thread : \/ job'[u] = job[u]
                             \/ job'[u].h \in {job[u].h, None} /\ ~Writing(u)'
    PROVE  FileInv'
<1> USE DEF FileInv
<1>1. /\ \A i \in DOMAIN data' : i \in DOMAIN data /\ data'[i] = data[i]
      /\ \A x \in DOMAIN file' : file'[x] \in DOMAIN data => file'[x] \in DOMAIN data'
      /\ \A t \in Thread : job'[t].h \in DOMAIN data => job'[t].h \in DOMAIN data'
  BY Kept
<1>2. \A t \in Thread : job'[t].h \in {job[t].h, None}
  OBVIOUS
<1>3. \A t \in Thread : Writing(t)' =>
        job'[t] = job[t] /\ \A step : At(t, step)' = At(t, step)
  BY DEF At, Busy
<1>4. \A t \in Thread : Writing(t)' => Writing(t)
  BY <1>3 DEF Writing
<1>5. Handles'
  BY <1>1, <1>2, <1>3, <1>4 DEF Handles
<1>6. Placed'
  BY <1>1, <1>2 DEF Placed, Handles
<1>7. OwnFile'
  BY <1>1, <1>3, <1>4 DEF OwnFile, Writing, Handles
<1>8. QED
  BY <1>5, <1>6, <1>7

LEMMA CleanUpFiles ==
    ASSUME FileInv, NEW t \in Thread, CleanUp(t)
    PROVE  FileInv'
<1>1. Fail(t) /\ Store(data) /\ UNCHANGED <<shared, writes>>
  BY DEF CleanUp, CleanUpOf
<1>2. \A x \in DOMAIN file' : x \in DOMAIN file /\ file'[x] = file[x]
  BY DEF CleanUp, CleanUpOf, Minus
<1>3. /\ JobShape' /\ job'[t].h = None /\ ~Writing(t)'
      /\ \A u \in Thread \ {t} : job'[u] = job[u] /\ \A s : At(u, s)' = At(u, s)
  BY <1>1, Ended DEF FileInv
<1>4. \A u \in Thread : \/ job'[u] = job[u]
                        \/ job'[u].h \in {job[u].h, None} /\ ~Writing(u)'
  BY <1>3
<1>5. QED
  BY <1>1, <1>2, <1>3, <1>4, GiveUp

LEMMA CrashFiles ==
    ASSUME FileInv, Crash
    PROVE  FileInv'
<1>1. job' = [t \in Thread |-> Idle] /\ Store(data) /\ UNCHANGED <<file, shared, writes>>
  BY DEF Crash
<1>2. JobShape' /\ \A t \in Thread : job'[t].h = None /\ ~Writing(t)'
  BY <1>1 DEF JobShape, Writing, At, Busy, Idle
<1>3. QED
  BY <1>1, <1>2, GiveUp DEF FileInv

(* open("w") finds the temporary file of another, or makes a new one.        *)
LEMMA OpenFiles ==
    ASSUME FileInv, NEW t \in Thread, Open(t)
    PROVE  FileInv'
<1> DEFINE name == job[t].at
           x == File(name, "tmp")
           inode == IF Exists(name, "tmp") THEN file[x] ELSE writes + 1
<1> USE DEF FileInv
<1>1. Busy(t) /\ At(t, "open")
  BY DEF Open, OpenAs, At
<1>2. CASE Undo(t) /\ UNCHANGED <<file, data, shared, writes>>
  <2>1. \A s \in {"put", "replace"} : s # "undo"
    OBVIOUS
  <2>2. QED
    BY <1>1, <1>2, OnlyStep, AwayStep DEF Undo, Writing, At
<1>3. CASE /\ name \in DOMAIN entry
           /\ file' = Plus(file, x, inode)
           /\ job' = [job EXCEPT ![t].h = inode, ![t].rev = writes + 1, ![t].step = "put"]
           /\ writes' = writes + 1
           /\ Store(Plus(data, inode, Empty))
           /\ Share(t, inode)
  <2> DEFINE j == [job[t] EXCEPT !.h = inode, !.rev = writes + 1, !.step = "put"]
  <2>1. job[t] = [f \in Fields |-> job[t][f]] /\ job[t].op # "none"
        /\ job[t].n \in Id /\ job[t].len \in {1, 2}
    BY <1>1 DEF JobShape, Busy, Idle
  <2>2. job' = [job EXCEPT ![t] = j]
    BY <1>3
  <2>3. /\ j = [f \in Fields |-> j[f]] /\ j.op = job[t].op /\ j.n = job[t].n
        /\ j.len = job[t].len /\ j.h = inode /\ j.step = "put"
    BY <2>1 DEF Fields
  <2> HIDE DEF j
  <2>4. /\ JobShape' /\ job'[t] = j
        /\ \A u \in Thread \ {t} : /\ job'[u] = job[u]
                                   /\ \A s : At(u, s)' = At(u, s)
    BY <2>1, <2>2, <2>3, JobChange
  <2>5. /\ inode # None
        /\ inode \in DOMAIN data => x \in DOMAIN file /\ inode = file[x]
        /\ inode \in DOMAIN data \/ inode = writes + 1
        /\ x \in DOMAIN file => inode = file[x]
    BY <1>3, ValueAssumption DEF Exists, Handles, Placed
  <2>6. /\ DOMAIN file' = DOMAIN file \cup {x} /\ file'[x] = inode
        /\ \A y \in DOMAIN file \ {x} : file'[y] = file[y] /\ file[y] # inode
    BY <1>3, <2>5 DEF Plus, Placed
  <2> DEFINE d == Plus(data, inode, Empty)
  <2>7. /\ DOMAIN d = DOMAIN data \cup {inode} /\ d[inode] = Empty
        /\ \A i \in DOMAIN data \ {inode} : d[i] = data[i]
    BY DEF Plus
  <2>8. Store(d)
    BY <1>3
  <2> HIDE DEF d, inode, x
  <2>9. /\ \A i \in DOMAIN data' : i \in DOMAIN d /\ data'[i] = d[i]
        /\ \A y \in DOMAIN file' : file'[y] \in DOMAIN d => file'[y] \in DOMAIN data'
        /\ \A u \in Thread : job'[u].h \in DOMAIN d => job'[u].h \in DOMAIN data'
    BY <2>8, Kept
  <2>10. /\ shared \subseteq shared'
         /\ \A u \in Thread \ {t} : job[u].h = inode => inode \in shared'
    BY <1>3 DEF Share
  <2>11. \A u \in Thread \ {t} : Writing(u)' => Writing(u)
    BY <2>4 DEF Writing
  <2>12. At(t, "put")' /\ ~At(t, "replace")' /\ job'[t].h = inode
    BY <2>1, <2>3, <2>4 DEF At, Busy
  <2>13. Handles'
    <3>1. writes' \in Nat /\ None \notin DOMAIN data'
      BY <1>3, <2>5, <2>7, <2>9 DEF Handles
    <3>2. \A i \in DOMAIN data' : i \in Nat => i <= writes'
      BY <1>3, <2>5, <2>7, <2>9 DEF Handles
    <3>3. \A u \in Thread : job'[u].h \in DOMAIN data' \cup {None}
      BY <2>4, <2>7, <2>9, <2>12 DEF Handles
    <3>4. \A u \in Thread : Writing(u)' => job'[u].h # None
      BY <2>4, <2>5, <2>11, <2>12 DEF Handles
    <3>5. \A u, v \in Thread : u # v /\ job'[u].h = job'[v].h /\ job'[u].h # None
                               => job'[u].h \in shared'
      BY <2>4, <2>10, <2>12 DEF Handles
    <3>6. QED
      BY <3>1, <3>2, <3>3, <3>4, <3>5 DEF Handles
  <2>14. x[2] = "tmp"
    BY DEF x, File
  <2>15. Placed'
    <3>1. \A y \in DOMAIN file' : file'[y] \in DOMAIN data'
      BY <2>6, <2>7, <2>9 DEF Placed
    <3>2. \A y, z \in DOMAIN file' : file'[y] = file'[z] => y = z
      BY <2>6 DEF Placed
    <3>3. ASSUME NEW y \in DOMAIN file', y[2] = "json", file'[y] \notin shared'
          PROVE  data'[file'[y]].n # None /\ \A u \in Thread : job'[u].h # file'[y]
      <4>1. y \in DOMAIN file /\ file'[y] = file[y] /\ file[y] # inode
        BY <2>6, <2>14, <3>3
      <4>2. data[file[y]].n # None /\ \A u \in Thread : job[u].h # file[y]
        BY <2>10, <3>3, <4>1 DEF Placed
      <4>3. file[y] \in DOMAIN data /\ data'[file[y]] = data[file[y]]
        BY <2>7, <2>9, <3>1, <4>1 DEF Placed
      <4>4. QED
        BY <2>4, <2>12, <4>1, <4>2, <4>3
    <3>4. QED
      BY <3>1, <3>2, <3>3 DEF Placed
  <2>16. OwnFile'
    <3>1. data'[inode] = Empty
      BY <2>7, <2>9, <2>12
    <3>2. ASSUME NEW u \in Thread \ {t}, job'[u].h \notin shared', Writing(u)'
          PROVE  job[u].h \notin shared /\ data'[job'[u].h] = data[job[u].h]
      <4>1. job'[u].h = job[u].h /\ job[u].h # inode /\ job[u].h # None
        BY <2>4, <2>10, <2>11, <3>2 DEF Handles
      <4>2. job[u].h \in DOMAIN data
        BY <4>1 DEF Handles
      <4>3. QED
        BY <2>7, <2>9, <2>10, <3>2, <4>1, <4>2
    <3>3. QED
      BY <2>4, <2>12, <3>1, <3>2 DEF OwnFile, Writing
  <2>17. QED
    BY <2>4, <2>13, <2>15, <2>16
<1>4. QED
  BY <1>2, <1>3 DEF Open, OpenAs

(* The text goes into the file the thread has, and nowhere else.             *)
LEMMA PutFiles ==
    ASSUME FileInv, NEW t \in Thread, Put(t)
    PROVE  FileInv'
<1> DEFINE i == job[t].h
           new == [n |-> job[t].n, rev |-> job[t].rev, len |-> job[t].len]
<1> USE DEF FileInv
<1>1. /\ Busy(t) /\ At(t, "put") /\ UNCHANGED <<file, shared, writes>>
      /\ \/ Goto(t, "replace") /\ Store(Plus(data, i, Over(data[i], new)))
         \/ Goto(t, "undo") /\ Store(Plus(data, i, Torn))
  BY DEF Put, Undo, At
<1>2. i \in DOMAIN data /\ i # None
  BY <1>1 DEF Handles, Writing
<1>3. job[t].n # None /\ job[t].len \in {1, 2}
  BY <1>1, ValueAssumption DEF JobShape, Busy, Idle
<1>4. PICK v : /\ Store(Plus(data, i, v))
               /\ \/ Goto(t, "replace") /\ v = Over(data[i], new)
                  \/ Goto(t, "undo")
  BY <1>1
<1>5. /\ JobShape' /\ job'[t].h = i /\ ~At(t, "put")'
      /\ \A u \in Thread \ {t} : job'[u] = job[u] /\ \A s : At(u, s)' = At(u, s)
  BY <1>1, <1>4, OnlyStep DEF At
<1>6. At(t, "replace")' => v = Over(data[i], new)
  BY <1>1, <1>4, OnlyStep DEF At
<1>7. i \notin shared /\ At(t, "replace")' => v.n # None
  <2>1. i \notin shared => data[i] = Empty
    BY <1>1 DEF OwnFile
  <2>2. Over(Empty, new).n = job[t].n
    BY <1>3 DEF Over, Empty
  <2>3. QED
    BY <1>3, <1>6, <2>1, <2>2
<1> HIDE DEF i
<1>8. /\ \A k \in DOMAIN data' : k \in DOMAIN data /\ (k # i => data'[k] = data[k])
      /\ \A x \in DOMAIN file' : file'[x] \in DOMAIN data => file'[x] \in DOMAIN data'
      /\ \A u \in Thread : job'[u].h \in DOMAIN data => job'[u].h \in DOMAIN data'
      /\ i \in DOMAIN data' => data'[i] = v
  BY <1>2, <1>4, Kept DEF Plus
<1>9. \A u \in Thread : job'[u].h = job[u].h
  BY <1>5 DEF i
<1>10. \A u \in Thread \ {t} : job[u].h = i => i \in shared
  BY <1>2 DEF Handles, i
<1>11. Handles'
  <2>1. \A u \in Thread : Writing(u)' => Writing(u)
    BY <1>1, <1>5 DEF Writing
  <2>2. QED
    BY <1>1, <1>8, <1>9, <2>1 DEF Handles
<1>12. Placed'
  <2>1. ASSUME NEW x \in DOMAIN file, x[2] = "json", file[x] \notin shared
        PROVE  file[x] # i
    BY <2>1 DEF Placed, i
  <2>2. QED
    BY <1>1, <1>8, <1>9, <2>1 DEF Placed
<1>13. OwnFile'
  <2>1. ASSUME job'[t].h \notin shared', At(t, "replace")'
        PROVE  data'[job'[t].h].n # None
    BY <1>1, <1>2, <1>5, <1>7, <1>8, <2>1
  <2>2. ASSUME NEW u \in Thread \ {t}, job'[u].h \notin shared', Writing(u)'
        PROVE  job[u].h \notin shared /\ data'[job'[u].h] = data[job[u].h]
    <3>1. Writing(u) /\ job'[u].h = job[u].h /\ job[u].h \notin shared
      BY <1>1, <1>5, <2>2 DEF Writing
    <3>2. job[u].h \in DOMAIN data /\ job[u].h # i
      BY <1>10, <3>1 DEF Handles
    <3>3. QED
      BY <1>8, <3>1, <3>2
  <2>3. QED
    BY <1>5, <2>1, <2>2 DEF OwnFile, Writing
<1>14. QED
  BY <1>5, <1>11, <1>12, <1>13

(* The temporary file takes the name of node.json.                           *)
LEMMA ReplaceFiles ==
    ASSUME FileInv, NEW t \in Thread, Replace(t)
    PROVE  FileInv'
<1> DEFINE name == job[t].at
           x == File(name, "tmp")
           y == File(name, "json")
           i == file[x]
<1> USE DEF FileInv
<1>1. Busy(t) /\ At(t, "replace") /\ Store(data) /\ UNCHANGED writes
  BY DEF Replace, At
<1>2. CASE Undo(t) /\ UNCHANGED <<file, shared>>
  <2>1. /\ JobShape' /\ job'[t].h = job[t].h /\ ~Writing(t)'
        /\ \A u \in Thread \ {t} : job'[u] = job[u] /\ \A s : At(u, s)' = At(u, s)
    BY <1>1, <1>2, OnlyStep DEF Undo, Writing, At
  <2>2. \A u \in Thread : \/ job'[u] = job[u]
                          \/ job'[u].h \in {job[u].h, None} /\ ~Writing(u)'
    BY <2>1
  <2>3. QED
    BY <1>1, <1>2, <2>1, <2>2, GiveUp
<1>3. CASE /\ Exists(name, "tmp")
           /\ file' = Plus(Minus(file, {x}), y, i)
           /\ job' = [job EXCEPT ![t].h = None, ![t].step = "load"]
           /\ IF job[t].h = i THEN Share(t, i) ELSE shared' = shared \cup {i}
  <2> DEFINE j == [job[t] EXCEPT !.h = None, !.step = "load"]
  <2>1. job[t] = [f \in Fields |-> job[t][f]] /\ job[t].op # "none"
        /\ job[t].n \in Id /\ job[t].len \in {1, 2}
    BY <1>1 DEF JobShape, Busy, Idle
  <2>2. job' = [job EXCEPT ![t] = j]
    BY <1>3
  <2>3. /\ j = [f \in Fields |-> j[f]] /\ j.op = job[t].op /\ j.n = job[t].n
        /\ j.len = job[t].len /\ j.h = None /\ j.step = "load"
    BY <2>1 DEF Fields
  <2> HIDE DEF j
  <2>4. /\ JobShape' /\ job'[t] = j
        /\ \A u \in Thread \ {t} : /\ job'[u] = job[u]
                                   /\ \A s : At(u, s)' = At(u, s)
    BY <2>1, <2>2, <2>3, JobChange
  <2>5. job'[t].h = None /\ ~Writing(t)'
    BY <2>3, <2>4 DEF Writing, At
  <2>6. x \in DOMAIN file /\ i \in DOMAIN data /\ x # y /\ x[2] = "tmp" /\ y[2] = "json"
    BY <1>3 DEF Exists, Placed, File
  <2>7. /\ DOMAIN file' = (DOMAIN file \ {x}) \cup {y} /\ file'[y] = i
        /\ \A z \in DOMAIN file \ {x, y} : file'[z] = file[z] /\ file[z] # i
    BY <1>3, <2>6 DEF Plus, Minus, Placed
  <2>8. /\ shared \subseteq shared'
        /\ i \notin shared' => /\ job[t].h = i /\ i \notin shared
                             /\ \A u \in Thread \ {t} : job[u].h # i
    BY <1>3 DEF Share
  <2>9. i \notin shared' => data[i].n # None
    BY <1>1, <2>8 DEF OwnFile
  <2> HIDE DEF x, y, i
  <2>10. /\ \A k \in DOMAIN data' : k \in DOMAIN data /\ data'[k] = data[k]
         /\ \A z \in DOMAIN file' : file'[z] \in DOMAIN data => file'[z] \in DOMAIN data'
         /\ \A u \in Thread : job'[u].h \in DOMAIN data => job'[u].h \in DOMAIN data'
    BY <1>1, Kept
  <2>11. \A u \in Thread : Writing(u)' => u # t /\ Writing(u) /\ job'[u].h = job[u].h
    BY <2>4, <2>5 DEF Writing
  <2>12. \A u \in Thread : job'[u].h = job[u].h \/ job'[u].h = None
    BY <2>4, <2>5
  <2>13. Handles'
    <3>1. \A u \in Thread : job'[u].h \in DOMAIN data' \cup {None}
      BY <2>10, <2>12 DEF Handles
    <3>2. \A u, v \in Thread : u # v /\ job'[u].h = job'[v].h /\ job'[u].h # None
                               => job'[u].h \in shared'
      BY <2>8, <2>12 DEF Handles
    <3>3. QED
      BY <1>1, <2>10, <2>11, <3>1, <3>2 DEF Handles
  <2>14. Placed'
    <3>1. \A z \in DOMAIN file' : file'[z] \in DOMAIN data'
      BY <2>6, <2>7, <2>10 DEF Placed
    <3>2. \A z, w \in DOMAIN file' : file'[z] = file'[w] => z = w
      BY <2>7 DEF Placed
    <3>3. ASSUME NEW z \in DOMAIN file', z[2] = "json", file'[z] \notin shared'
          PROVE  data'[file'[z]].n # None /\ \A u \in Thread : job'[u].h # file'[z]
      <4>1. data'[file'[z]] = data[file'[z]] /\ file'[z] # None
        BY <2>10, <3>1 DEF Handles
      <4>2. CASE z = y
        BY <2>4, <2>5, <2>7, <2>8, <2>9, <3>3, <4>1, <4>2
      <4>3. CASE z # y
        <5>1. z \in DOMAIN file /\ file'[z] = file[z] /\ file[z] \notin shared
          BY <2>6, <2>7, <2>8, <3>3, <4>3
        <5>2. QED
          BY <2>12, <3>3, <4>1, <5>1 DEF Placed
      <4>4. QED
        BY <4>2, <4>3
    <3>4. QED
      BY <3>1, <3>2, <3>3 DEF Placed
  <2>15. OwnFile'
    <3>1. ASSUME NEW u \in Thread, job'[u].h \notin shared', Writing(u)'
          PROVE  /\ job[u].h \notin shared /\ data'[job'[u].h] = data[job[u].h]
                 /\ \A s : At(u, s)' = At(u, s)
      <4>1. u # t /\ Writing(u) /\ job'[u].h = job[u].h
        BY <2>11, <3>1
      <4>2. job[u].h \in DOMAIN data
        BY <4>1 DEF Handles
      <4>3. QED
        BY <2>4, <2>8, <2>10, <3>1, <4>1, <4>2
    <3>2. QED
      BY <3>1 DEF OwnFile, Writing
  <2>16. QED
    BY <2>4, <2>13, <2>14, <2>15
<1>4. QED
  BY <1>2, <1>3 DEF Replace

-----------------------------------------------------------------------------
LEMMA FilesNext ==
    ASSUME FileInv, \A i \in DOMAIN data : data[i].n \in Id \cup {None}, [Next]_vars
    PROVE  FileInv'
<1>1. ASSUME NEW t \in Thread, Step(t) PROVE FileInv'
  BY <1>1, WalkFiles, TakeNameFiles, OpenFiles, PutFiles, ReplaceFiles, CleanUpFiles, LoadFiles
     DEF Step
<1>2. ASSUME NEW t \in Thread, NEW op \in {"create", "rename"}, NEW n \in Id,
             NEW title \in Title, NEW len \in {1, 2}, Start(t, op, n, title, len)
      PROVE  FileInv'
  BY <1>2, StartFiles
<1>3. ASSUME NEW t \in Thread, NEW n \in Id, NEW len \in {1, 2}, Start(t, "write", n, 0, len)
      PROVE  FileInv'
  BY <1>3, StartFiles
<1>4. CASE Crash
  BY <1>4, CrashFiles
<1>5. CASE UNCHANGED vars
  BY <1>5 DEF vars, FileInv, JobShape, Handles, Placed, OwnFile, Writing, At, Busy
<1>6. QED
  BY <1>1, <1>2, <1>3, <1>4, <1>5 DEF Next

-----------------------------------------------------------------------------
(* What a request may be, at each of its steps.                              *)
RequestOK(j) ==
    /\ j.op \in {"create", "rename", "write"} /\ j.n \in issued /\ j.k \in Nat
    /\ j.rev \in Nat /\ j.rev <= writes
    /\ j.step \notin {"put", "replace", "load", "undo"} => j.rev = 0
    /\ \/ j.step \in {"list", "look", "read"} /\ j.op # "create" /\ j.at = << >>
       \/ j.step \in {"try", "mkdir"} /\ j.op = "create" /\ j.at = << >>
       \/ j.step \in {"again", "try", "rename"} /\ j.op = "rename" /\ j.at \in Names
       \/ j.step \in {"open", "put", "replace", "load", "undo"} /\ j.at \in Names
    /\ IF j.step \in {"mkdir", "rename"} THEN j.to \in Names ELSE j.to = << >>
    /\ j.step \in {"list", "look", "read", "again", "try"} /\ j.op # "write" => j.title \in Title

Requests == \A t \in Thread : Busy(t) => RequestOK(job[t])

Unmade(t) == Busy(t) /\ job[t].op = "create" /\ job[t].step \in {"try", "mkdir"}

(* A directory has one name and its files are reached by it; that of a new   *)
(* node is not there before it is made, and no two creates make the same one.*)
Dirs ==
    /\ issued \subseteq Id /\ met \subseteq issued
    /\ \A a \in DOMAIN entry : a \in Names /\ entry[a] \in issued
    /\ \A a, b \in DOMAIN entry : entry[a] = entry[b] => a = b
    /\ \A x \in DOMAIN file : /\ x = <<x[1], x[2]>> /\ x[2] \in {"json", "tmp"}
                              /\ \E a \in DOMAIN entry : entry[a] = x[1]
    /\ \A t \in Thread : Unmade(t) => \A a \in DOMAIN entry : entry[a] # job[t].n
    /\ \A t, u \in Thread : t # u /\ Unmade(t) /\ Unmade(u) => job[t].n # job[u].n
    /\ answered \in [Id -> Nat] /\ \A n \in Id : answered[n] <= writes

(* Requests that hold the same path have met.                                *)
Meetings ==
    \A t, u \in Thread :
        t # u /\ Paths(t) \cap Paths(u) # {} => {job[t].n, job[u].n} \subseteq met

Holds(t, n) == Busy(t) /\ job[t].n = n /\ job[t].at # << >>

Present(n) == <<n, "json">> \in DOMAIN file /\ data[file[<<n, "json">>]].n = n
Whole(n, rev) == Present(n) /\ data[file[<<n, "json">>]].rev >= rev

(* What holds of a node whose requests met no other: its text is in its own  *)
(* directory and nowhere else, and only its own requests hold that directory *)
(* or have a file of it open.                                                *)
OwnDirectory(n) ==
    \A x \in DOMAIN file :
        /\ data[file[x]].n = n => x[1] = n
        /\ x[1] = n => /\ data[file[x]].n \in {n, None}
                       /\ \A t \in Thread : job[t].h = file[x] => job[t].n = n

OwnPaths(n) ==
    \A t \in Thread : \A p \in Paths(t) : p \in DOMAIN entry /\ entry[p] = n => job[t].n = n

(* Its request is where the node is, and what it writes goes where it says.  *)
OnCourse(t, n) ==
    /\ job[t].at \in DOMAIN entry /\ entry[job[t].at] = n
    /\ job[t].step \in {"put", "replace"} =>
          /\ <<n, "tmp">> \in DOMAIN file /\ job[t].h = file[<<n, "tmp">>]
          /\ job[t].rev >= answered[n]
    /\ job[t].step = "put" => data[job[t].h] = Empty
    /\ job[t].step = "replace" => data[job[t].h].n = n /\ data[job[t].h].rev = job[t].rev
    /\ job[t].step = "load" => Whole(n, job[t].rev)

AnsweredKept(n) == answered[n] > 0 \/ Present(n) => Whole(n, answered[n])

Quiet(n) ==
    /\ OwnDirectory(n) /\ OwnPaths(n) /\ AnsweredKept(n)
    /\ \A t \in Thread : Holds(t, n) => OnCourse(t, n)

Quiets == \A n \in Id \ met : Quiet(n)

ApartInv == Requests /\ Dirs /\ Meetings /\ Quiets

-----------------------------------------------------------------------------
LEMMA NamesArePairs == ASSUME NEW p \in Names PROVE p # << >> /\ p = <<p[1], p[2]>>
BY DEF Names

(* Two requests never hold the directory of a node whose requests met none.  *)
LEMMA Sole ==
    ASSUME Dirs, Meetings, NEW n \in Id \ met, Quiet(n), NEW t \in Thread, NEW u \in Thread,
           Holds(t, n), Holds(u, n)
    PROVE  t = u
<1> SUFFICES ASSUME t # u PROVE FALSE
  OBVIOUS
<1>1. job[t].at = job[u].at
  BY DEF Quiet, OnCourse, Dirs
<1>2. job[t].at \in Paths(t) \cap Paths(u)
  BY <1>1 DEF Paths, Holds
<1>3. job[t].n \in met
  BY <1>2 DEF Meetings
<1>4. QED
  BY <1>3 DEF Holds

(* The directory a request holds is its node's, or neither is quiet.         *)
LEMMA HeldDirectory ==
    ASSUME NEW n \in Id \ met, Quiet(n), NEW t \in Thread, Busy(t), job[t].at # << >>,
           job[t].at \in DOMAIN entry
    PROVE  entry[job[t].at] = n <=> job[t].n = n
<1>1. job[t].at \in Paths(t)
  BY DEF Paths
<1>2. entry[job[t].at] = n => job[t].n = n
  BY <1>1 DEF Quiet, OwnPaths
<1>3. job[t].n = n => entry[job[t].at] = n
  BY DEF Quiet, OnCourse, Holds
<1>4. QED
  BY <1>2, <1>3

LEMMA ApartInit == Init => ApartInv
<1> SUFFICES ASSUME Init PROVE ApartInv
  OBVIOUS
<1>1. PICK S \in SUBSET Id : \E f \in [S -> Title \X {1, 2}] :
         /\ \A n, m \in S : f[n] = f[m] => n = m
         /\ entry = [name \in {f[n] : n \in S} |-> CHOOSE n \in S : f[n] = name]
         /\ file = [x \in S \X {"json"} |-> x[1]]
         /\ data = [n \in S |-> [n |-> n, rev |-> 0, len |-> 1]]
         /\ issued = S
  BY DEF Init
<1>2. PICK f \in [S -> Title \X {1, 2}] :
         /\ \A n, m \in S : f[n] = f[m] => n = m
         /\ entry = [name \in {f[n] : n \in S} |-> CHOOSE n \in S : f[n] = name]
         /\ file = [x \in S \X {"json"} |-> x[1]]
         /\ data = [n \in S |-> [n |-> n, rev |-> 0, len |-> 1]]
         /\ issued = S
  BY <1>1
<1>3. /\ job = [t \in Thread |-> Idle] /\ writes = 0 /\ answered = [n \in Id |-> 0] /\ met = {}
  BY DEF Init
<1>4. \A t \in Thread : ~Busy(t) /\ job[t].h = None /\ Paths(t) = {}
  BY <1>3 DEF Busy, Idle, Paths
<1>5. \A n \in S : f[n] \in DOMAIN entry /\ entry[f[n]] = n
  BY <1>2
<1>6. \A a \in DOMAIN entry : \E n \in S : a = f[n] /\ entry[a] = n
  BY <1>2, <1>5
<1>7. \A x \in DOMAIN file : /\ x = <<x[1], "json">> /\ x[1] \in S /\ file[x] = x[1]
                             /\ data[file[x]].n = x[1] /\ data[file[x]].rev = 0
  BY <1>2
<1>8. Requests
  BY <1>4 DEF Requests
<1>9. Dirs
  <2>1. \A a \in DOMAIN entry : a \in Names /\ entry[a] \in issued
    BY <1>2, <1>6 DEF Names
  <2>2. \A a, b \in DOMAIN entry : entry[a] = entry[b] => a = b
    BY <1>6
  <2>3. \A x \in DOMAIN file : /\ x = <<x[1], x[2]>> /\ x[2] \in {"json", "tmp"}
                               /\ \E a \in DOMAIN entry : entry[a] = x[1]
    BY <1>5, <1>7
  <2>4. answered \in [Id -> Nat] /\ \A n \in Id : answered[n] <= writes
    BY <1>3
  <2>5. QED
    BY <1>2, <1>3, <1>4, <2>1, <2>2, <2>3, <2>4 DEF Dirs, Unmade
<1>10. Meetings
  BY <1>4 DEF Meetings
<1>11. Quiets
  <2> SUFFICES ASSUME NEW n \in Id \ met PROVE Quiet(n)
    BY DEF Quiets
  <2>1. OwnDirectory(n)
    BY <1>4, <1>7, ValueAssumption DEF OwnDirectory
  <2>2. OwnPaths(n)
    BY <1>4 DEF OwnPaths
  <2>3. AnsweredKept(n)
    BY <1>3, <1>7 DEF AnsweredKept, Whole, Present
  <2>4. QED
    BY <1>4, <2>1, <2>2, <2>3 DEF Quiet, Holds
<1>12. QED
  BY <1>8, <1>9, <1>10, <1>11 DEF ApartInv
-----------------------------------------------------------------------------
(* A step of one request that leaves the workspace as it is: what it may     *)
(* come to hold, and where it may go.                                        *)
LEMMA OneMoves ==
    ASSUME FileInv, ApartInv, NEW t \in Thread, Busy(t),
           \A u \in Thread \ {t} : job'[u] = job[u],
           \/ job'[t] = Idle
           \/ /\ Busy(t)' /\ RequestOK(job[t])' /\ (Unmade(t)' => Unmade(t))
              /\ job'[t].n = job[t].n /\ job'[t].h = job[t].h
              /\ job'[t].step \notin {"put", "replace", "load"}
              /\ \A u \in Thread \ {t} : \A p \in Paths(t)' \cap Paths(u) :
                    p \in Paths(t) \/ {job[t].n, job[u].n} \subseteq met'
              /\ \A n \in Id \ met' : \A p \in Paths(t)' \ Paths(t) :
                    p \in DOMAIN entry /\ entry[p] = n => job[t].n = n
              /\ \/ job'[t].at \in {<< >>, job[t].at}
                 \/ \A n \in Id \ met' : job[t].n = n =>
                       job'[t].at \in DOMAIN entry /\ entry[job'[t].at] = n,
           \A x \in DOMAIN file : data'[file[x]] = data[file[x]],
           UNCHANGED <<entry, file, writes, issued, answered>>,
           met \subseteq met', met' \subseteq issued
    PROVE  ApartInv'
<1> USE DEF ApartInv
<1>1. \A u \in Thread \ {t} : /\ Busy(u)' <=> Busy(u)
                              /\ Paths(u)' = Paths(u) /\ (Unmade(u)' <=> Unmade(u))
                              /\ RequestOK(job[u])' <=> RequestOK(job[u])
                              /\ \A n : Holds(u, n)' <=> Holds(u, n)
  BY DEF Busy, Paths, Unmade, RequestOK, Holds
<1>2. job'[t] = Idle => ~Busy(t)' /\ Paths(t)' = {} /\ ~Unmade(t)' /\ job'[t].h = None
  BY DEF Idle, Busy, Paths, Unmade
<1>3. Requests'
  BY <1>1, <1>2 DEF Requests
<1>4. Dirs'
  <2>1. \A u \in Thread : Unmade(u)' => Unmade(u) /\ job'[u].n = job[u].n
    BY <1>1, <1>2
  <2>2. QED
    BY <2>1 DEF Dirs
<1>5. Meetings'
  <2> SUFFICES ASSUME NEW u \in Thread \ {t}, NEW p \in Paths(t)' \cap Paths(u)
               PROVE  {job'[t].n, job'[u].n} \subseteq met'
    BY <1>1 DEF Meetings
  <2>1. job'[t].n = job[t].n /\ job'[u].n = job[u].n
    BY <1>2
  <2>2. p \in Paths(t) \/ {job[t].n, job[u].n} \subseteq met'
    BY <1>2
  <2>3. QED
    BY <2>1, <2>2 DEF Meetings
<1>6. Quiets'
  <2> SUFFICES ASSUME NEW n \in Id \ met' PROVE Quiet(n)'
    BY DEF Quiets
  <2>1. Quiet(n)
    BY DEF Quiets
  <2>2. OwnDirectory(n)'
    <3>1. \A x \in DOMAIN file : file[x] # None
      BY DEF FileInv, Placed, Handles
    <3>2. \A u \in Thread : job'[u].h = None \/ (job'[u].h = job[u].h /\ job'[u].n = job[u].n)
      BY <1>2
    <3>3. QED
      BY <2>1, <3>1, <3>2 DEF Quiet, OwnDirectory
  <2>3. OwnPaths(n)'
    <3>1. \A u \in Thread \ {t} : \A p \in Paths(u)' : p \in DOMAIN entry' /\ entry'[p] = n => job'[u].n = n
      BY <1>1, <2>1 DEF Quiet, OwnPaths
    <3>2. \A p \in Paths(t)' : p \in DOMAIN entry' /\ entry'[p] = n => job'[t].n = n
      BY <1>2, <2>1 DEF Quiet, OwnPaths
    <3>3. QED
      BY <3>1, <3>2 DEF OwnPaths
  <2>4. \A rev : Whole(n, rev)' <=> Whole(n, rev)
    BY DEF Whole, Present
  <2>5. AnsweredKept(n)'
    BY <2>1, <2>4 DEF Quiet, AnsweredKept, Whole, Present
  <2>6. ASSUME NEW u \in Thread \ {t}, Holds(u, n)' PROVE OnCourse(u, n)'
    <3>1. OnCourse(u, n)
      BY <1>1, <2>1, <2>6 DEF Quiet
    <3>2. QED
      BY <2>4, <3>1 DEF OnCourse
  <2>7. ASSUME Holds(t, n)' PROVE OnCourse(t, n)'
    <3>1. /\ job'[t].n = job[t].n /\ job'[t].step \notin {"put", "replace", "load"}
          /\ job'[t].at # << >> /\ job[t].n = n
      BY <1>2, <2>7 DEF Holds
    <3>2. job'[t].at \in DOMAIN entry /\ entry[job'[t].at] = n
      <4>1. CASE job'[t].at = job[t].at
        BY <2>1, <3>1, <4>1 DEF Quiet, OnCourse, Holds
      <4>2. CASE job'[t].at # job[t].at
        BY <1>2, <2>7, <3>1, <4>2 DEF Holds
      <4>3. QED
        BY <4>1, <4>2
    <3>3. QED
      BY <3>1, <3>2 DEF OnCourse
  <2>8. QED
    BY <2>2, <2>3, <2>5, <2>6, <2>7 DEF Quiet
<1>7. QED
  BY <1>3, <1>4, <1>5, <1>6

(* Such a step that takes no path.                                           *)
LEMMA NothingTaken ==
    ASSUME FileInv, ApartInv, NEW t \in Thread, Busy(t),
           \A u \in Thread \ {t} : job'[u] = job[u],
           \/ job'[t] = Idle
           \/ /\ Busy(t)' /\ RequestOK(job[t])' /\ (Unmade(t)' => Unmade(t))
              /\ job'[t].n = job[t].n /\ job'[t].h = job[t].h
              /\ job'[t].step \notin {"put", "replace", "load"}
              /\ job'[t].at = job[t].at /\ Paths(t)' \subseteq Paths(t),
           \A x \in DOMAIN file : data'[file[x]] = data[file[x]],
           UNCHANGED <<entry, file, writes, issued, answered, met>>
    PROVE  ApartInv'
<1>1. met \subseteq met' /\ met' \subseteq issued
  BY DEF ApartInv, Dirs
<1>2. QED
  BY <1>1, OneMoves
(* The record of a request in use.                                           *)
LEMMA Request ==
    ASSUME FileInv, ApartInv, NEW t \in Thread, Busy(t)
    PROVE  /\ job[t] = [f \in Fields |-> job[t][f]] /\ job[t].op # "none"
           /\ job[t].n \in Id /\ job[t].len \in {1, 2} /\ RequestOK(job[t])
  BY DEF FileInv, JobShape, Busy, Idle, ApartInv, Requests

LEMMA FailApart ==
    ASSUME FileInv, ApartInv, NEW t \in Thread, Busy(t), Fail(t),
           \A x \in DOMAIN file : data'[file[x]] = data[file[x]],
           UNCHANGED <<entry, file, writes, issued, answered, met>>
    PROVE  ApartInv'
<1>1. job'[t] = Idle /\ \A u \in Thread \ {t} : job'[u] = job[u]
  BY JobChange DEF Fail, FileInv
<1>2. QED
  BY <1>1, NothingTaken

LEMMA GotoApart ==
    ASSUME FileInv, ApartInv, NEW t \in Thread, Busy(t), NEW step, Goto(t, step),
           \/ job[t].step = "look" /\ step = "read"
           \/ job[t].step = "again" /\ step = "try"
           \/ job[t].step \in {"open", "put", "replace"} /\ step = "undo",
           \A x \in DOMAIN file : data'[file[x]] = data[file[x]],
           UNCHANGED <<entry, file, writes, issued, answered, met>>
    PROVE  ApartInv'
<1> DEFINE j == [job[t] EXCEPT !.step = step]
<1>1. /\ job[t] = [f \in Fields |-> job[t][f]] /\ job[t].op # "none"
      /\ job[t].n \in Id /\ job[t].len \in {1, 2} /\ RequestOK(job[t])
  BY Request
<1>2. /\ j = [f \in Fields |-> j[f]] /\ j.op = job[t].op /\ j.n = job[t].n /\ j.step = step
      /\ j.len = job[t].len /\ j.title = job[t].title /\ j.k = job[t].k /\ j.rev = job[t].rev
      /\ j.h = job[t].h /\ j.at = job[t].at /\ j.to = job[t].to
  BY <1>1 DEF Fields
<1>3. job' = [job EXCEPT ![t] = j]
  BY DEF Goto
<1> HIDE DEF j
<1>4. job'[t] = j /\ \A u \in Thread \ {t} : job'[u] = job[u]
  BY <1>1, <1>2, <1>3, JobChange DEF FileInv
<1>5. RequestOK(j)
  BY <1>1, <1>2 DEF RequestOK
<1>6. RequestOK(job[t])' /\ Paths(t)' = Paths(t) /\ Busy(t)' /\ ~Unmade(t)'
  <2>1. RequestOK(job[t])'
    BY <1>4, <1>5 DEF RequestOK
  <2>2. Paths(t)' = Paths(t) /\ Busy(t)'
    BY <1>1, <1>2, <1>4 DEF Paths, Busy
  <2>3. ~Unmade(t)'
    BY <1>1, <1>2, <1>4 DEF Unmade, RequestOK
  <2>4. QED
    BY <2>1, <2>2, <2>3
<1>7. QED
  BY <1>2, <1>4, <1>6, NothingTaken

LEMMA StartApart ==
    ASSUME FileInv, ApartInv, NEW t \in Thread, NEW op \in {"create", "rename", "write"},
           NEW n \in Id, NEW title, op = "write" \/ title \in Title, NEW len \in {1, 2},
           Start(t, op, n, title, len)
    PROVE  ApartInv'
<1> USE DEF ApartInv
<1> DEFINE j == [op |-> op, n |-> n, title |-> title, len |-> len, rev |-> 0,
                 step |-> IF op = "create" THEN "try" ELSE "list",
                 left |-> << >>, k |-> 1, at |-> << >>, to |-> << >>, h |-> None]
<1>1. /\ job' = [job EXCEPT ![t] = j] /\ issued' = issued \cup {n} /\ ~Busy(t)
      /\ (op = "create") <=> (n \notin issued)
      /\ UNCHANGED <<entry, file, data, writes, answered, met>>
  BY DEF Start
<1>2. /\ j = [f \in Fields |-> j[f]] /\ j.op = op /\ j.n = n /\ j.len = len /\ j.title = title
      /\ j.step = (IF op = "create" THEN "try" ELSE "list") /\ j.k = 1 /\ j.rev = 0
      /\ j.at = << >> /\ j.to = << >> /\ j.h = None
  BY DEF Fields
<1> HIDE DEF j
<1>3. job'[t] = j /\ \A u \in Thread \ {t} : job'[u] = job[u]
  BY <1>1, <1>2, JobChange DEF FileInv
<1>4. Busy(t)' /\ Paths(t)' = {} /\ \A m : ~Holds(t, m)'
  BY <1>2, <1>3 DEF Busy, Paths, Holds
<1>5. \A u \in Thread \ {t} : /\ Busy(u)' <=> Busy(u)
                              /\ Paths(u)' = Paths(u) /\ (Unmade(u)' <=> Unmade(u))
                              /\ \A m : Holds(u, m)' <=> Holds(u, m)
  BY <1>3 DEF Busy, Paths, Unmade, Holds
<1>6. Requests'
  <2>1. RequestOK(job[t])'
    BY <1>1, <1>2, <1>3 DEF RequestOK, FileInv, Handles
  <2>2. ASSUME NEW u \in Thread \ {t}, Busy(u)' PROVE RequestOK(job[u])'
    BY <1>1, <1>3, <1>5, <2>2 DEF Requests, RequestOK
  <2>3. QED
    BY <2>1, <2>2 DEF Requests
<1>7. Dirs'
  <2>1. Unmade(t)' => n \notin issued /\ job'[t].n = n
    BY <1>1, <1>2, <1>3 DEF Unmade
  <2>2. \A u \in Thread \ {t} : Unmade(u)' => Unmade(u) /\ job'[u].n = job[u].n /\ job[u].n \in issued
    BY <1>3, <1>5 DEF Unmade, Requests, RequestOK
  <2>3. \A u \in Thread : Unmade(u)' => \A a \in DOMAIN entry' : entry'[a] # job'[u].n
    BY <1>1, <2>1, <2>2 DEF Dirs
  <2>4. \A u, v \in Thread : u # v /\ Unmade(u)' /\ Unmade(v)' => job'[u].n # job'[v].n
    BY <1>1, <2>1, <2>2 DEF Dirs
  <2>5. QED
    BY <1>1, <2>3, <2>4 DEF Dirs
<1>8. Meetings'
  <2>1. \A u \in Thread \ {t} : job'[u].n = job[u].n
    BY <1>3
  <2>2. QED
    BY <1>1, <1>4, <1>5, <2>1 DEF Meetings
<1>9. Quiets'
  <2> SUFFICES ASSUME NEW m \in Id \ met' PROVE Quiet(m)'
    BY DEF Quiets
  <2>1. Quiet(m)
    BY <1>1 DEF Quiets
  <2>2. OwnDirectory(m)'
    <3>1. \A x \in DOMAIN file : file[x] # None
      BY DEF FileInv, Placed, Handles
    <3>2. \A u \in Thread : job'[u].h = None \/ (job'[u].h = job[u].h /\ job'[u].n = job[u].n)
      BY <1>2, <1>3
    <3>3. QED
      BY <1>1, <2>1, <3>1, <3>2 DEF Quiet, OwnDirectory
  <2>3. OwnPaths(m)'
    BY <1>1, <1>3, <1>4, <1>5, <2>1 DEF Quiet, OwnPaths
  <2>4. AnsweredKept(m)'
    BY <1>1, <2>1 DEF Quiet, AnsweredKept, Whole, Present
  <2>5. ASSUME NEW u \in Thread, Holds(u, m)' PROVE OnCourse(u, m)'
    <3>1. u # t
      BY <1>4, <2>5
    <3>2. OnCourse(u, m)
      BY <1>5, <2>1, <2>5, <3>1 DEF Quiet
    <3>3. QED
      BY <1>1, <1>3, <3>1, <3>2 DEF OnCourse, Whole, Present
  <2>6. QED
    BY <2>2, <2>3, <2>4, <2>5 DEF Quiet
<1>10. QED
  BY <1>6, <1>7, <1>8, <1>9
(* One more path, and whom the request meets on it.                          *)
LEMMA Met ==
    ASSUME FileInv, ApartInv, NEW t \in Thread, Busy(t), NEW name, name # << >>, Meets(t, name)
    PROVE  /\ met \subseteq met' /\ met' \subseteq issued
           /\ \A u \in Thread \ {t} : name \in Paths(u) => {job[t].n, job[u].n} \subseteq met'
<1> DEFINE others == {job[u].n : u \in {u \in Thread \ {t} : name \in Paths(u)}}
<1>1. met' = IF others = {} THEN met ELSE met \cup others \cup {job[t].n}
  BY DEF Meets
<1>2. \A u \in Thread \ {t} : name \in Paths(u) => job[u].n \in others
  OBVIOUS
<1>3. \A u \in Thread : Paths(u) # {} => Busy(u)
  <2>1. ASSUME NEW u \in Thread, ~Busy(u) PROVE Paths(u) = {}
    <3>1. job[u] = Idle
      BY <2>1 DEF Busy, FileInv, JobShape
    <3>2. QED
      BY <3>1 DEF Paths, Idle
  <2>2. QED
    BY <2>1
<1>4. \A u \in Thread : Busy(u) => job[u].n \in issued
  BY DEF ApartInv, Requests, RequestOK
<1>5. others \subseteq issued
  BY <1>3, <1>4
<1> HIDE DEF others
<1>6. QED
  BY <1>1, <1>2, <1>4, <1>5 DEF ApartInv, Dirs

LEMMA ListApart ==
    ASSUME FileInv, ApartInv, NEW t \in Thread, List(t)
    PROVE  ApartInv'
<1> DEFINE j == [job[t] EXCEPT !.left = SetToSortSeq(DOMAIN entry, ByName), !.step = "look"]
<1>1. /\ Busy(t) /\ job[t].step = "list" /\ job' = [job EXCEPT ![t] = j]
      /\ UNCHANGED <<entry, file, data, writes, issued, answered, met>>
  BY DEF List, At
<1>2. /\ job[t] = [f \in Fields |-> job[t][f]] /\ job[t].op # "none"
      /\ job[t].n \in Id /\ job[t].len \in {1, 2} /\ RequestOK(job[t])
  BY <1>1, Request
<1>3. /\ j = [f \in Fields |-> j[f]] /\ j.op = job[t].op /\ j.n = job[t].n /\ j.step = "look"
      /\ j.len = job[t].len /\ j.title = job[t].title /\ j.k = job[t].k /\ j.rev = job[t].rev
      /\ j.h = job[t].h /\ j.at = job[t].at /\ j.to = job[t].to
  BY <1>2 DEF Fields
<1> HIDE DEF j
<1>4. job'[t] = j /\ \A u \in Thread \ {t} : job'[u] = job[u]
  BY <1>1, <1>2, <1>3, JobChange DEF FileInv
<1>5. RequestOK(job[t])'
  BY <1>1, <1>2, <1>3, <1>4 DEF RequestOK
<1>6. Paths(t)' = Paths(t) /\ Busy(t)' /\ ~Unmade(t)'
  BY <1>2, <1>3, <1>4 DEF Paths, Busy, Unmade
<1>7. QED
  BY <1>1, <1>3, <1>4, <1>5, <1>6, NothingTaken

(* The walk goes on to the next directory.                                   *)
LEMMA NextApart ==
    ASSUME FileInv, ApartInv, NEW t \in Thread, Busy(t), job[t].step \in {"look", "read"},
           job' = [job EXCEPT ![t].left = Tail(job[t].left), ![t].step = "look"],
           UNCHANGED <<entry, file, data, writes, issued, answered, met>>
    PROVE  ApartInv'
<1> DEFINE j == [job[t] EXCEPT !.left = Tail(job[t].left), !.step = "look"]
<1>1. job' = [job EXCEPT ![t] = j]
  OBVIOUS
<1>2. /\ job[t] = [f \in Fields |-> job[t][f]] /\ job[t].op # "none"
      /\ job[t].n \in Id /\ job[t].len \in {1, 2} /\ RequestOK(job[t])
  BY Request
<1>3. /\ j = [f \in Fields |-> j[f]] /\ j.op = job[t].op /\ j.n = job[t].n /\ j.step = "look"
      /\ j.len = job[t].len /\ j.title = job[t].title /\ j.k = job[t].k /\ j.rev = job[t].rev
      /\ j.h = job[t].h /\ j.at = job[t].at /\ j.to = job[t].to
  BY <1>2 DEF Fields
<1> HIDE DEF j
<1>4. job'[t] = j /\ \A u \in Thread \ {t} : job'[u] = job[u]
  BY <1>1, <1>2, <1>3, JobChange DEF FileInv
<1>5. RequestOK(job[t])'
  BY <1>1, <1>2, <1>3, <1>4 DEF RequestOK
<1>6. Paths(t)' = Paths(t) /\ Busy(t)' /\ ~Unmade(t)'
  BY <1>2, <1>3, <1>4 DEF Paths, Busy, Unmade
<1>7. QED
  BY <1>1, <1>3, <1>4, <1>5, <1>6, NothingTaken

LEMMA LookApart ==
    ASSUME FileInv, ApartInv, NEW t \in Thread, Look(t)
    PROVE  ApartInv'
<1>1. /\ Busy(t) /\ job[t].step = "look"
      /\ UNCHANGED <<entry, file, data, writes, issued, answered, met>>
  BY DEF Look, At
<1>2. CASE Fail(t)
  BY <1>1, <1>2, FailApart
<1>3. CASE Goto(t, "read")
  BY <1>1, <1>3, GotoApart
<1>4. CASE job' = [job EXCEPT ![t].left = Tail(job[t].left)]
  <2>1. job' = [job EXCEPT ![t].left = Tail(job[t].left), ![t].step = "look"]
    <3> DEFINE j == [job[t] EXCEPT !.left = Tail(job[t].left)]
               i == [job[t] EXCEPT !.left = Tail(job[t].left), !.step = "look"]
    <3>1. job[t] = [f \in Fields |-> job[t][f]]
      BY <1>1, Request
    <3>2. i = j
      BY <1>1, <3>1 DEF Fields
    <3>3. QED
      BY <1>4, <3>2
  <2>2. QED
    BY <1>1, <2>1, NextApart
<1>5. QED
  BY <1>2, <1>3, <1>4 DEF Look

(* What the request's directory holds is its node, if that has met no other. *)
LEMMA AgainApart ==
    ASSUME FileInv, ApartInv, NEW t \in Thread, Again(t),
           \A i \in DOMAIN data : data[i].n \in issued \cup {None}
    PROVE  ApartInv'
<1> DEFINE n == job[t].n
           m == Content(job[t].at).n
           j == [job[t] EXCEPT !.n = m, !.step = "try"]
<1> USE DEF ApartInv
<1>1. /\ Busy(t) /\ job[t].step = "again"
      /\ UNCHANGED <<entry, file, data, writes, issued, answered, met>>
  BY DEF Again, At
<1>2. CASE ~Readable(job[t].at)
  BY <1>1, <1>2, FailApart DEF Again
<1>3. CASE Readable(job[t].at) /\ m = n
  <2>1. job[t] = [f \in Fields |-> job[t][f]]
    BY <1>1, Request
  <2>2. [job EXCEPT ![t].n = m, ![t].step = "try"] = [job EXCEPT ![t].step = "try"]
    <3>1. j = [job[t] EXCEPT !.step = "try"]
      BY <1>3, <2>1 DEF Fields
    <3>2. QED
      BY <3>1
  <2>3. Goto(t, "try")
    BY <1>3, <2>2 DEF Again, Goto
  <2>4. QED
    BY <1>1, <2>3, GotoApart
<1>4. CASE Readable(job[t].at) /\ m # n
  <2>1. /\ job[t] = [f \in Fields |-> job[t][f]] /\ job[t].op # "none"
        /\ n \in Id /\ job[t].len \in {1, 2} /\ RequestOK(job[t])
    BY <1>1, Request
  <2>2. /\ job[t].at \in DOMAIN entry /\ <<entry[job[t].at], "json">> \in DOMAIN file
        /\ m = data[file[<<entry[job[t].at], "json">>]].n
        /\ m \in issued /\ m \in Id
    BY <1>4 DEF Readable, Content, Exists, File, Empty, FileInv, Placed, Dirs
  <2>3. Busy(t) /\ job[t].at # << >> /\ job[t].at \in Paths(t)
    BY <1>1, <2>1, NamesArePairs DEF RequestOK, Paths
  <2>4. <<entry[job[t].at], "json">>[1] = entry[job[t].at]
    OBVIOUS
  <2> HIDE DEF m
  <2>5. n \in met
    <3> SUFFICES ASSUME n \notin met PROVE FALSE
      OBVIOUS
    <3>1. Quiet(n)
      BY <2>1 DEF Quiets
    <3>2. entry[job[t].at] = n
      BY <2>3, <3>1 DEF Quiet, OnCourse, Holds
    <3>3. m \in {n, None}
      BY <2>2, <2>4, <3>1, <3>2 DEF Quiet, OwnDirectory
    <3>4. QED
      BY <1>4, <2>2, <3>3, ValueAssumption
  <2>6. m \in met
    <3> SUFFICES ASSUME m \notin met PROVE FALSE
      OBVIOUS
    <3>1. Quiet(m)
      BY <2>2 DEF Quiets
    <3>2. entry[job[t].at] = m
      BY <2>2, <2>4, <3>1 DEF Quiet, OwnDirectory
    <3>3. QED
      BY <1>4, <2>2, <2>3, <3>1, <3>2 DEF Quiet, OwnPaths
  <2>7. job' = [job EXCEPT ![t] = j]
    BY <1>4, <2>1 DEF Again, m
  <2>8. /\ j = [f \in Fields |-> j[f]] /\ j.op = job[t].op /\ j.n = m /\ j.step = "try"
        /\ j.len = job[t].len /\ j.title = job[t].title /\ j.k = job[t].k /\ j.rev = job[t].rev
        /\ j.h = job[t].h /\ j.at = job[t].at /\ j.to = job[t].to
    BY <2>1 DEF Fields
  <2> HIDE DEF j
  <2>9. job'[t] = j /\ \A u \in Thread \ {t} : job'[u] = job[u]
    BY <2>1, <2>2, <2>7, <2>8, JobChange DEF FileInv
  <2>10. job[t].op = "rename" /\ job[t].op # "create"
    BY <1>1, <2>1 DEF RequestOK
  <2>11. \A u \in Thread : /\ Busy(u)' <=> Busy(u)
                           /\ Paths(u)' = Paths(u)
                           /\ Unmade(u)' => Unmade(u) /\ u # t
    BY <1>1, <2>1, <2>8, <2>9, <2>10 DEF Busy, Paths, Unmade
  <2>12. Requests'
    <3>1. RequestOK(job[t])'
      BY <1>1, <2>1, <2>2, <2>8, <2>9, <2>10 DEF RequestOK
    <3>2. \A u \in Thread \ {t} : Busy(u)' => RequestOK(job[u])'
      BY <1>1, <2>9, <2>11 DEF Requests, RequestOK
    <3>3. QED
      BY <3>1, <3>2 DEF Requests
  <2>13. Dirs'
    BY <1>1, <2>9, <2>11 DEF Dirs
  <2>14. Meetings'
    BY <1>1, <2>6, <2>8, <2>9, <2>11 DEF Meetings
  <2>15. ASSUME NEW q \in Id \ met' PROVE Quiet(q)'
    <3>1. Quiet(q) /\ q # n /\ q # m
      BY <1>1, <2>5, <2>6 DEF Quiets
    <3>2. OwnDirectory(q)'
      <4>1. \A x \in DOMAIN file : \A u \in Thread : job'[u].h = file[x] /\ x[1] = q => u # t
        BY <2>8, <2>9, <3>1 DEF Quiet, OwnDirectory
      <4>2. QED
        BY <1>1, <2>9, <3>1, <4>1 DEF Quiet, OwnDirectory
    <3>3. OwnPaths(q)'
      <4>1. \A p \in Paths(t) : ~(p \in DOMAIN entry /\ entry[p] = q)
        BY <3>1 DEF Quiet, OwnPaths
      <4>2. QED
        BY <1>1, <2>9, <2>11, <3>1, <4>1 DEF Quiet, OwnPaths
    <3>4. AnsweredKept(q)'
      BY <1>1, <3>1 DEF Quiet, AnsweredKept, Whole, Present
    <3>5. ASSUME NEW u \in Thread, Holds(u, q)' PROVE OnCourse(u, q)'
      <4>1. u # t
        BY <2>8, <2>9, <3>1, <3>5 DEF Holds
      <4>2. Holds(u, q) /\ job'[u] = job[u]
        BY <2>9, <2>11, <3>5, <4>1 DEF Holds
      <4>3. OnCourse(u, q)
        BY <3>1, <4>2 DEF Quiet
      <4>4. QED
        BY <1>1, <4>2, <4>3 DEF OnCourse, Whole, Present
    <3>6. QED
      BY <3>2, <3>3, <3>4, <3>5 DEF Quiet
  <2>16. QED
    BY <2>12, <2>13, <2>14, <2>15 DEF Quiets
<1>5. QED
  BY <1>2, <1>3, <1>4

(* The directory with the node's text is the node's, if no request met.      *)
LEMMA ReadApart ==
    ASSUME FileInv, ApartInv, NEW t \in Thread, Read(t)
    PROVE  ApartInv'
<1> DEFINE name == Head(job[t].left)
<1>1. /\ Busy(t) /\ job[t].step = "read"
      /\ UNCHANGED <<entry, file, data, writes, issued, answered>>
  BY DEF Read, At
<1>2. /\ job[t] = [f \in Fields |-> job[t][f]] /\ job[t].op # "none"
      /\ job[t].n \in Id /\ job[t].len \in {1, 2} /\ RequestOK(job[t])
  BY <1>1, Request
<1>3. CASE /\ Content(name).n = job[t].n /\ Meets(t, name)
           /\ job' = [job EXCEPT ![t].left = << >>, ![t].at = name,
                                 ![t].step = IF job[t].op = "rename" THEN "again" ELSE "open"]
  <2> DEFINE j == [job[t] EXCEPT !.left = << >>, !.at = name,
                                 !.step = IF job[t].op = "rename" THEN "again" ELSE "open"]
  <2>1. job' = [job EXCEPT ![t] = j]
    BY <1>2, <1>3
  <2>2. /\ j = [f \in Fields |-> j[f]] /\ j.op = job[t].op /\ j.n = job[t].n
        /\ j.step = (IF job[t].op = "rename" THEN "again" ELSE "open")
        /\ j.len = job[t].len /\ j.title = job[t].title /\ j.k = job[t].k /\ j.rev = job[t].rev
        /\ j.h = job[t].h /\ j.at = name /\ j.to = job[t].to
    BY <1>2 DEF Fields
  <2> HIDE DEF j
  <2>3. job'[t] = j /\ \A u \in Thread \ {t} : job'[u] = job[u]
    BY <1>2, <2>1, <2>2, JobChange DEF FileInv
  <2>4. /\ name \in DOMAIN entry /\ <<entry[name], "json">> \in DOMAIN file
        /\ data[file[<<entry[name], "json">>]].n = job[t].n
    <3>1. job[t].n # None
      BY <1>2, ValueAssumption
    <3>2. Exists(name, "json")
      BY <1>3, <3>1 DEF Content, Empty
    <3>3. QED
      BY <1>3, <3>2 DEF Content, Exists, File
  <2> HIDE DEF name
  <2>5. name \in Names /\ name # << >>
    BY <2>4, NamesArePairs DEF ApartInv, Dirs
  <2>6. /\ met \subseteq met' /\ met' \subseteq issued
        /\ \A u \in Thread \ {t} : name \in Paths(u) => {job[t].n, job[u].n} \subseteq met'
    BY <1>1, <1>3, <2>5, Met
  <2>7. \A n \in Id \ met' : entry[name] = n <=> job[t].n = n
    <3> SUFFICES ASSUME NEW n \in Id \ met' PROVE entry[name] = n <=> job[t].n = n
      OBVIOUS
    <3>1. OwnDirectory(n)
      BY <2>6 DEF ApartInv, Quiets, Quiet
    <3> DEFINE x == <<entry[name], "json">>
    <3>2. x \in DOMAIN file /\ x[1] = entry[name] /\ data[file[x]].n = job[t].n
      BY <2>4
    <3>3. data[file[x]].n = n => x[1] = n
      BY <3>1, <3>2 DEF OwnDirectory
    <3>4. x[1] = n => data[file[x]].n \in {n, None}
      BY <3>1, <3>2 DEF OwnDirectory
    <3>5. job[t].n # None
      BY <1>2, ValueAssumption
    <3>6. QED
      BY <3>2, <3>3, <3>4, <3>5
  <2>8. RequestOK(job[t])'
    BY <1>1, <1>2, <2>2, <2>3, <2>5 DEF RequestOK
  <2>9. Busy(t)' /\ ~Unmade(t)' /\ Paths(t)' \subseteq Paths(t) \cup {name}
    BY <1>2, <2>2, <2>3 DEF Busy, Unmade, Paths
  <2>10. QED
    BY <1>1, <2>2, <2>3, <2>4, <2>6, <2>7, <2>8, <2>9, OneMoves
<1>4. CASE UNCHANGED met /\ Fail(t)
  BY <1>1, <1>4, FailApart
<1>5. CASE UNCHANGED met /\ job' = [job EXCEPT ![t].left = Tail(@), ![t].step = "look"]
  BY <1>1, <1>5, NextApart
<1>6. QED
  BY <1>3, <1>4, <1>5 DEF Read

LEMMA TryApart ==
    ASSUME FileInv, ApartInv, NEW t \in Thread, Try(t)
    PROVE  ApartInv'
<1> DEFINE name == <<job[t].title, job[t].k>>
<1>1. /\ Busy(t) /\ job[t].step = "try"
      /\ UNCHANGED <<entry, file, data, writes, issued, answered>>
  BY DEF Try, At
<1>2. /\ job[t] = [f \in Fields |-> job[t][f]] /\ job[t].op # "none"
      /\ job[t].n \in Id /\ job[t].len \in {1, 2} /\ RequestOK(job[t])
  BY <1>1, Request
<1>3. CASE UNCHANGED met /\ job' = [job EXCEPT ![t].k = @ + 1]
  <2> DEFINE j == [job[t] EXCEPT !.k = @ + 1]
  <2>1. job' = [job EXCEPT ![t] = j]
    BY <1>3
  <2>2. /\ j = [f \in Fields |-> j[f]] /\ j.op = job[t].op /\ j.n = job[t].n
        /\ j.step = job[t].step
        /\ j.len = job[t].len /\ j.title = job[t].title /\ j.k = job[t].k + 1
        /\ j.rev = job[t].rev /\ j.h = job[t].h /\ j.at = job[t].at /\ j.to = job[t].to
    BY <1>2 DEF Fields
  <2> HIDE DEF j
  <2>3. job'[t] = j /\ \A u \in Thread \ {t} : job'[u] = job[u]
    BY <1>2, <2>1, <2>2, JobChange DEF FileInv
  <2>4. RequestOK(job[t])'
    BY <1>1, <1>2, <2>2, <2>3 DEF RequestOK
  <2>5. Busy(t)' /\ (Unmade(t)' => Unmade(t)) /\ Paths(t)' = Paths(t)
    BY <1>1, <1>2, <2>2, <2>3 DEF Busy, Unmade, Paths
  <2>6. QED
    BY <1>1, <1>3, <2>2, <2>3, <2>4, <2>5, NothingTaken
<1>4. CASE /\ name \in DOMAIN entry => name = job[t].at
           /\ job' = [job EXCEPT ![t].to = name,
                          ![t].step = IF job[t].op = "create" THEN "mkdir" ELSE "rename"]
           /\ Meets(t, name)
  <2> DEFINE j == [job[t] EXCEPT !.to = name,
                          !.step = IF job[t].op = "create" THEN "mkdir" ELSE "rename"]
  <2>1. job' = [job EXCEPT ![t] = j]
    BY <1>2, <1>4
  <2>2. /\ j = [f \in Fields |-> j[f]] /\ j.op = job[t].op /\ j.n = job[t].n
        /\ j.step = (IF job[t].op = "create" THEN "mkdir" ELSE "rename")
        /\ j.len = job[t].len /\ j.title = job[t].title /\ j.k = job[t].k
        /\ j.rev = job[t].rev /\ j.h = job[t].h /\ j.at = job[t].at /\ j.to = name
    BY <1>2 DEF Fields
  <2> HIDE DEF j
  <2>3. job'[t] = j /\ \A u \in Thread \ {t} : job'[u] = job[u]
    BY <1>2, <2>1, <2>2, JobChange DEF FileInv
  <2>4. name \in Names
    BY <1>1, <1>2 DEF RequestOK, Names
  <2> HIDE DEF name
  <2>5. name # << >>
    BY <2>4, NamesArePairs
  <2>6. /\ met \subseteq met' /\ met' \subseteq issued
        /\ \A u \in Thread \ {t} : name \in Paths(u) => {job[t].n, job[u].n} \subseteq met'
    BY <1>1, <1>4, <2>5, Met
  <2>7. RequestOK(job[t])'
    BY <1>1, <1>2, <2>2, <2>3, <2>4 DEF RequestOK
  <2>8. Busy(t)' /\ (Unmade(t)' => Unmade(t)) /\ Paths(t)' \subseteq Paths(t) \cup {name}
    BY <1>1, <1>2, <2>2, <2>3 DEF Busy, Unmade, Paths, RequestOK
  <2>9. name \in DOMAIN entry => name \in Paths(t)
    BY <1>4, <2>5 DEF Paths
  <2>10. QED
    BY <1>1, <2>2, <2>3, <2>6, <2>7, <2>8, <2>9, OneMoves
<1>5. QED
  BY <1>3, <1>4 DEF Try
-----------------------------------------------------------------------------
(* The request of a node that has just got its name.                         *)
LEMMA ArrivedRequest ==
    ASSUME FileInv, ApartInv, NEW t \in Thread, Busy(t), job[t].step \in {"mkdir", "rename"},
           Arrived(t), UNCHANGED <<issued, writes>>
    PROVE  /\ RequestOK(job[t])' /\ Busy(t)' /\ ~Unmade(t)' /\ Paths(t)' \subseteq Paths(t)
           /\ job'[t].n = job[t].n /\ job'[t].h = job[t].h /\ job'[t].step = "open"
           /\ job'[t].at = job[t].to /\ job[t].to \in Names /\ job[t].to \in Paths(t)
           /\ \A u \in Thread \ {t} : job'[u] = job[u]
<1> DEFINE j == [job[t] EXCEPT !.at = job[t].to, !.to = << >>, !.step = "open",
                               !.title = 0, !.k = 1]
<1>1. /\ job[t] = [f \in Fields |-> job[t][f]] /\ job[t].op # "none"
      /\ job[t].n \in Id /\ job[t].len \in {1, 2} /\ RequestOK(job[t])
  BY Request
<1>2. job' = [job EXCEPT ![t] = j]
  BY <1>1 DEF Arrived
<1>3. /\ j = [f \in Fields |-> j[f]] /\ j.op = job[t].op /\ j.n = job[t].n /\ j.step = "open"
      /\ j.len = job[t].len /\ j.title = 0 /\ j.k = 1 /\ j.rev = job[t].rev
      /\ j.h = job[t].h /\ j.at = job[t].to /\ j.to = << >>
  BY <1>1 DEF Fields
<1> HIDE DEF j
<1>4. job'[t] = j /\ \A u \in Thread \ {t} : job'[u] = job[u]
  BY <1>1, <1>2, <1>3, JobChange DEF FileInv
<1>5. job[t].to \in Names /\ job[t].to \in Paths(t)
  BY <1>1, NamesArePairs DEF RequestOK, Paths
<1>6. RequestOK(job[t])'
  BY <1>1, <1>3, <1>4, <1>5 DEF RequestOK
<1>7. Busy(t)' /\ ~Unmade(t)' /\ Paths(t)' \subseteq Paths(t)
  BY <1>1, <1>3, <1>4, <1>5 DEF Busy, Unmade, Paths
<1>8. QED
  BY <1>3, <1>4, <1>5, <1>6, <1>7

(* The node takes its name, which no other request of a quiet node holds:    *)
(* a directory is made or moves, and whoever else had a directory keeps it.  *)
LEMMA ArrivedApart ==
    ASSUME FileInv, ApartInv, NEW t \in Thread, Busy(t), job[t].step \in {"mkdir", "rename"},
           Arrived(t), NEW d,
           entry' = Plus(Minus(entry, {job[t].at}), job[t].to, d),
           d \in issued,
           \/ d = job[t].n /\ Unmade(t) /\ job[t].at \notin DOMAIN entry
           \/ job[t].at \in DOMAIN entry /\ d = entry[job[t].at] /\ job[t].at # << >>,
           job[t].to \in DOMAIN entry => Vacant(entry[job[t].to]),
           UNCHANGED <<file, data, writes, issued, answered, met>>
    PROVE  ApartInv'
<1> PICK from : from = job[t].at
  OBVIOUS
<1> PICK to : to = job[t].to
  OBVIOUS
<1> PICK f : f = entry'
  OBVIOUS
<1> USE DEF ApartInv
<1>1. /\ RequestOK(job[t])' /\ Busy(t)' /\ ~Unmade(t)' /\ Paths(t)' \subseteq Paths(t)
      /\ job'[t].n = job[t].n /\ job'[t].h = job[t].h /\ job'[t].step = "open"
      /\ job'[t].at = to /\ to \in Names /\ to \in Paths(t)
      /\ \A u \in Thread \ {t} : job'[u] = job[u]
  BY ArrivedRequest
<1>2. \A u \in Thread \ {t} : /\ Busy(u)' <=> Busy(u)
                              /\ Paths(u)' = Paths(u) /\ (Unmade(u)' <=> Unmade(u))
                              /\ \A n : Holds(u, n)' <=> Holds(u, n)
  BY <1>1 DEF Busy, Paths, Unmade, Holds
<1>3. to # << >> /\ RequestOK(job[t]) /\ job[t].n \in issued
  BY <1>1, NamesArePairs, Request DEF RequestOK
<1>4. /\ DOMAIN f = (DOMAIN entry \ {from}) \cup {to} /\ f[to] = d
      /\ \A a \in DOMAIN entry \ {from, to} : f[a] = entry[a]
      /\ \A a \in DOMAIN f : f[a] = d \/ \E b \in DOMAIN entry : f[a] = entry[b]
      /\ \A a, b \in DOMAIN f : f[a] = f[b] => a = b
  <2>1. \A a, b \in DOMAIN entry : entry[a] = entry[b] => a = b
    BY DEF Dirs
  <2>2. \A a \in DOMAIN entry : a # from => entry[a] # d
    BY DEF Dirs
  <2>3. /\ DOMAIN f = (DOMAIN entry \ {from}) \cup {to} /\ f[to] = d
        /\ \A a \in DOMAIN entry \ {from, to} : f[a] = entry[a]
    BY DEF Plus, Minus
  <2> HIDE DEF ApartInv
  <2>4. \A a \in DOMAIN f : \/ a = to
                            \/ a \in DOMAIN entry /\ a # from /\ f[a] = entry[a]
    BY <2>3
  <2>5. \A a \in DOMAIN f : f[a] = d \/ \E b \in DOMAIN entry : f[a] = entry[b]
    BY <2>3, <2>4
  <2>6. ASSUME NEW a \in DOMAIN f, NEW b \in DOMAIN f, f[a] = f[b] PROVE a = b
    <3>1. CASE a = to
      BY <2>2, <2>3, <2>4, <2>6, <3>1
    <3>2. CASE b = to
      BY <2>2, <2>3, <2>4, <2>6, <3>2
    <3>3. CASE a # to /\ b # to
      BY <2>1, <2>4, <2>6, <3>3
    <3>4. QED
      BY <3>1, <3>2, <3>3
  <2>7. QED
    BY <2>3, <2>5, <2>6
<1>6. Requests'
  <2>1. ASSUME NEW u \in Thread \ {t}, Busy(u)' PROVE RequestOK(job[u])'
    BY <1>1, <1>2, <2>1 DEF Requests, RequestOK
  <2>2. QED
    BY <1>1, <2>1 DEF Requests
<1>7. Dirs'
  <2>1. ASSUME NEW a \in DOMAIN f PROVE a \in Names /\ f[a] \in issued
    <3>1. \A b \in DOMAIN entry : b \in Names /\ entry[b] \in issued
      BY DEF Dirs
    <3>2. a \in Names
      BY <1>1, <1>4, <3>1
    <3>3. f[a] = d \/ \E b \in DOMAIN entry : f[a] = entry[b]
      BY <1>4
    <3>4. QED
      BY <3>1, <3>2, <3>3
  <2>2. \A a, b \in DOMAIN f : f[a] = f[b] => a = b
    BY <1>4
  <2>3. ASSUME NEW x \in DOMAIN file PROVE \E a \in DOMAIN f : f[a] = x[1]
    <3>1. PICK a \in DOMAIN entry : entry[a] = x[1]
      BY DEF Dirs
    <3>2. a # to \/ a = from
      <4>1. x = <<x[1], x[2]>> /\ x[2] \in {"json", "tmp"}
        BY DEF Dirs
      <4>2. ~Vacant(x[1])
        BY <4>1 DEF Vacant
      <4>3. QED
        BY <3>1, <4>2
    <3>3. CASE a = from
      <4>1. d = entry[from]
        BY <3>1, <3>3
      <4>2. to \in DOMAIN f /\ f[to] = d
        BY <1>4
      <4>3. QED
        BY <3>1, <3>3, <4>1, <4>2
    <3>4. CASE a # from
      <4>1. a \in DOMAIN f /\ f[a] = entry[a]
        BY <1>4, <3>1, <3>2, <3>4
      <4>2. QED
        BY <3>1, <4>1
    <3>5. QED
      BY <3>3, <3>4
  <2>4. \A u \in Thread : Unmade(u)' => u # t /\ Unmade(u) /\ job'[u].n = job[u].n
    BY <1>1, <1>2
  <2>5. ASSUME NEW u \in Thread, Unmade(u)', NEW a \in DOMAIN f PROVE f[a] # job'[u].n
    <3>1. u # t /\ Unmade(u) /\ job'[u].n = job[u].n
      BY <2>4, <2>5
    <3>2. d # job[u].n
      BY <3>1 DEF Dirs
    <3>3. \A b \in DOMAIN entry : entry[b] # job[u].n
      BY <3>1 DEF Dirs
    <3>4. f[a] = d \/ \E b \in DOMAIN entry : f[a] = entry[b]
      BY <1>4
    <3>5. QED
      BY <3>1, <3>2, <3>3, <3>4
  <2>6. QED
    <3>1. \A x \in DOMAIN file : x = <<x[1], x[2]>> /\ x[2] \in {"json", "tmp"}
      BY DEF Dirs
    <3>2. \A u, v \in Thread : u # v /\ Unmade(u)' /\ Unmade(v)' => job'[u].n # job'[v].n
      BY <2>4 DEF Dirs
    <3>3. /\ issued \subseteq Id /\ met \subseteq issued
          /\ answered \in [Id -> Nat] /\ \A n \in Id : answered[n] <= writes
      BY DEF Dirs
    <3>4. QED
      BY <2>1, <2>2, <2>3, <2>5, <3>1, <3>2, <3>3 DEF Dirs
<1>8. Meetings'
  <2>1. \A u \in Thread : Paths(u)' \subseteq Paths(u) /\ job'[u].n = job[u].n
    BY <1>1, <1>2
  <2>2. QED
    BY <2>1 DEF Meetings
<1>9. Quiets'
  <2> SUFFICES ASSUME NEW n \in Id \ met' PROVE Quiet(n)'
    BY DEF Quiets
  <2>1. Quiet(n)
    BY DEF Quiets
  <2>2. OwnDirectory(n)'
    BY <1>1, <2>1 DEF Quiet, OwnDirectory
  <2>3. d = n => job[t].n = n
    <3>1. from # << >> => from \in Paths(t)
      BY DEF Paths
    <3>2. QED
      BY <2>1, <3>1 DEF Quiet, OwnPaths
  <2>4. Holds(t, n)' => d = n
    <3>1. Holds(t, n)' => job[t].n = n
      BY <1>1 DEF Holds
    <3>2. from \in DOMAIN entry /\ from # << >> /\ job[t].n = n => entry[from] = n
      BY <2>1 DEF Quiet, OnCourse, Holds
    <3>3. QED
      BY <3>1, <3>2
  <2>5. OwnPaths(n)'
    <3> SUFFICES ASSUME NEW u \in Thread, NEW p \in Paths(u)', p \in DOMAIN entry', entry'[p] = n
                 PROVE  job[u].n = n
      BY <1>1 DEF OwnPaths
    <3>1. p \in Paths(u)
      BY <1>1, <1>2
    <3>2. CASE p = to
      <4>1. u # t => job[t].n \in met
        BY <1>1, <3>1, <3>2 DEF Meetings
      <4>2. QED
        BY <1>4, <2>3, <3>2, <4>1
    <3>3. CASE p # to
      BY <1>4, <2>1, <3>1, <3>3 DEF Quiet, OwnPaths
    <3>4. QED
      BY <3>2, <3>3
  <2>6. AnsweredKept(n)'
    BY <2>1 DEF Quiet, AnsweredKept, Whole, Present
  <2>7. ASSUME NEW u \in Thread \ {t}, Holds(u, n)' PROVE OnCourse(u, n)'
    <3>1. Holds(u, n) /\ OnCourse(u, n)
      BY <1>2, <2>1, <2>7 DEF Quiet
    <3>2. job[u].at \in Paths(u) /\ job[u].n = n
      BY <3>1 DEF Paths, Holds
    <3>3. job[u].at # to
      BY <1>1, <3>2 DEF Meetings
    <3>4. job[u].at # from
      <4>1. from # << >> => from \in Paths(t)
        BY DEF Paths
      <4>2. QED
        BY <3>2, <4>1, NamesArePairs DEF Meetings, Paths
    <3>5. job[u].at \in DOMAIN f /\ f[job[u].at] = n
      BY <1>4, <3>1, <3>3, <3>4 DEF OnCourse
    <3>6. QED
      BY <1>1, <3>1, <3>5 DEF OnCourse, Whole, Present
  <2>8. ASSUME Holds(t, n)' PROVE OnCourse(t, n)'
    BY <1>1, <1>4, <2>4, <2>8 DEF OnCourse
  <2>9. QED
    BY <2>2, <2>5, <2>6, <2>7, <2>8 DEF Quiet
<1>10. QED
  BY <1>6, <1>7, <1>8, <1>9

LEMMA MkDirApart ==
    ASSUME FileInv, ApartInv, NEW t \in Thread, MkDir(t)
    PROVE  ApartInv'
<1>1. /\ Busy(t) /\ job[t].step = "mkdir"
      /\ UNCHANGED <<file, data, writes, issued, answered, met>>
  BY DEF MkDir, At
<1>2. CASE Fail(t) /\ UNCHANGED entry
  BY <1>1, <1>2, FailApart
<1>3. CASE /\ job[t].to \notin DOMAIN entry
           /\ Arrived(t) /\ entry' = Plus(entry, job[t].to, job[t].n)
  <2>1. Unmade(t) /\ job[t].at = << >> /\ job[t].n \in issued
    BY <1>1, Request DEF Unmade, RequestOK
  <2>2. job[t].at \notin DOMAIN entry
    BY <2>1, NamesArePairs DEF ApartInv, Dirs
  <2>3. Plus(Minus(entry, {job[t].at}), job[t].to, job[t].n) = Plus(entry, job[t].to, job[t].n)
    BY <2>1, <2>2 DEF Plus, Minus
  <2>4. QED
    BY <1>1, <1>3, <2>1, <2>2, <2>3, ArrivedApart
<1>4. QED
  BY <1>2, <1>3 DEF MkDir

LEMMA RenameApart ==
    ASSUME FileInv, ApartInv, NEW t \in Thread, Rename(t)
    PROVE  ApartInv'
<1> DEFINE from == job[t].at
           to == job[t].to
<1>1. /\ Busy(t) /\ job[t].step = "rename"
      /\ UNCHANGED <<file, data, writes, issued, answered, met>>
  BY DEF Rename, At
<1>2. CASE Fail(t) /\ UNCHANGED entry
  BY <1>1, <1>2, FailApart
<1>3. CASE to = from /\ Arrived(t) /\ UNCHANGED entry
  <2>1. /\ RequestOK(job[t])' /\ Busy(t)' /\ ~Unmade(t)' /\ Paths(t)' \subseteq Paths(t)
        /\ job'[t].n = job[t].n /\ job'[t].h = job[t].h /\ job'[t].step = "open"
        /\ job'[t].at = to /\ \A u \in Thread \ {t} : job'[u] = job[u]
    BY <1>1, <1>3, ArrivedRequest
  <2>2. QED
    BY <1>1, <1>3, <2>1, NothingTaken
<1>4. CASE /\ from \in DOMAIN entry /\ to # from
           /\ to \in DOMAIN entry => Vacant(entry[to])
           /\ Arrived(t) /\ entry' = Plus(Minus(entry, {from}), to, entry[from])
  <2>1. from # << >>
    BY <1>4, NamesArePairs DEF ApartInv, Dirs
  <2>2. entry[from] \in issued
    BY <1>4 DEF ApartInv, Dirs
  <2>3. QED
    BY <1>1, <1>4, <2>1, <2>2, ArrivedApart
<1>5. QED
  BY <1>2, <1>3, <1>4 DEF Rename
-----------------------------------------------------------------------------
(* What the steps of write_node_json share: no name of a directory changes.  *)
LEMMA SameNames ==
    ASSUME FileInv, ApartInv, NEW t \in Thread,
           \A u \in Thread \ {t} : job'[u] = job[u],
           \/ job'[t] = Idle
           \/ /\ Busy(t)' /\ RequestOK(job[t])' /\ ~Unmade(t)'
              /\ job'[t].n = job[t].n /\ Paths(t)' = Paths(t),
           UNCHANGED <<entry, issued, met>>, writes' \in Nat, writes <= writes',
           \A x \in DOMAIN file' \ DOMAIN file :
              /\ x = <<x[1], x[2]>> /\ x[2] \in {"json", "tmp"}
              /\ \E a \in DOMAIN entry : entry[a] = x[1],
           answered' \in [Id -> Nat], \A n \in Id : answered'[n] <= writes'
    PROVE  /\ Requests' /\ Dirs' /\ Meetings'
           /\ \A n \in Id \ met' : OwnPaths(n)'
           /\ \A u \in Thread \ {t} : \A n : Holds(u, n)' <=> Holds(u, n)
<1> USE DEF ApartInv
<1>1. \A u \in Thread \ {t} : /\ Busy(u)' <=> Busy(u)
                              /\ Paths(u)' = Paths(u) /\ (Unmade(u)' <=> Unmade(u))
                              /\ \A n : Holds(u, n)' <=> Holds(u, n)
  BY DEF Busy, Paths, Unmade, Holds
<1>2. job'[t] = Idle => ~Busy(t)' /\ Paths(t)' = {} /\ ~Unmade(t)'
  BY DEF Idle, Busy, Paths, Unmade
<1>3. Requests'
  <2>1. ASSUME NEW u \in Thread \ {t}, Busy(u)' PROVE RequestOK(job[u])'
    <3>1. RequestOK(job[u])
      BY <1>1, <2>1 DEF Requests
    <3>2. writes \in Nat
      BY DEF FileInv, Handles
    <3>3. QED
      BY <3>1, <3>2 DEF RequestOK
  <2>2. QED
    BY <1>2, <2>1 DEF Requests
<1>4. Dirs'
  <2>1. \A u \in Thread : Unmade(u)' => Unmade(u) /\ job'[u].n = job[u].n
    BY <1>1, <1>2
  <2>2. \A x \in DOMAIN file' : /\ x = <<x[1], x[2]>> /\ x[2] \in {"json", "tmp"}
                                /\ \E a \in DOMAIN entry : entry[a] = x[1]
    BY DEF Dirs
  <2>3. QED
    BY <2>1, <2>2 DEF Dirs
<1>5. \A u \in Thread : Paths(u)' = {} \/ (Paths(u)' = Paths(u) /\ job'[u].n = job[u].n)
  BY <1>1, <1>2
<1>6. Meetings'
  BY <1>5 DEF Meetings
<1>7. ASSUME NEW n \in Id \ met' PROVE OwnPaths(n)'
  <2>1. OwnPaths(n)
    BY DEF Quiets, Quiet
  <2>2. QED
    BY <1>5, <2>1 DEF OwnPaths
<1>8. QED
  BY <1>1, <1>3, <1>4, <1>6, <1>7

(* A quiet node's new temporary file is its own.                             *)
LEMMA OpenApart ==
    ASSUME FileInv, ApartInv, NEW t \in Thread, Open(t)
    PROVE  ApartInv'
<1> USE DEF ApartInv
<1>1. /\ Busy(t) /\ job[t].step = "open" /\ UNCHANGED <<entry, issued, answered, met>>
  BY DEF Open, OpenAs, At
<1>2. CASE Undo(t) /\ UNCHANGED <<file, data, shared, writes>>
  BY <1>1, <1>2, GotoApart DEF Undo
<1>3. ASSUME NEW k, NEW x, NEW i,
             job[t].at \in DOMAIN entry, k = entry[job[t].at], x = <<k, "tmp">>,
             i = IF x \in DOMAIN file THEN file[x] ELSE writes + 1,
             file' = Plus(file, x, i),
             job' = [job EXCEPT ![t].h = i, ![t].rev = writes + 1, ![t].step = "put"],
             writes' = writes + 1, Store(Plus(data, i, Empty))
      PROVE  ApartInv'
  <2> DEFINE j == [job[t] EXCEPT !.h = i, !.rev = writes + 1, !.step = "put"]
  <2>1. /\ job[t] = [f \in Fields |-> job[t][f]] /\ job[t].op # "none"
        /\ job[t].n \in Id /\ job[t].len \in {1, 2} /\ RequestOK(job[t])
    BY <1>1, Request
  <2>2. job' = [job EXCEPT ![t] = j]
    BY <1>3
  <2>3. /\ j = [f \in Fields |-> j[f]] /\ j.op = job[t].op /\ j.n = job[t].n
        /\ j.len = job[t].len /\ j.title = job[t].title /\ j.k = job[t].k /\ j.rev = writes + 1
        /\ j.h = i /\ j.step = "put" /\ j.at = job[t].at /\ j.to = job[t].to
    BY <2>1 DEF Fields
  <2> HIDE DEF j
  <2>4. job'[t] = j /\ \A u \in Thread \ {t} : job'[u] = job[u]
    BY <2>1, <2>2, <2>3, JobChange DEF FileInv
  <2>5. writes \in Nat /\ None \notin DOMAIN data /\ writes + 1 \notin DOMAIN data /\ i # None
    BY <1>3, ValueAssumption DEF FileInv, Handles, Placed
  <2>6. /\ DOMAIN file' = DOMAIN file \cup {x} /\ file'[x] = i
        /\ \A y \in DOMAIN file \ {x} : file'[y] = file[y] /\ file[y] # i
    BY <1>3, <2>5 DEF Plus, FileInv, Placed
  <2>7. \A y \in DOMAIN file' : data'[file'[y]] = IF y = x THEN Empty ELSE data[file[y]]
    <3> DEFINE d == Plus(data, i, Empty)
    <3>1. /\ DOMAIN d = DOMAIN data \cup {i} /\ d[i] = Empty
          /\ \A m \in DOMAIN data \ {i} : d[m] = data[m]
      BY DEF Plus
    <3>2. Store(d)
      BY <1>3
    <3> HIDE DEF d
    <3>3. /\ \A m \in DOMAIN data' : m \in DOMAIN d /\ data'[m] = d[m]
          /\ \A y \in DOMAIN file' : file'[y] \in DOMAIN d => file'[y] \in DOMAIN data'
      BY <3>2, Kept
    <3>4. \A y \in DOMAIN file : file[y] \in DOMAIN data
      BY DEF FileInv, Placed
    <3>5. QED
      BY <2>6, <3>1, <3>3, <3>4
  <2>8. RequestOK(job[t])'
    <3>1. /\ job[t].op \in {"create", "rename", "write"} /\ job[t].n \in issued
          /\ job[t].k \in Nat /\ job[t].at \in Names /\ job[t].to = << >>
      BY <1>1, <2>1 DEF RequestOK
    <3>2. j.rev \in Nat /\ j.rev <= writes'
      BY <1>3, <2>3, <2>5
    <3>3. QED
      BY <1>1, <2>3, <2>4, <3>1, <3>2 DEF RequestOK
  <2>9. Busy(t)' /\ ~Unmade(t)' /\ Paths(t)' = Paths(t)
    BY <2>1, <2>3, <2>4 DEF Busy, Unmade, Paths
  <2>10. writes' \in Nat /\ writes <= writes'
    BY <1>3, <2>5
  <2>11. x[1] = k /\ x[2] = "tmp"
    BY <1>3
  <2>12. \A y \in DOMAIN file' \ DOMAIN file :
            /\ y = <<y[1], y[2]>> /\ y[2] \in {"json", "tmp"}
            /\ \E a \in DOMAIN entry : entry[a] = y[1]
    BY <1>3, <2>6, <2>11
  <2>13. answered' \in [Id -> Nat] /\ \A n \in Id : answered'[n] <= writes'
    BY <1>1, <1>3, <2>5 DEF Dirs
  <2>14. /\ Requests' /\ Dirs' /\ Meetings'
         /\ \A n \in Id \ met' : OwnPaths(n)'
         /\ \A u \in Thread \ {t} : \A n : Holds(u, n)' <=> Holds(u, n)
    BY <1>1, <2>3, <2>4, <2>8, <2>9, <2>10, <2>13, <2>12, SameNames
  <2>15. Quiets'
    <3> SUFFICES ASSUME NEW n \in Id \ met' PROVE Quiet(n)'
      BY DEF Quiets
    <3>1. Quiet(n) /\ n \in Id \ met
      BY <1>1 DEF Quiets
    <3>2. job[t].at # << >> /\ (k = n <=> job[t].n = n)
      <4>1. job[t].at # << >>
        BY <1>1, <2>1, NamesArePairs DEF RequestOK
      <4>2. QED
        BY <1>1, <1>3, <3>1, <4>1, HeldDirectory
    <3>3. job[t].n = n => \A u \in Thread \ {t} : ~Holds(u, n)
      BY <1>1, <3>1, <3>2, Sole DEF Holds
    <3>4. OwnDirectory(n)'
      <4> SUFFICES ASSUME NEW y \in DOMAIN file'
                   PROVE  /\ data'[file'[y]].n = n => y[1] = n
                          /\ y[1] = n => /\ data'[file'[y]].n \in {n, None}
                                         /\ \A u \in Thread : job'[u].h = file'[y] => job'[u].n = n
        BY DEF OwnDirectory
      <4>1. CASE y = x
        <5>1. data'[file'[y]].n = None /\ file'[y] = i
          BY <2>6, <2>7, <4>1 DEF Empty
        <5>2. k = n => job'[t].n = n
          BY <2>3, <2>4, <3>2
        <5>3. ASSUME NEW u \in Thread \ {t}, job[u].h = i, k = n PROVE job[u].n = n
          <6>1. job[u].h \in DOMAIN data
            BY <2>5, <5>3 DEF FileInv, Handles
          <6>2. x \in DOMAIN file /\ i = file[x]
            BY <1>3, <2>5, <5>3, <6>1
          <6>3. QED
            BY <2>11, <3>1, <5>3, <6>2 DEF Quiet, OwnDirectory
        <5>4. QED
          BY <2>4, <2>11, <4>1, <5>1, <5>2, <5>3, ValueAssumption
      <4>2. CASE y # x
        <5>1. y \in DOMAIN file /\ file'[y] = file[y] /\ file[y] # i /\ data'[file'[y]] = data[file[y]]
          BY <2>6, <2>7, <4>2
        <5>2. QED
          BY <2>3, <2>4, <3>1, <5>1 DEF Quiet, OwnDirectory
      <4>3. QED
        BY <4>1, <4>2
    <3>5. <<n, "json">> # x
      BY <1>3
    <3>6. \A rev : Whole(n, rev)' <=> Whole(n, rev)
      BY <2>6, <2>7, <3>5 DEF Whole, Present
    <3>7. AnsweredKept(n)'
      <4>1. Present(n)' <=> Present(n)
        BY <2>6, <2>7, <3>5 DEF Present
      <4>2. QED
        BY <1>1, <3>1, <3>6, <4>1 DEF Quiet, AnsweredKept
    <3>8. ASSUME Holds(t, n)' PROVE OnCourse(t, n)'
      <4>1. job[t].n = n /\ k = n
        BY <2>3, <2>4, <3>2, <3>8 DEF Holds
      <4>2. j.rev >= answered'[n]
        <5>1. answered[n] <= writes /\ answered[n] \in Nat
          BY DEF Dirs
        <5>2. QED
          BY <1>1, <2>3, <2>5, <5>1
      <4>3. x \in DOMAIN file' /\ data'[i] = Empty /\ file'[x] = i
        BY <2>6, <2>7
      <4>4. QED
        BY <1>1, <1>3, <2>3, <2>4, <4>1, <4>2, <4>3 DEF OnCourse
    <3>9. ASSUME NEW u \in Thread \ {t}, Holds(u, n)' PROVE OnCourse(u, n)'
      <4>1. Holds(u, n) /\ OnCourse(u, n)
        BY <2>14, <3>1, <3>9 DEF Quiet
      <4>2. <<n, "tmp">> # x
        BY <1>3, <3>2, <3>3, <4>1
      <4>3. <<n, "tmp">> \in DOMAIN file =>
              /\ <<n, "tmp">> \in DOMAIN file' /\ file'[<<n, "tmp">>] = file[<<n, "tmp">>]
              /\ data'[file[<<n, "tmp">>]] = data[file[<<n, "tmp">>]]
        BY <2>6, <2>7, <4>2
      <4>4. QED
        BY <1>1, <2>4, <3>6, <4>1, <4>3 DEF OnCourse
    <3>10. QED
      BY <2>14, <3>4, <3>7, <3>8, <3>9 DEF Quiet
  <2>16. QED
    BY <2>14, <2>15
<1>4. QED
  BY <1>2, <1>3 DEF Open, OpenAs, Exists, File
(* The text goes into the node's own temporary file, and into no other file  *)
(* of a quiet node.                                                          *)
LEMMA PutApart ==
    ASSUME FileInv, ApartInv, NEW t \in Thread, Put(t)
    PROVE  ApartInv'
<1> USE DEF ApartInv
<1>1. /\ Busy(t) /\ job[t].step = "put" /\ At(t, "put")
      /\ UNCHANGED <<entry, file, writes, issued, answered, met>>
  BY DEF Put, At
<1>2. ASSUME NEW step \in {"replace", "undo"}, NEW i, NEW v, NEW new, i = job[t].h,
             Goto(t, step), Store(Plus(data, i, v)),
             new = [n |-> job[t].n, rev |-> job[t].rev, len |-> job[t].len],
             v = IF step = "replace" THEN Over(data[i], new) ELSE Torn
      PROVE  ApartInv'
  <2> DEFINE j == [job[t] EXCEPT !.step = step]
  <2>1. /\ job[t] = [f \in Fields |-> job[t][f]] /\ job[t].op # "none"
        /\ job[t].n \in Id /\ job[t].len \in {1, 2} /\ RequestOK(job[t])
    BY <1>1, Request
  <2>2. job' = [job EXCEPT ![t] = j]
    BY <1>2 DEF Goto
  <2>3. /\ j = [f \in Fields |-> j[f]] /\ j.op = job[t].op /\ j.n = job[t].n
        /\ j.len = job[t].len /\ j.title = job[t].title /\ j.k = job[t].k /\ j.rev = job[t].rev
        /\ j.h = i /\ j.step = step /\ j.at = job[t].at /\ j.to = job[t].to
    BY <1>2, <2>1 DEF Fields
  <2> HIDE DEF j
  <2>4. job'[t] = j /\ \A u \in Thread \ {t} : job'[u] = job[u]
    BY <2>1, <2>2, <2>3, JobChange DEF FileInv
  <2>5. i \in DOMAIN data /\ \A y \in DOMAIN file : file[y] \in DOMAIN data
    BY <1>1, <1>2 DEF FileInv, Handles, Placed, Writing
  <2>6. \A y \in DOMAIN file : data'[file[y]] = IF file[y] = i THEN v ELSE data[file[y]]
    <3> DEFINE d == Plus(data, i, v)
    <3>1. /\ DOMAIN d = DOMAIN data \cup {i} /\ d[i] = v
          /\ \A m \in DOMAIN data \ {i} : d[m] = data[m]
      BY DEF Plus
    <3>2. Store(d)
      BY <1>2
    <3> HIDE DEF d
    <3>3. /\ \A m \in DOMAIN data' : m \in DOMAIN d /\ data'[m] = d[m]
          /\ \A y \in DOMAIN file' : file'[y] \in DOMAIN d => file'[y] \in DOMAIN data'
      BY <3>2, Kept
    <3>4. QED
      BY <1>1, <2>5, <3>1, <3>3
  <2>7. v.n \in {job[t].n, None}
    <3>1. Over(data[i], new).n \in {job[t].n, None}
      BY <1>2 DEF Over, Torn
    <3>2. QED
      BY <1>2, <3>1 DEF Torn
  <2>8. RequestOK(job[t])'
    <3>1. /\ job[t].op \in {"create", "rename", "write"} /\ job[t].n \in issued
          /\ job[t].k \in Nat /\ job[t].at \in Names /\ job[t].to = << >>
          /\ job[t].rev \in Nat /\ job[t].rev <= writes
      BY <1>1, <2>1 DEF RequestOK
    <3>2. QED
      BY <1>1, <2>3, <2>4, <3>1 DEF RequestOK
  <2>9. Busy(t)' /\ ~Unmade(t)' /\ Paths(t)' = Paths(t)
    BY <2>1, <2>3, <2>4 DEF Busy, Unmade, Paths
  <2>10. /\ Requests' /\ Dirs' /\ Meetings'
         /\ \A n \in Id \ met' : OwnPaths(n)'
         /\ \A u \in Thread \ {t} : \A n : Holds(u, n)' <=> Holds(u, n)
    <3>1. writes' \in Nat /\ writes <= writes'
      BY <1>1 DEF FileInv, Handles
    <3>2. answered' \in [Id -> Nat] /\ \A n \in Id : answered'[n] <= writes'
      BY <1>1 DEF Dirs
    <3>3. QED
      BY <1>1, <2>3, <2>4, <2>8, <2>9, <3>1, <3>2, SameNames
  <2>11. Quiets'
    <3> SUFFICES ASSUME NEW n \in Id \ met' PROVE Quiet(n)'
      BY DEF Quiets
    <3>1. Quiet(n) /\ n \in Id \ met /\ n # None
      BY <1>1, ValueAssumption DEF Quiets
    <3>2. job[t].n = n => /\ Holds(t, n) /\ OnCourse(t, n)
                          /\ \A u \in Thread \ {t} : ~Holds(u, n)
      <4>1. job[t].at # << >>
        BY <1>1, <2>1, NamesArePairs DEF RequestOK
      <4>2. QED
        BY <1>1, <3>1, <4>1, Sole DEF Holds, Quiet
    <3>3. job[t].n = n => <<n, "tmp">> \in DOMAIN file /\ file[<<n, "tmp">>] = i
      BY <1>1, <1>2, <3>2 DEF OnCourse
    <3>4. \A y \in DOMAIN file : y[1] = n /\ file[y] = i => job[t].n = n /\ y = <<n, "tmp">>
      BY <1>2, <3>1, <3>3 DEF Quiet, OwnDirectory, FileInv, Placed
    <3>5. OwnDirectory(n)'
      <4> SUFFICES ASSUME NEW y \in DOMAIN file
                   PROVE  /\ data'[file[y]].n = n => y[1] = n
                          /\ y[1] = n => /\ data'[file[y]].n \in {n, None}
                                         /\ \A u \in Thread : job'[u].h = file[y] => job'[u].n = n
        BY <1>1 DEF OwnDirectory
      <4>1. \A u \in Thread : job'[u].h = job[u].h /\ job'[u].n = job[u].n
        BY <1>2, <2>3, <2>4
      <4>2. CASE file[y] = i
        <5>1. data'[file[y]].n \in {job[t].n, None}
          BY <2>6, <2>7, <4>2
        <5>2. job[t].n = n => y = <<n, "tmp">>
          BY <3>3, <4>2 DEF FileInv, Placed
        <5>3. QED
          BY <3>1, <3>4, <4>1, <4>2, <5>1, <5>2 DEF Quiet, OwnDirectory
      <4>3. CASE file[y] # i
        BY <2>6, <3>1, <4>1, <4>3 DEF Quiet, OwnDirectory
      <4>4. QED
        BY <4>2, <4>3
    <3>6. <<n, "json">> \in DOMAIN file => data'[file[<<n, "json">>]] = data[file[<<n, "json">>]]
      <4>1. <<n, "json">>[1] = n /\ <<n, "json">> # <<n, "tmp">>
        OBVIOUS
      <4>2. QED
        BY <2>6, <3>4, <4>1
    <3>7. Present(n)' <=> Present(n)
      BY <1>1, <3>6 DEF Present
    <3>8. \A rev : Whole(n, rev)' <=> Whole(n, rev)
      BY <1>1, <3>6, <3>7 DEF Whole, Present
    <3>9. AnsweredKept(n)'
      BY <1>1, <3>1, <3>7, <3>8 DEF Quiet, AnsweredKept
    <3>10. ASSUME Holds(t, n)' PROVE OnCourse(t, n)'
      <4>1. job[t].n = n
        BY <2>3, <2>4, <3>10 DEF Holds
      <4>2. /\ job[t].at \in DOMAIN entry /\ entry[job[t].at] = n /\ job[t].rev >= answered[n]
            /\ data[i] = Empty /\ <<n, "tmp">> \in DOMAIN file /\ file[<<n, "tmp">>] = i
        BY <1>1, <1>2, <3>2, <3>3, <4>1 DEF OnCourse
      <4>3. step = "replace" => v = new
        <5>1. new.len \in {1, 2}
          BY <1>2, <2>1
        <5>2. QED
          BY <1>2, <4>2, <5>1 DEF Over, Empty
      <4>4. data'[i] = v
        BY <2>6, <4>2
      <4>5. step = "replace" => data'[i].n = n /\ data'[i].rev = job[t].rev
        BY <1>2, <4>1, <4>3, <4>4
      <4>6. QED
        BY <1>1, <2>3, <2>4, <4>2, <4>5 DEF OnCourse
    <3>11. ASSUME NEW u \in Thread \ {t}, Holds(u, n)' PROVE OnCourse(u, n)'
      <4>1. Holds(u, n) /\ OnCourse(u, n) /\ job[t].n # n
        BY <2>10, <3>1, <3>2, <3>11 DEF Quiet
      <4>2. <<n, "tmp">> \in DOMAIN file =>
              data'[file[<<n, "tmp">>]] = data[file[<<n, "tmp">>]]
        <5>1. <<n, "tmp">>[1] = n
          OBVIOUS
        <5>2. QED
          BY <2>6, <3>4, <4>1, <5>1
      <4>3. QED
        BY <1>1, <2>4, <3>8, <4>1, <4>2 DEF OnCourse
    <3>12. QED
      BY <2>10, <3>5, <3>9, <3>10, <3>11 DEF Quiet
  <2>12. QED
    BY <2>10, <2>11
<1>3. QED
  <2> DEFINE new == [n |-> job[t].n, rev |-> job[t].rev, len |-> job[t].len]
  <2>1. CASE Goto(t, "replace") /\ Store(Plus(data, job[t].h, Over(data[job[t].h], new)))
    BY <1>2, <2>1
  <2>2. CASE Goto(t, "undo") /\ Store(Plus(data, job[t].h, Torn))
    BY <1>2, <2>2
  <2>3. QED
    BY <2>1, <2>2 DEF Put, Undo

(* What is put in place is the node's own text, and not older than any that  *)
(* was answered.                                                             *)
LEMMA ReplaceApart ==
    ASSUME FileInv, ApartInv, NEW t \in Thread, Replace(t)
    PROVE  ApartInv'
<1> USE DEF ApartInv
<1>1. /\ Busy(t) /\ job[t].step = "replace" /\ At(t, "replace") /\ Store(data)
      /\ UNCHANGED <<entry, writes, issued, answered, met>>
  BY DEF Replace, At
<1>2. CASE Undo(t) /\ UNCHANGED file
  <2>1. \A x \in DOMAIN file : data'[file[x]] = data[file[x]]
    BY <1>1, <1>2, Kept DEF FileInv, Placed
  <2>2. QED
    BY <1>1, <1>2, <2>1, GotoApart DEF Undo
<1>3. ASSUME NEW k, NEW x, NEW y, NEW i,
             job[t].at \in DOMAIN entry, k = entry[job[t].at],
             x = <<k, "tmp">>, y = <<k, "json">>, x \in DOMAIN file, i = file[x],
             file' = Plus(Minus(file, {x}), y, i),
             job' = [job EXCEPT ![t].h = None, ![t].step = "load"]
      PROVE  ApartInv'
  <2> DEFINE j == [job[t] EXCEPT !.h = None, !.step = "load"]
  <2>1. /\ job[t] = [f \in Fields |-> job[t][f]] /\ job[t].op # "none"
        /\ job[t].n \in Id /\ job[t].len \in {1, 2} /\ RequestOK(job[t])
    BY <1>1, Request
  <2>2. job' = [job EXCEPT ![t] = j]
    BY <1>3
  <2>3. /\ j = [f \in Fields |-> j[f]] /\ j.op = job[t].op /\ j.n = job[t].n
        /\ j.len = job[t].len /\ j.title = job[t].title /\ j.k = job[t].k /\ j.rev = job[t].rev
        /\ j.h = None /\ j.step = "load" /\ j.at = job[t].at /\ j.to = job[t].to
    BY <2>1 DEF Fields
  <2> HIDE DEF j
  <2>4. job'[t] = j /\ \A u \in Thread \ {t} : job'[u] = job[u]
    BY <2>1, <2>2, <2>3, JobChange DEF FileInv
  <2>5. x # y /\ x[1] = k /\ y[1] = k /\ y[2] = "json"
    BY <1>3
  <2>6. /\ DOMAIN file' = (DOMAIN file \ {x}) \cup {y} /\ file'[y] = i
        /\ \A z \in DOMAIN file \ {x, y} : file'[z] = file[z]
    BY <1>3, <2>5 DEF Plus, Minus
  <2>7. /\ \A z \in DOMAIN file : file[z] \in DOMAIN data /\ file[z] # None
        /\ \A z \in DOMAIN file' : data'[file'[z]] = data[file'[z]]
    <3>1. \A z \in DOMAIN file : file[z] \in DOMAIN data /\ file[z] # None
      BY DEF FileInv, Placed, Handles
    <3>2. ASSUME NEW z \in DOMAIN file' PROVE file'[z] \in DOMAIN data
      <4>1. z = y \/ z \in DOMAIN file \ {x, y}
        BY <2>6
      <4>2. file'[z] = i \/ (z \in DOMAIN file /\ file'[z] = file[z])
        BY <2>6, <4>1
      <4>3. QED
        BY <1>3, <3>1, <4>2
    <3>3. QED
      BY <1>1, <3>1, <3>2, Kept
  <2>8. RequestOK(job[t])'
    <3>1. /\ job[t].op \in {"create", "rename", "write"} /\ job[t].n \in issued
          /\ job[t].k \in Nat /\ job[t].at \in Names /\ job[t].to = << >>
          /\ job[t].rev \in Nat /\ job[t].rev <= writes
      BY <1>1, <2>1 DEF RequestOK
    <3>2. QED
      BY <1>1, <2>3, <2>4, <3>1 DEF RequestOK
  <2>9. Busy(t)' /\ ~Unmade(t)' /\ Paths(t)' = Paths(t)
    BY <2>1, <2>3, <2>4 DEF Busy, Unmade, Paths
  <2>10. /\ Requests' /\ Dirs' /\ Meetings'
         /\ \A n \in Id \ met' : OwnPaths(n)'
         /\ \A u \in Thread \ {t} : \A n : Holds(u, n)' <=> Holds(u, n)
    <3>1. writes' \in Nat /\ writes <= writes'
      BY <1>1 DEF FileInv, Handles
    <3>2. answered' \in [Id -> Nat] /\ \A n \in Id : answered'[n] <= writes'
      BY <1>1 DEF Dirs
    <3>3. \A z \in DOMAIN file' \ DOMAIN file :
            /\ z = <<z[1], z[2]>> /\ z[2] \in {"json", "tmp"}
            /\ \E a \in DOMAIN entry : entry[a] = z[1]
      BY <1>3, <2>5, <2>6
    <3>4. QED
      BY <1>1, <2>3, <2>4, <2>8, <2>9, <3>1, <3>2, <3>3, SameNames
  <2>11. Quiets'
    <3> SUFFICES ASSUME NEW n \in Id \ met' PROVE Quiet(n)'
      BY DEF Quiets
    <3>1. Quiet(n) /\ n \in Id \ met
      BY <1>1 DEF Quiets
    <3>2. job[t].at # << >> /\ (k = n <=> job[t].n = n)
      <4>1. job[t].at # << >>
        BY <1>1, <2>1, NamesArePairs DEF RequestOK
      <4>2. QED
        BY <1>1, <1>3, <3>1, <4>1, HeldDirectory
    <3>3. job[t].n = n => OnCourse(t, n) /\ \A u \in Thread \ {t} : ~Holds(u, n)
      BY <1>1, <3>1, <3>2, Sole DEF Holds, Quiet
    <3>4. OwnDirectory(n)'
      <4> SUFFICES ASSUME NEW z \in DOMAIN file'
                   PROVE  /\ data'[file'[z]].n = n => z[1] = n
                          /\ z[1] = n => /\ data'[file'[z]].n \in {n, None}
                                         /\ \A u \in Thread : job'[u].h = file'[z] => job'[u].n = n
        BY DEF OwnDirectory
      <4>1. PICK w \in DOMAIN file : file'[z] = file[w] /\ w[1] = z[1]
        BY <1>3, <2>5, <2>6
      <4>2. /\ data[file[w]].n = n => w[1] = n
            /\ w[1] = n => /\ data[file[w]].n \in {n, None}
                           /\ \A u \in Thread : job[u].h = file[w] => job[u].n = n
        BY <3>1 DEF Quiet, OwnDirectory
      <4>3. data'[file'[z]] = data[file[w]] /\ file[w] # None
        BY <2>7, <4>1
      <4>4. QED
        BY <2>3, <2>4, <4>1, <4>2, <4>3
    <3>5. ASSUME k # n
          PROVE  \A kind \in {"json", "tmp"} :
                   /\ <<n, kind>> \in DOMAIN file' <=> <<n, kind>> \in DOMAIN file
                   /\ <<n, kind>> \in DOMAIN file => /\ file'[<<n, kind>>] = file[<<n, kind>>]
                                                     /\ data'[file[<<n, kind>>]] = data[file[<<n, kind>>]]
      <4>1. \A kind \in {"json", "tmp"} : <<n, kind>> \notin {x, y}
        BY <1>3, <3>5
      <4>2. QED
        BY <2>6, <2>7, <4>1
    <3>6. CASE k # n
      <4>1. Present(n)' <=> Present(n)
        BY <3>5, <3>6 DEF Present
      <4>2. \A rev : Whole(n, rev)' <=> Whole(n, rev)
        BY <3>5, <3>6, <4>1 DEF Whole, Present
      <4>3. AnsweredKept(n)'
        BY <1>1, <3>1, <4>1, <4>2 DEF Quiet, AnsweredKept
      <4>4. ~Holds(t, n)'
        BY <2>3, <2>4, <3>2, <3>6 DEF Holds
      <4>5. ASSUME NEW u \in Thread \ {t}, Holds(u, n)' PROVE OnCourse(u, n)'
        <5>1. OnCourse(u, n)
          BY <2>10, <3>1, <4>5 DEF Quiet
        <5>2. <<n, "tmp">> \in DOMAIN file =>
                /\ <<n, "tmp">> \in DOMAIN file' /\ file'[<<n, "tmp">>] = file[<<n, "tmp">>]
                /\ data'[file[<<n, "tmp">>]] = data[file[<<n, "tmp">>]]
          BY <3>5, <3>6
        <5>3. QED
          BY <1>1, <2>4, <4>2, <5>1, <5>2 DEF OnCourse
      <4>6. QED
        BY <2>10, <3>4, <4>3, <4>4, <4>5 DEF Quiet
    <3>7. CASE k = n
      <4>1. job[t].n = n /\ OnCourse(t, n)
        BY <3>2, <3>3, <3>7
      <4>2. data[i].n = n /\ data[i].rev = job[t].rev /\ job[t].rev >= answered[n]
        BY <1>1, <1>3, <3>7, <4>1 DEF OnCourse
      <4>3. y \in DOMAIN file' /\ file'[y] = i /\ data'[i] = data[i]
        BY <2>6, <2>7
      <4>4. <<n, "json">> \in DOMAIN file' /\ data'[file'[<<n, "json">>]] = data[i]
        BY <1>3, <3>7, <4>3
      <4>5. job[t].rev \in Nat /\ answered[n] \in Nat
        BY <2>1 DEF RequestOK, Dirs
      <4>6. Whole(n, answered[n])' /\ Whole(n, job[t].rev)'
        <5>1. Present(n)'
          BY <4>2, <4>4 DEF Present
        <5>2. Whole(n, answered[n])'
          BY <1>1, <4>2, <4>4, <5>1 DEF Whole
        <5>3. data'[file'[<<n, "json">>]].rev >= job'[t].rev
          BY <2>3, <2>4, <4>2, <4>4, <4>5
        <5>4. QED
          BY <5>1, <5>2, <5>3 DEF Whole
      <4>7. AnsweredKept(n)'
        BY <4>6 DEF AnsweredKept
      <4>8. OnCourse(t, n)'
        BY <1>1, <1>3, <2>3, <2>4, <3>7, <4>6 DEF OnCourse
      <4>9. \A u \in Thread \ {t} : ~Holds(u, n)'
        BY <2>10, <3>3, <4>1
      <4>10. QED
        BY <2>10, <3>4, <4>7, <4>8, <4>9 DEF Quiet
    <3>8. QED
      BY <3>6, <3>7
  <2>12. QED
    BY <2>10, <2>11
<1>4. QED
  BY <1>2, <1>3 DEF Replace, Exists, File
LEMMA CleanUpApart ==
    ASSUME FileInv, ApartInv, NEW t \in Thread, CleanUp(t)
    PROVE  ApartInv'
<1> USE DEF ApartInv
<1>1. /\ Busy(t) /\ job[t].step = "undo" /\ Fail(t) /\ Store(data)
      /\ UNCHANGED <<entry, writes, issued, answered, met>>
  BY DEF CleanUp, CleanUpOf, At
<1>2. job'[t] = Idle /\ \A u \in Thread \ {t} : job'[u] = job[u]
  BY <1>1, JobChange DEF Fail, FileInv
<1>3. /\ \A x \in DOMAIN file' : x \in DOMAIN file /\ file'[x] = file[x]
      /\ \A x \in DOMAIN file : \/ x \in DOMAIN file'
                                \/ /\ job[t].at \in DOMAIN entry
                                   /\ x = <<entry[job[t].at], "tmp">>
  BY DEF CleanUp, CleanUpOf, Minus, Exists, File
<1>4. \A x \in DOMAIN file' : data'[file'[x]] = data[file[x]]
  BY <1>1, <1>3, Kept DEF FileInv, Placed
<1>5. /\ Requests' /\ Dirs' /\ Meetings'
      /\ \A n \in Id \ met' : OwnPaths(n)'
      /\ \A u \in Thread \ {t} : \A n : Holds(u, n)' <=> Holds(u, n)
  <2>1. writes' \in Nat /\ writes <= writes'
    BY <1>1 DEF FileInv, Handles
  <2>2. answered' \in [Id -> Nat] /\ \A n \in Id : answered'[n] <= writes'
    BY <1>1 DEF Dirs
  <2>3. QED
    BY <1>1, <1>2, <1>3, <2>1, <2>2, SameNames
<1>6. Quiets'
  <2> SUFFICES ASSUME NEW n \in Id \ met' PROVE Quiet(n)'
    BY DEF Quiets
  <2>1. Quiet(n) /\ n \in Id \ met
    BY <1>1 DEF Quiets
  <2>2. OwnDirectory(n)'
    <3>1. \A x \in DOMAIN file : file[x] # None
      BY DEF FileInv, Placed, Handles
    <3>2. \A u \in Thread : job'[u].h = None \/ (job'[u].h = job[u].h /\ job'[u].n = job[u].n)
      BY <1>2 DEF Idle
    <3>3. QED
      BY <1>3, <1>4, <2>1, <3>1, <3>2 DEF Quiet, OwnDirectory
  <2>3. <<n, "json">> \in DOMAIN file' <=> <<n, "json">> \in DOMAIN file
    BY <1>3
  <2>4. Present(n)' <=> Present(n)
    BY <1>3, <1>4, <2>3 DEF Present
  <2>5. \A rev : Whole(n, rev)' <=> Whole(n, rev)
    BY <1>3, <1>4, <2>3, <2>4 DEF Whole, Present
  <2>6. AnsweredKept(n)'
    BY <1>1, <2>1, <2>4, <2>5 DEF Quiet, AnsweredKept
  <2>7. ~Holds(t, n)'
    BY <1>2 DEF Holds, Busy, Idle
  <2>8. ASSUME NEW u \in Thread \ {t}, Holds(u, n)' PROVE OnCourse(u, n)'
    <3>1. Holds(u, n) /\ OnCourse(u, n)
      BY <1>5, <2>1, <2>8 DEF Quiet
    <3>2. job[t].at \in DOMAIN entry => entry[job[t].at] # n
      <4>1. job[t].at # << >>
        BY <1>1, Request, NamesArePairs DEF RequestOK
      <4>2. ~Holds(t, n)
        BY <2>1, <3>1, Sole
      <4>3. QED
        BY <1>1, <2>1, <4>1, <4>2, HeldDirectory DEF Holds
    <3>3. <<n, "tmp">> \in DOMAIN file =>
            /\ <<n, "tmp">> \in DOMAIN file' /\ file'[<<n, "tmp">>] = file[<<n, "tmp">>]
            /\ data'[file[<<n, "tmp">>]] = data[file[<<n, "tmp">>]]
      BY <1>3, <1>4, <3>2
    <3>4. QED
      BY <1>1, <1>2, <2>5, <3>1, <3>3 DEF OnCourse
  <2>9. QED
    BY <1>5, <2>2, <2>6, <2>7, <2>8 DEF Quiet
<1>7. QED
  BY <1>5, <1>6

(* The answer is given for a write that is in place.                         *)
LEMMA LoadApart ==
    ASSUME FileInv, ApartInv, NEW t \in Thread, Load(t)
    PROVE  ApartInv'
<1> USE DEF ApartInv
<1>1. /\ Busy(t) /\ job[t].step = "load" /\ Fail(t)
      /\ UNCHANGED <<entry, file, data, writes, issued, met>>
  BY DEF Load, At
<1>2. job'[t] = Idle /\ \A u \in Thread \ {t} : job'[u] = job[u]
  BY <1>1, JobChange DEF Fail, FileInv
<1>3. RequestOK(job[t]) /\ job[t].n \in Id
  BY <1>1, Request
<1>4. answered' \in [Id -> Nat] /\ \A n \in Id : answered'[n] \in {answered[n], job[t].rev}
                                /\ (n # job[t].n => answered'[n] = answered[n])
  BY <1>3 DEF Load, Dirs, RequestOK
<1>5. /\ Requests' /\ Dirs' /\ Meetings'
      /\ \A n \in Id \ met' : OwnPaths(n)'
      /\ \A u \in Thread \ {t} : \A n : Holds(u, n)' <=> Holds(u, n)
  <2>1. writes' \in Nat /\ writes <= writes'
    BY <1>1 DEF FileInv, Handles
  <2>2. \A n \in Id : answered'[n] <= writes'
    BY <1>1, <1>3, <1>4 DEF Dirs, RequestOK
  <2>3. QED
    BY <1>1, <1>2, <1>4, <2>1, <2>2, SameNames
<1>6. Quiets'
  <2> SUFFICES ASSUME NEW n \in Id \ met' PROVE Quiet(n)'
    BY DEF Quiets
  <2>1. Quiet(n) /\ n \in Id \ met
    BY <1>1 DEF Quiets
  <2>2. OwnDirectory(n)'
    <3>1. \A x \in DOMAIN file : file[x] # None
      BY DEF FileInv, Placed, Handles
    <3>2. \A u \in Thread : job'[u].h = None \/ (job'[u].h = job[u].h /\ job'[u].n = job[u].n)
      BY <1>2 DEF Idle
    <3>3. QED
      BY <1>1, <2>1, <3>1, <3>2 DEF Quiet, OwnDirectory
  <2>3. \A rev : Whole(n, rev)' <=> Whole(n, rev)
    BY <1>1 DEF Whole, Present
  <2>4. Present(n)' <=> Present(n)
    BY <1>1 DEF Present
  <2>5. job[t].n = n => /\ OnCourse(t, n) /\ \A u \in Thread \ {t} : ~Holds(u, n)
    <3>1. job[t].at # << >>
      BY <1>1, <1>3, NamesArePairs DEF RequestOK
    <3>2. QED
      BY <1>1, <2>1, <3>1, Sole DEF Holds, Quiet
  <2>6. AnsweredKept(n)'
    <3>1. CASE answered'[n] = answered[n]
      BY <2>1, <2>3, <2>4, <3>1 DEF Quiet, AnsweredKept
    <3>2. CASE answered'[n] # answered[n]
      <4>1. job[t].n = n /\ answered'[n] = job[t].rev
        BY <1>4, <3>2
      <4>2. Whole(n, job[t].rev)
        BY <1>1, <2>5, <4>1 DEF OnCourse
      <4>3. Whole(n, answered[n])'
        BY <1>1, <4>1, <4>2 DEF Whole, Present
      <4>4. QED
        BY <4>3 DEF AnsweredKept
    <3>3. QED
      BY <3>1, <3>2
  <2>7. ~Holds(t, n)'
    BY <1>2 DEF Holds, Busy, Idle
  <2>8. ASSUME NEW u \in Thread \ {t}, Holds(u, n)' PROVE OnCourse(u, n)'
    <3>1. Holds(u, n) /\ OnCourse(u, n)
      BY <1>5, <2>1, <2>8 DEF Quiet
    <3>2. answered'[n] = answered[n]
      BY <1>4, <2>5, <3>1
    <3>3. QED
      BY <1>1, <1>2, <2>3, <3>1, <3>2 DEF OnCourse
  <2>9. QED
    BY <1>5, <2>2, <2>6, <2>7, <2>8 DEF Quiet
<1>7. QED
  BY <1>5, <1>6

(* After a crash nobody holds anything; what is in place stays.              *)
LEMMA CrashApart ==
    ASSUME FileInv, ApartInv, Crash
    PROVE  ApartInv'
<1> USE DEF ApartInv
<1>1. /\ job' = [t \in Thread |-> Idle] /\ Store(data)
      /\ UNCHANGED <<entry, file, writes, issued, answered, met>>
  BY DEF Crash
<1>2. \A t \in Thread : ~Busy(t)' /\ Paths(t)' = {} /\ job'[t].h = None
  BY <1>1 DEF Busy, Paths, Idle
<1>3. /\ \A x \in DOMAIN file : data'[file[x]] = data[file[x]] /\ file[x] # None
  BY <1>1, Kept DEF FileInv, Placed, Handles
<1>4. Requests' /\ Meetings'
  BY <1>2 DEF Requests, Meetings
<1>5. Dirs'
  BY <1>1, <1>2 DEF Dirs, Unmade
<1>6. Quiets'
  <2> SUFFICES ASSUME NEW n \in Id \ met' PROVE Quiet(n)'
    BY DEF Quiets
  <2>1. Quiet(n)
    BY <1>1 DEF Quiets
  <2>2. OwnDirectory(n)'
    BY <1>1, <1>2, <1>3, <2>1 DEF Quiet, OwnDirectory
  <2>3. OwnPaths(n)'
    BY <1>2 DEF OwnPaths
  <2>4. AnsweredKept(n)'
    BY <1>1, <1>3, <2>1 DEF Quiet, AnsweredKept, Whole, Present
  <2>5. QED
    BY <1>2, <2>2, <2>3, <2>4 DEF Quiet, Holds
<1>7. QED
  BY <1>4, <1>5, <1>6

-----------------------------------------------------------------------------
LEMMA ApartNext ==
    ASSUME FileInv, ApartInv, \A i \in DOMAIN data : data[i].n \in issued \cup {None}, [Next]_vars
    PROVE  ApartInv'
<1>1. ASSUME NEW t \in Thread, Step(t) PROVE ApartInv'
  BY <1>1, ListApart, LookApart, ReadApart, AgainApart, TryApart, MkDirApart, RenameApart,
     OpenApart, PutApart, ReplaceApart, CleanUpApart, LoadApart DEF Step
<1>2. ASSUME NEW t \in Thread, NEW op \in {"create", "rename"}, NEW n \in Id,
             NEW title \in Title, NEW len \in {1, 2}, Start(t, op, n, title, len)
      PROVE  ApartInv'
  BY <1>2, StartApart
<1>3. ASSUME NEW t \in Thread, NEW n \in Id, NEW len \in {1, 2}, Start(t, "write", n, 0, len)
      PROVE  ApartInv'
  BY <1>3, StartApart
<1>4. CASE Crash
  BY <1>4, CrashApart
<1>5. CASE UNCHANGED vars
  <2>1. /\ UNCHANGED <<entry, file, data, writes, issued, answered, met>> /\ job' = job
    BY <1>5 DEF vars
  <2>2. Requests' /\ Dirs' /\ Meetings'
    BY <2>1 DEF ApartInv, Requests, RequestOK, Dirs, Meetings, Busy, Paths, Unmade
  <2>3. ASSUME NEW n \in Id \ met' PROVE Quiet(n)'
    <3>1. Quiet(n)
      BY <2>1 DEF ApartInv, Quiets
    <3>2. QED
      BY <2>1, <3>1 DEF Quiet, OwnDirectory, OwnPaths, Paths, AnsweredKept, Whole, Present,
                        Holds, Busy, OnCourse
  <2>4. QED
    BY <2>2, <2>3 DEF ApartInv, Quiets
<1>6. QED
  BY <1>1, <1>2, <1>3, <1>4, <1>5 DEF Next

-----------------------------------------------------------------------------
(* The requests that have no write yet and may still begin one: the bound on *)
(* the writes counts them.                                                   *)
Pending == {u \in Thread : Busy(u) /\ job[u].rev = 0}

BoundsInv ==
    /\ faults \in 0 .. MaxFaults
    /\ writes + Cardinality(Pending) <= MaxWrites
    /\ DOMAIN data \subseteq Id \cup 1 .. writes
    /\ \A i \in DOMAIN data : data[i] \in [n: issued \cup {None}, rev: 0 .. writes, len: 0 .. 2]

LEMMA PendingFinite ==
    /\ IsFiniteSet(Pending) /\ Cardinality(Pending) \in Nat
    /\ \A S \in SUBSET Pending : IsFiniteSet(S) /\ Cardinality(S) \in Nat
                                 /\ Cardinality(S) <= Cardinality(Pending)
<1>1. IsFiniteSet(Pending)
  <2>1. Pending \in SUBSET Thread
    BY DEF Pending
  <2>2. QED
    BY <2>1, PoolAssumption, FS_Subset
<1>2. QED
  BY <1>1, FS_Subset, FS_CardinalityType

(* A step of a busy request touches no other.                                *)
LEMMA StepsAlone ==
    ASSUME FileInv, NEW t \in Thread, Step(t)
    PROVE  Busy(t) /\ \A u \in Thread \ {t} : job'[u] = job[u]
<1>1. Busy(t)
  BY DEF Step, List, Look, Read, Again, Try, MkDir, Rename, Open, OpenAs, Put, Replace, CleanUp,
         CleanUpOf, Load, At
<1>2. DOMAIN job = Thread
  BY DEF FileInv, JobShape
<1>3. ASSUME Fail(t) \/ Arrived(t) PROVE \A u \in Thread \ {t} : job'[u] = job[u]
  BY <1>2, <1>3 DEF Fail, Arrived
<1>4. ASSUME NEW step, Goto(t, step) PROVE \A u \in Thread \ {t} : job'[u] = job[u]
  BY <1>2, <1>4 DEF Goto
<1>5. CASE List(t) \/ Look(t)
  BY <1>1, <1>2, <1>3, <1>4, <1>5 DEF List, Look
<1>6. CASE Read(t)
  BY <1>1, <1>2, <1>3, <1>6 DEF Read
<1>7. CASE Again(t) \/ Try(t)
  BY <1>1, <1>2, <1>3, <1>7 DEF Again, Try
<1>8. CASE MkDir(t) \/ Rename(t) \/ CleanUp(t) \/ Load(t)
  BY <1>1, <1>3, <1>8 DEF MkDir, Rename, CleanUp, CleanUpOf, Load
<1>9. CASE Open(t)
  BY <1>1, <1>2, <1>4, <1>9 DEF Open, OpenAs, Undo
<1>10. CASE Put(t) \/ Replace(t)
  BY <1>1, <1>2, <1>4, <1>10 DEF Put, Replace, Undo
<1>11. QED
  BY <1>1, <1>5, <1>6, <1>7, <1>8, <1>9, <1>10 DEF Step

(* A step that begins no write.                                              *)
LEMMA NoNewWrite ==
    ASSUME FileInv, ApartInv, BoundsInv, NEW t \in Thread, Busy(t),
           \A u \in Thread \ {t} : job'[u] = job[u],
           \/ job[t].rev = 0
           \/ job'[t] = Idle
           \/ job'[t].rev = job[t].rev,
           UNCHANGED <<writes, issued>>,
           \/ UNCHANGED faults
           \/ faults < MaxFaults /\ faults' = faults + 1,
           \A i \in DOMAIN data' :
              /\ i \in DOMAIN data
              /\ data'[i] \in [n: issued \cup {None}, rev: 0 .. writes, len: 0 .. 2]
    PROVE  BoundsInv'
<1>1. Pending' \subseteq Pending
  BY DEF Pending, Busy, Idle
<1>2. writes' + Cardinality(Pending') <= MaxWrites
  <2>1. Cardinality(Pending') \in Nat /\ Cardinality(Pending') <= Cardinality(Pending)
    BY <1>1, PendingFinite
  <2>2. writes \in Nat
    BY DEF FileInv, Handles
  <2>3. QED
    BY <2>1, <2>2, PendingFinite, ValueAssumption DEF BoundsInv
<1>3. faults' \in 0 .. MaxFaults
  BY ValueAssumption DEF BoundsInv
<1>4. QED
  BY <1>2, <1>3 DEF BoundsInv

LEMMA NoNewWriteKept ==
    ASSUME FileInv, ApartInv, BoundsInv, NEW t \in Thread, Busy(t),
           \A u \in Thread \ {t} : job'[u] = job[u],
           \/ job[t].rev = 0
           \/ job'[t] = Idle
           \/ job'[t].rev = job[t].rev,
           UNCHANGED <<writes, issued>>,
           \/ UNCHANGED faults
           \/ faults < MaxFaults /\ faults' = faults + 1,
           UNCHANGED data \/ Store(data)
    PROVE  BoundsInv'
<1>1. \A i \in DOMAIN data' : i \in DOMAIN data /\ data'[i] = data[i]
  BY Kept
<1>2. QED
  BY <1>1, NoNewWrite DEF BoundsInv

LEMMA OpenBounds ==
    ASSUME FileInv, ApartInv, BoundsInv, NEW t \in Thread, Open(t)
    PROVE  BoundsInv'
<1>1. /\ Busy(t) /\ job[t].step = "open" /\ UNCHANGED issued
      /\ \A u \in Thread \ {t} : job'[u] = job[u]
  BY StepsAlone DEF Open, OpenAs, At, Step
<1>2. job[t].rev = 0
  BY <1>1, Request DEF RequestOK
<1>3. CASE /\ IF job[t].at \in DOMAIN entry THEN Fault ELSE UNCHANGED faults
           /\ UNCHANGED <<data, writes>>
  BY <1>1, <1>2, <1>3, NoNewWriteKept DEF Fault
<1>4. ASSUME NEW i, i \in DOMAIN data \/ i = writes + 1,
             job' = [job EXCEPT ![t].h = i, ![t].rev = writes + 1, ![t].step = "put"],
             writes' = writes + 1, Store(Plus(data, i, Empty)), UNCHANGED faults
      PROVE  BoundsInv'
  <2>1. writes \in Nat
    BY DEF FileInv, Handles
  <2>2. job'[t].rev = writes + 1
    <3>1. job = [u \in Thread |-> job[u]] /\ job[t] = [f \in Fields |-> job[t][f]]
      BY <1>1, Request DEF FileInv, JobShape
    <3>2. QED
      BY <1>4, <3>1 DEF Fields
  <2>3. t \in Pending /\ Pending' \subseteq Pending \ {t}
    BY <1>1, <1>2, <2>1, <2>2 DEF Pending, Busy
  <2>4. Cardinality(Pending \ {t}) = Cardinality(Pending) - 1 /\ IsFiniteSet(Pending \ {t})
    BY <2>3, PendingFinite, FS_RemoveElement
  <2>5. Cardinality(Pending') <= Cardinality(Pending \ {t}) /\ Cardinality(Pending') \in Nat
    BY <2>3, <2>4, FS_Subset, FS_CardinalityType
  <2>6. writes' + Cardinality(Pending') <= MaxWrites
    BY <1>4, <2>1, <2>4, <2>5, PendingFinite, ValueAssumption DEF BoundsInv
  <2>7. \A m \in DOMAIN data' : m \in DOMAIN data \cup {i}
                                /\ data'[m] = IF m = i THEN Empty ELSE data[m]
    <3> DEFINE d == Plus(data, i, Empty)
    <3>1. /\ DOMAIN d = DOMAIN data \cup {i} /\ d[i] = Empty
          /\ \A m \in DOMAIN data \ {i} : d[m] = data[m]
      BY DEF Plus
    <3>2. Store(d)
      BY <1>4
    <3> HIDE DEF d
    <3>3. \A m \in DOMAIN data' : m \in DOMAIN d /\ data'[m] = d[m]
      BY <3>2, Kept
    <3>4. QED
      BY <3>1, <3>3
  <2>8. DOMAIN data' \subseteq Id \cup 1 .. writes'
    <3>1. i \in Id \cup 1 .. writes'
      BY <1>4, <2>1 DEF BoundsInv
    <3>2. \A m \in DOMAIN data : m \in Id \cup 1 .. writes'
      BY <1>4, <2>1 DEF BoundsInv
    <3>3. QED
      BY <2>7, <3>1, <3>2
  <2>9. ASSUME NEW m \in DOMAIN data'
        PROVE  data'[m] \in [n: issued' \cup {None}, rev: 0 .. writes', len: 0 .. 2]
    <3>1. Empty \in [n: issued' \cup {None}, rev: 0 .. writes', len: 0 .. 2]
      BY <1>4, <2>1 DEF Empty
    <3>2. ASSUME m \in DOMAIN data
          PROVE  data[m] \in [n: issued' \cup {None}, rev: 0 .. writes', len: 0 .. 2]
      <4>1. data[m] \in [n: issued \cup {None}, rev: 0 .. writes, len: 0 .. 2]
        BY <3>2 DEF BoundsInv
      <4>2. 0 .. writes \subseteq 0 .. writes'
        BY <1>4, <2>1
      <4>3. QED
        BY <1>1, <4>1, <4>2
    <3>3. QED
      BY <2>7, <3>1, <3>2
  <2>10. QED
    BY <1>4, <2>6, <2>8, <2>9 DEF BoundsInv
<1>5. QED
  <2> DEFINE name == job[t].at
             i == IF Exists(name, "tmp") THEN file[File(name, "tmp")] ELSE writes + 1
  <2>1. i \in DOMAIN data \/ i = writes + 1
    BY DEF Exists, FileInv, Placed
  <2>2. CASE /\ job' = [job EXCEPT ![t].h = i, ![t].rev = writes + 1, ![t].step = "put"]
             /\ writes' = writes + 1 /\ Store(Plus(data, i, Empty)) /\ UNCHANGED faults
    BY <1>4, <2>1, <2>2
  <2>3. QED
    BY <1>3, <2>2 DEF Open, OpenAs

LEMMA PutBounds ==
    ASSUME FileInv, ApartInv, BoundsInv, NEW t \in Thread, Put(t)
    PROVE  BoundsInv'
<1> DEFINE i == job[t].h
           new == [n |-> job[t].n, rev |-> job[t].rev, len |-> job[t].len]
           Contents == [n: issued \cup {None}, rev: 0 .. writes, len: 0 .. 2]
<1>1. /\ Busy(t) /\ At(t, "put") /\ UNCHANGED <<writes, issued>>
      /\ \A u \in Thread \ {t} : job'[u] = job[u]
  BY StepsAlone DEF Put, At, Step
<1>2. PICK step, v : /\ Goto(t, step) /\ Store(Plus(data, i, v))
                     /\ v = Torn \/ v = Over(data[i], new)
                     /\ UNCHANGED faults \/ Fault
  BY DEF Put, Undo
<1>3. job'[t].rev = job[t].rev
  BY <1>1, <1>2, OnlyStep DEF FileInv
<1>4. i \in DOMAIN data
  BY <1>1 DEF FileInv, Handles, Writing
<1>5. v \in Contents
  <2>1. writes \in Nat
    BY DEF FileInv, Handles
  <2>2. new \in Contents
    <3>1. job[t].n \in issued /\ job[t].rev \in 0 .. writes /\ job[t].len \in 0 .. 2
      <4>1. /\ job[t].n \in issued /\ job[t].rev \in Nat /\ job[t].rev <= writes
            /\ job[t].len \in {1, 2}
        BY <1>1, Request DEF RequestOK
      <4>2. QED
        BY <2>1, <4>1
    <3>2. QED
      BY <3>1
  <2>3. Torn \in Contents
    BY <2>1 DEF Torn
  <2> HIDE DEF new, Contents
  <2>4. QED
    BY <1>2, <2>2, <2>3 DEF Over
<1> HIDE DEF i, new
<1>6. \A m \in DOMAIN data' : m \in DOMAIN data /\ data'[m] = IF m = i THEN v ELSE data[m]
  <2> DEFINE d == Plus(data, i, v)
  <2>1. /\ DOMAIN d = DOMAIN data \cup {i} /\ d[i] = v
        /\ \A m \in DOMAIN data \ {i} : d[m] = data[m]
    BY DEF Plus
  <2>2. Store(d)
    BY <1>2
  <2> HIDE DEF d
  <2>3. \A m \in DOMAIN data' : m \in DOMAIN d /\ data'[m] = d[m]
    BY <2>2, Kept
  <2>4. QED
    BY <1>4, <2>1, <2>3
<1>7. \A m \in DOMAIN data' : m \in DOMAIN data /\ data'[m] \in Contents
  BY <1>5, <1>6 DEF BoundsInv
<1>8. QED
  BY <1>1, <1>2, <1>3, <1>7, NoNewWrite DEF Fault

LEMMA StepBounds ==
    ASSUME FileInv, ApartInv, BoundsInv, NEW t \in Thread, Step(t)
    PROVE  BoundsInv'
<1>1. Busy(t) /\ \A u \in Thread \ {t} : job'[u] = job[u]
  BY StepsAlone
<1>2. CASE List(t) \/ Look(t) \/ Read(t) \/ Again(t) \/ Try(t) \/ MkDir(t) \/ Rename(t)
  <2>1. /\ UNCHANGED <<data, writes, faults, issued>>
        /\ job[t].step \in {"list", "look", "read", "again", "try", "mkdir", "rename"}
    BY <1>2 DEF List, Look, Read, Again, Try, MkDir, Rename, At
  <2>2. job[t].rev = 0
    BY <1>1, <2>1, Request DEF RequestOK
  <2>3. QED
    BY <1>1, <2>1, <2>2, NoNewWriteKept
<1>3. CASE Replace(t)
  <2>1. job = [u \in Thread |-> job[u]] /\ job[t] = [f \in Fields |-> job[t][f]]
    BY <1>1, Request DEF FileInv, JobShape
  <2>2. job'[t].rev = job[t].rev
    BY <1>3, <2>1 DEF Replace, Undo, Goto, Fields
  <2>3. QED
    BY <1>1, <1>3, <2>2, NoNewWriteKept DEF Replace, Fault
<1>4. CASE CleanUp(t) \/ Load(t)
  <2>1. /\ Fail(t) /\ UNCHANGED <<writes, issued, faults>>
        /\ UNCHANGED data \/ Store(data)
    BY <1>4 DEF CleanUp, CleanUpOf, Load
  <2>2. job'[t] = Idle
    BY <2>1, JobChange DEF Fail, FileInv
  <2>3. QED
    BY <1>1, <2>1, <2>2, NoNewWriteKept
<1>5. QED
  BY <1>2, <1>3, <1>4, OpenBounds, PutBounds DEF Step

LEMMA StartBounds ==
    ASSUME FileInv, ApartInv, BoundsInv, NEW t \in Thread, NEW op, NEW n \in Id, NEW title,
           NEW len, Start(t, op, n, title, len)
    PROVE  BoundsInv'
<1>1. /\ writes + Cardinality(Pending) < MaxWrites /\ ~Busy(t) /\ issued \subseteq issued'
      /\ UNCHANGED <<data, writes, faults>>
  BY DEF Start, Pending
<1>2. \A u \in Thread \ {t} : job'[u] = job[u]
  BY DEF Start, FileInv, JobShape
<1>3. Pending' \subseteq Pending \cup {t}
  BY <1>2 DEF Pending, Busy
<1>4. t \notin Pending
  BY <1>1 DEF Pending
<1>5. Cardinality(Pending \cup {t}) = Cardinality(Pending) + 1 /\ IsFiniteSet(Pending \cup {t})
  BY <1>4, PendingFinite, FS_AddElement
<1>6. Cardinality(Pending') <= Cardinality(Pending \cup {t}) /\ Cardinality(Pending') \in Nat
  BY <1>3, <1>5, FS_Subset, FS_CardinalityType
<1>7. writes \in Nat
  BY DEF FileInv, Handles
<1>8. writes' + Cardinality(Pending') <= MaxWrites
  BY <1>1, <1>5, <1>6, <1>7, PendingFinite, ValueAssumption
<1>9. \A i \in DOMAIN data : data[i] \in [n: issued' \cup {None}, rev: 0 .. writes, len: 0 .. 2]
  <2> TAKE i \in DOMAIN data
  <2>1. data[i] \in [n: issued \cup {None}, rev: 0 .. writes, len: 0 .. 2]
    BY DEF BoundsInv
  <2>2. QED
    BY <1>1, <2>1
<1>10. QED
  BY <1>1, <1>8, <1>9 DEF BoundsInv

LEMMA BoundsNext == FileInv /\ ApartInv /\ BoundsInv /\ [Next]_vars => BoundsInv'
<1> SUFFICES ASSUME FileInv, ApartInv, BoundsInv, [Next]_vars PROVE BoundsInv'
  OBVIOUS
<1>1. CASE UNCHANGED vars
  <2>1. Pending' = Pending
    BY <1>1 DEF vars, Pending, Busy
  <2>2. UNCHANGED <<data, writes, faults, issued>>
    BY <1>1 DEF vars
  <2>3. QED
    BY <2>1, <2>2 DEF BoundsInv
<1>2. CASE Crash
  <2>1. /\ job' = [t \in Thread |-> Idle] /\ Store(data) /\ UNCHANGED <<writes, issued>>
        /\ faults < MaxFaults /\ faults' = faults + 1
    BY <1>2 DEF Crash, Fault
  <2>2. Pending' = {}
    BY <2>1 DEF Pending, Busy, Idle
  <2>3. writes' + Cardinality(Pending') <= MaxWrites
    <3>1. writes \in Nat
      BY DEF FileInv, Handles
    <3>2. QED
      BY <2>1, <2>2, <3>1, PendingFinite, FS_EmptySet, ValueAssumption DEF BoundsInv
  <2>4. \A i \in DOMAIN data' : i \in DOMAIN data /\ data'[i] = data[i]
    BY <2>1, Kept
  <2>5. faults' \in 0 .. MaxFaults
    BY <2>1, ValueAssumption DEF BoundsInv
  <2>6. QED
    BY <2>1, <2>3, <2>4, <2>5 DEF BoundsInv
<1>3. QED
  BY <1>1, <1>2, StepBounds, StartBounds DEF Next

LEMMA BoundsInit == Init => BoundsInv
<1> SUFFICES ASSUME Init PROVE BoundsInv
  OBVIOUS
<1>1. PICK S \in SUBSET Id : /\ data = [n \in S |-> [n |-> n, rev |-> 0, len |-> 1]]
                             /\ issued = S
  BY DEF Init
<1>2. job = [t \in Thread |-> Idle] /\ writes = 0 /\ faults = 0
  BY DEF Init
<1>3. Pending = {}
  BY <1>2 DEF Pending, Busy, Idle
<1>4. writes + Cardinality(Pending) <= MaxWrites
  BY <1>2, <1>3, FS_EmptySet, ValueAssumption
<1>5. QED
  BY <1>1, <1>2, <1>4, ValueAssumption DEF BoundsInv

(* The files, the requests and the bounds hold each other up: a rename goes  *)
(* on with the node its directory holds, so what a request is about depends  *)
(* on what the files hold.                                                   *)
LEMMA InvHolds == Spec => [](FileInv /\ ApartInv /\ BoundsInv)
<1>1. FileInv /\ ApartInv /\ BoundsInv /\ [Next]_vars => (FileInv /\ ApartInv /\ BoundsInv)'
  <2> SUFFICES ASSUME FileInv, ApartInv, BoundsInv, [Next]_vars
               PROVE  (FileInv /\ ApartInv /\ BoundsInv)'
    OBVIOUS
  <2>1. \A i \in DOMAIN data : data[i].n \in issued \cup {None}
    BY DEF BoundsInv
  <2>2. \A i \in DOMAIN data : data[i].n \in Id \cup {None}
    BY <2>1 DEF ApartInv, Dirs
  <2>3. QED
    BY <2>1, <2>2, FilesNext, ApartNext, BoundsNext
<1>2. QED
  BY FilesInit, ApartInit, BoundsInit, <1>1, PTL DEF Spec

-----------------------------------------------------------------------------
(* Whatever the requests do, fail at or crash in, a reader of node.json      *)
(* finds one whole version, unless two writers shared the file.              *)
THEOREM JsonIsWhole == Spec => []WholeUnlessShared
<1>1. FileInv => WholeUnlessShared
  BY DEF FileInv, Placed, WholeUnlessShared
<1>2. QED
  BY InvHolds, <1>1, PTL

(* A node whose requests held no path at the same time as another request    *)
(* has one directory, with the last text that was answered or a later one:   *)
(* whatever the others do, fail at or crash in.                              *)
THEOREM ApartStaysWhole == Spec => []ApartUndisturbed
<1>1. FileInv /\ ApartInv => ApartUndisturbed
  <2> SUFFICES ASSUME FileInv, ApartInv, NEW n \in issued \ met,
                      answered[n] > 0 \/ \E name \in DOMAIN entry : Content(name).n = n
               PROVE  /\ \E name \in DOMAIN entry :
                            Content(name).n = n /\ Content(name).rev >= answered[n]
                      /\ Cardinality({name \in DOMAIN entry : Content(name).n = n}) = 1
    BY DEF ApartUndisturbed
  <2>1. Quiet(n) /\ n # None
    BY ValueAssumption DEF ApartInv, Dirs, Quiets
  <2>2. ASSUME NEW name \in DOMAIN entry, Content(name).n = n
        PROVE  entry[name] = n /\ <<n, "json">> \in DOMAIN file
               /\ data[file[<<n, "json">>]].n = n
    <3>1. /\ <<entry[name], "json">> \in DOMAIN file
          /\ data[file[<<entry[name], "json">>]].n = n
      BY <2>1, <2>2 DEF Content, Exists, File, Empty
    <3>2. <<entry[name], "json">>[1] = n
      BY <2>1, <3>1 DEF Quiet, OwnDirectory
    <3>3. QED
      BY <3>1, <3>2
  <2>3. Whole(n, answered[n])
    BY <2>1, <2>2 DEF Quiet, AnsweredKept, Present
  <2>4. PICK a \in DOMAIN entry : entry[a] = n
    <3>1. <<n, "json">>[1] = n
      OBVIOUS
    <3>2. QED
      BY <2>3, <3>1 DEF ApartInv, Dirs, Whole, Present
  <2>5. Content(a).n = n /\ Content(a).rev >= answered[n]
    BY <2>3, <2>4 DEF Content, Exists, File, Whole, Present
  <2>6. \A name \in DOMAIN entry : Content(name).n = n => name = a
    BY <2>2, <2>4 DEF ApartInv, Dirs
  <2>7. {name \in DOMAIN entry : Content(name).n = n} = {a}
    BY <2>5, <2>6
  <2>8. QED
    BY <2>5, <2>7, FS_Singleton
<1>2. QED
  BY InvHolds, <1>1, PTL

(* The names, the inodes, the requests and what the files hold stay among    *)
(* those there are, and the writes within their bound.                       *)
THEOREM DirectoryTypeCorrect == Spec => []TypeOK
<1>1. FileInv /\ ApartInv /\ BoundsInv => TypeOK
  <2> SUFFICES ASSUME FileInv, ApartInv, BoundsInv PROVE TypeOK
    OBVIOUS
  <2>1. writes \in 0 .. MaxWrites
    BY PendingFinite, ValueAssumption DEF FileInv, Handles, BoundsInv
  <2>2. /\ DOMAIN entry \subseteq Names /\ IsInjective(entry)
        /\ issued \subseteq Id /\ met \subseteq issued
    BY DEF ApartInv, Dirs, IsInjective
  <2>3. /\ DOMAIN file \subseteq Id \X {"json", "tmp"} /\ IsInjective(file)
        /\ \A x \in DOMAIN file : file[x] \in DOMAIN data
    <3>1. \A x \in DOMAIN file : x[1] \in Id /\ x = <<x[1], x[2]>> /\ x[2] \in {"json", "tmp"}
      BY DEF ApartInv, Dirs
    <3>2. QED
      BY <3>1 DEF FileInv, Placed, IsInjective
  <2>4. DOMAIN data \subseteq Inodes
    <3>1. 1 .. writes \subseteq 1 .. MaxWrites
      BY <2>1, ValueAssumption
    <3>2. QED
      BY <3>1 DEF BoundsInv, Inodes
  <2>5. ASSUME NEW t \in Thread
        PROVE  /\ Busy(t) => job[t].n \in issued /\ Paths(t) \subseteq Names
               /\ At(t, "put") => job[t].h \in DOMAIN data
    <3>1. ASSUME Busy(t) PROVE job[t].n \in issued /\ Paths(t) \subseteq Names
      <4>1. RequestOK(job[t])
        BY <3>1, Request
      <4>2. /\ job[t].n \in issued /\ job[t].at \in Names \cup {<< >>}
            /\ job[t].to \in Names \cup {<< >>}
        BY <4>1 DEF RequestOK
      <4>3. QED
        BY <4>2 DEF Paths
    <3>2. At(t, "put") => job[t].h \in DOMAIN data
      BY DEF FileInv, Handles, Writing
    <3>3. QED
      BY <3>1, <3>2
  <2>6. QED
    BY <2>1, <2>2, <2>3, <2>4, <2>5 DEF TypeOK, BoundsInv
<1>2. QED
  BY InvHolds, <1>1, PTL
=============================================================================
