------------------------------ MODULE DiskSteps ------------------------------
(* The operations of LocalFilesystem as the file system calls they make, one *)
(* after another, with the process dying between any two of them and a new   *)
(* one going on with what is left. Requests still run one at a time. A file  *)
(* is written beside its place and renamed into it (write_node_json,         *)
(* atomic_write_text): it is the old one or the new one.                     *)
EXTENDS NodeTree

CONSTANTS Id, Title, SlugOf, Meta, NoMeta, Canvas, Blank, Position,
          MaxCrashes    \* bound on the crashes of a behaviour

ASSUME IdAssumption == IsFiniteSet(Id) /\ Root \notin Id
ASSUME TitleAssumption == SlugOf \in [Title -> Seq(Nat)]
ASSUME DataAssumption == NoMeta \in Meta /\ Blank \in Canvas /\ Position \subseteq Nat
ASSUME CrashAssumption == MaxCrashes \in Nat

VARIABLES
    place,      \* place[d]: parent directory and name of the directory made for d
    node,       \* node[n]: title, parent_id and metadata of the node.json in it
    kids,       \* kids[n]: children_ids of that node.json
    canvas,     \* canvas[n]: the canvas.md in it
    issued,     \* the UUIDs handed out
    plan,       \* the calls the running request has still to make
    before,     \* the files when it began, and the node it is about
    cut,        \* history: the nodes a crash cut a request about, and those below them then
    crashes

files == <<place, node, kids, canvas>>
vars == <<place, node, kids, canvas, issued, plan, before, cut, crashes>>

Dirs == DOMAIN place
Live == DOMAIN node
Suffix == 2 .. Cardinality(Id) + 1
Inside == [d \in Dirs |-> {e \in Dirs : place[e].home = d}]
Below(d) == Reach(Inside, d)
Taken(p, own) == {place[d].slug : d \in {d \in Dirs \ own : place[d].home = p}}
Free(p, own, t) == [home |-> p, slug |-> UniqueSlug(Taken(p, own), SlugOf[t], Suffix)]

-----------------------------------------------------------------------------
(* The calls. The one at the head of the plan is made next.                  *)
PutDir(d, where) == [do |-> "dir", at |-> d, to |-> where]         \* mkdir, rename
PutJson(n, record, list) == [do |-> "json", at |-> n, record |-> record, list |-> list]
PutCanvas(n, c) == [do |-> "canvas", at |-> n, text |-> c]
Rmtree(stack) == [do |-> "rmtree", in |-> stack]

With(f, x, v) == [y \in DOMAIN f \cup {x} |-> IF y = x THEN v ELSE f[y]]
Less(f, x) == [y \in DOMAIN f \ {x} |-> f[y]]

IsNext(kind) == plan # << >> /\ Head(plan).do = kind
Made == UNCHANGED <<issued, before, cut, crashes>>

MoveDir ==
    /\ IsNext("dir")
    /\ place' = With(place, Head(plan).at, Head(plan).to)
    /\ plan' = Tail(plan)
    /\ UNCHANGED <<node, kids, canvas>> /\ Made

WriteJson ==
    /\ IsNext("json")
    /\ node' = With(node, Head(plan).at, Head(plan).record)
    /\ kids' = With(kids, Head(plan).at, Head(plan).list)
    /\ plan' = Tail(plan)
    /\ UNCHANGED <<place, canvas>> /\ Made

WriteText ==
    /\ IsNext("canvas")
    /\ canvas' = With(canvas, Head(plan).at, Head(plan).text)
    /\ plan' = Tail(plan)
    /\ UNCHANGED <<place, node, kids>> /\ Made

(* shutil.rmtree takes the entries of a directory in any order, goes down    *)
(* into a subdirectory when it meets one, and removes what is empty.         *)
Stack == Head(plan).in

UnlinkFile ==
    /\ IsNext("rmtree")
    /\ \/ /\ Last(Stack) \in Live
          /\ node' = Less(node, Last(Stack)) /\ kids' = Less(kids, Last(Stack))
          /\ UNCHANGED <<place, canvas>>
       \/ /\ Last(Stack) \in DOMAIN canvas
          /\ canvas' = Less(canvas, Last(Stack))
          /\ UNCHANGED <<place, node, kids>>
    /\ UNCHANGED plan /\ Made

EnterDir ==
    /\ IsNext("rmtree")
    /\ \E d \in Inside[Last(Stack)] : plan' = <<Rmtree(Append(Stack, d))>> \o Tail(plan)
    /\ UNCHANGED files /\ Made

RemoveDir ==
    /\ IsNext("rmtree")
    /\ Last(Stack) \notin Live \cup DOMAIN canvas /\ Inside[Last(Stack)] = {}
    /\ place' = Less(place, Last(Stack))
    /\ plan' = IF Len(Stack) = 1 THEN Tail(plan) ELSE <<Rmtree(Front(Stack))>> \o Tail(plan)
    /\ UNCHANGED <<node, kids, canvas>> /\ Made

-----------------------------------------------------------------------------
(* The requests. An exception the code raises comes before its first call    *)
(* that changes a file, and is a guard here.                                 *)
Files == [place |-> place, node |-> node, kids |-> kids, canvas |-> canvas, issued |-> issued]

Begin(n, calls) ==
    /\ plan = << >>
    /\ plan' = calls
    /\ before' = [files |-> Files, about |-> n]
    /\ UNCHANGED <<files, cut, crashes>>

(* The parent whose list n leaves must be on disk: node_dir raises if not.   *)
Attached(n) == n \in Live /\ node[n].parent \in Live \cup {Root}

Relist(p, list) == IF p = Root \/ list = kids[p] THEN << >> ELSE <<PutJson(p, node[p], list)>>
Unlist(n) == IF node[n].parent = Root THEN << >>
             ELSE Relist(node[n].parent, Without(kids[node[n].parent], n))

Create(n, p, t) ==
    /\ n \in Id \ issued
    /\ p \in Live \cup {Root}
    /\ issued' = issued \cup {n}
    /\ Begin(n, <<PutDir(n, Free(p, {}, t)),
                  PutJson(n, [title |-> t, parent |-> p, meta |-> NoMeta], << >>),
                  PutCanvas(n, Blank)>>
                \o (IF p = Root THEN << >> ELSE Relist(p, Appended(kids[p], n))))

Rename(n, t) ==
    /\ n \in Live
    /\ Begin(n, <<PutDir(n, Free(place[n].home, {n}, t)),
                  PutJson(n, [node[n] EXCEPT !.title = t], kids[n])>>)
    /\ UNCHANGED issued

SetMeta(n, m) ==
    /\ n \in Live
    /\ Begin(n, <<PutJson(n, [node[n] EXCEPT !.meta = m], kids[n])>>)
    /\ UNCHANGED issued

(* Mutants: the old parent keeps the child in its list; node.json keeps the  *)
(* old parent.                                                               *)
MoveKeepsListing(n, p, pos) ==
    /\ Attached(n)
    /\ p \in (Live \ Below(n)) \cup {Root}
    /\ Begin(n, <<PutDir(n, Free(p, {}, node[n].title)),
                  PutJson(n, [node[n] EXCEPT !.parent = p], kids[n])>>
                \o (IF p = Root THEN << >> ELSE <<PutJson(p, node[p], Inserted(kids[p], n, pos))>>))
    /\ UNCHANGED issued

MoveKeepsParent(n, p, pos) ==
    /\ Attached(n)
    /\ p \in (Live \ Below(n)) \cup {Root}
    /\ Begin(n, Unlist(n)
                \o <<PutDir(n, Free(p, {}, node[n].title))>>
                \o (IF p = Root THEN << >> ELSE <<PutJson(p, node[p], Inserted(kids[p], n, pos))>>))
    /\ UNCHANGED issued

Move(n, p, pos) ==
    /\ Attached(n)
    /\ p \in (Live \ Below(n)) \cup {Root}
    /\ Begin(n, Unlist(n)
                \o <<PutDir(n, Free(p, {}, node[n].title)),
                     PutJson(n, [node[n] EXCEPT !.parent = p], kids[n])>>
                \o (IF p = Root THEN << >> ELSE <<PutJson(p, node[p], Inserted(kids[p], n, pos))>>))
    /\ UNCHANGED issued

(* Mutant: the parent's list is rewritten after the directories are gone.    *)
DeleteThenUnlist(n) ==
    /\ Attached(n)
    /\ Begin(n, <<Rmtree(<<n>>)>> \o Unlist(n))
    /\ UNCHANGED issued

(* reversed(descendants + [directory]) begins with the directory itself: its *)
(* rmtree takes everything below, and nothing is left for the others.        *)
Delete(n) ==
    /\ Attached(n)
    /\ Begin(n, Unlist(n) \o <<Rmtree(<<n>>)>>)
    /\ UNCHANGED issued

WriteCanvas(n, c) ==
    /\ n \in Live
    /\ Begin(n, <<PutCanvas(n, c)>>)
    /\ UNCHANGED issued

Crash ==
    /\ plan # << >> /\ crashes < MaxCrashes
    /\ plan' = << >>
    /\ cut' = cut \cup {before.about} \cup UNION {Below(d) : d \in {before.about} \cap Dirs}
    /\ crashes' = crashes + 1
    /\ UNCHANGED <<files, issued, before>>

Init ==
    /\ place = << >> /\ node = << >> /\ kids = << >> /\ canvas = << >>
    /\ issued = {}
    /\ plan = << >>
    /\ before = [files |-> Files, about |-> Root]
    /\ cut = {}
    /\ crashes = 0

Request ==
    \/ \E n \in Id, p \in Id \cup {Root}, t \in Title : Create(n, p, t)
    \/ \E n \in Id, t \in Title : Rename(n, t)
    \/ \E n \in Id, m \in Meta : SetMeta(n, m)
    \/ \E n \in Id, p \in Id \cup {Root}, pos \in Position : Move(n, p, pos)
    \/ \E n \in Id : Delete(n)
    \/ \E n \in Id, c \in Canvas : WriteCanvas(n, c)

Next ==
    \/ Request
    \/ MoveDir \/ WriteJson \/ WriteText
    \/ UnlinkFile \/ EnterDir \/ RemoveDir
    \/ Crash

Spec == Init /\ [][Next]_vars

-----------------------------------------------------------------------------
(* What load_tree makes of the files. It visits the directories in the order *)
(* of their paths and takes a node whose parent it has already taken. A path *)
(* is the words of its names, each name closed by 0.                         *)
PathOf[d \in Dirs] ==
    (IF place[d].home = Root THEN << >> ELSE PathOf[place[d].home]) \o Append(place[d].slug, 0)

Before(s, t) ==
    \E i \in DOMAIN t :
        /\ \A j \in 1 .. i - 1 : j \in DOMAIN s /\ s[j] = t[j]
        /\ i \in DOMAIN s => s[i] < t[i]

Takes == [p \in Live |-> {n \in Live : node[n].parent = p /\ Before(PathOf[p], PathOf[n])}]
Loaded == UNION {Reach(Takes, r) : r \in {n \in Live : node[n].parent = Root}}

-----------------------------------------------------------------------------
Quiet == plan = << >>
Damaged == UNION {Below(d) : d \in cut \cap Dirs}

Record == [title: Title, parent: Id \cup {Root}, meta: Meta]
Slugs == {SlugOf[t] : t \in Title} \cup {Append(SlugOf[t], k) : t \in Title, k \in Suffix}
Call == [do: {"dir"}, at: Id, to: [home: Id \cup {Root}, slug: Slugs]]
        \cup [do: {"json"}, at: Id, record: Record, list: Seq(Id)]
        \cup [do: {"canvas"}, at: Id, text: Canvas]
        \cup [do: {"rmtree"}, in: Seq(Id)]

(* A directory stands in another or in the root, a file in a directory, and  *)
(* a list names a child once.                                                *)
TypeOK ==
    /\ issued \subseteq Id /\ Dirs \subseteq issued /\ cut \subseteq issued
    /\ Live \cup DOMAIN canvas \subseteq Dirs
    /\ place \in [Dirs -> [home: Dirs \cup {Root}, slug: Slugs]]
    /\ plan \in Seq(Call)
    /\ node \in [Live -> Record]
    /\ kids \in [Live -> Seq(Id)] /\ \A n \in Live : Once(kids[n])
    /\ canvas \in [DOMAIN canvas -> Canvas]
    /\ crashes \in 0 .. MaxCrashes

(* The calls of a request, none lost, come to the one step LocalFilesystem   *)
(* makes of it: the order in which move_node rewrites three files and a      *)
(* directory, and the walk of rmtree, show nothing else once they are done.  *)
Shown == IF Quiet THEN Files ELSE before.files
Atomic == INSTANCE LocalFilesystem WITH
              place <- Shown.place, node <- Shown.node, kids <- Shown.kids,
              canvas <- Shown.canvas, issued <- Shown.issued
AtomicSteps == [][crashes' = 0 => Atomic!FsNext]_Shown

(* A crash in the middle of a request harms the node the request is about    *)
(* and what lay below its directory then; everywhere else, whatever is       *)
(* requested afterwards, parent links, directories and lists still agree.    *)
Sound(n) ==
    /\ node[n].parent = place[n].home
    /\ node[n].parent # Root => node[n].parent \in Live /\ n \in ToSet(kids[node[n].parent])
    /\ \A c \in ToSet(kids[n]) : c \in Live /\ node[c].parent = n /\ place[c].home = n
DamageStaysBelow == Quiet => \A n \in Live \ cut : Sound(n)

(* The next boot loads every node that no crash has touched and that has not *)
(* been put below one that was: a node.json whose parent comes later in the  *)
(* walk, or is gone, is left out of the tree with everything below it.       *)
BootLoadsRest == Quiet => Live \ Damaged \subseteq Loaded
=============================================================================
