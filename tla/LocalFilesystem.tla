--------------------------- MODULE LocalFilesystem ---------------------------
(* The workspace directory: one directory per Node, holding node.json and    *)
(* canvas.md. A directory is identified by the id in its node.json. An       *)
(* operation runs to its end before the next one starts (one request at a    *)
(* time), and none is cut short.                                             *)
EXTENDS NodeTree

CONSTANTS
    Id,         \* the UUIDs the service may hand out
    Title, SlugOf,  \* titles, and slugify(title) as a sequence of words
    Meta, NoMeta,   \* metadata values; NoMeta is NodeMetadata.from_dict({})
    Canvas, Blank,  \* canvas.md contents; Blank is the empty file
    Position        \* positions a move may ask for

ASSUME IdAssumption == IsFiniteSet(Id) /\ Root \notin Id
ASSUME TitleAssumption == SlugOf \in [Title -> Seq(Nat)]
ASSUME DataAssumption == NoMeta \in Meta /\ Blank \in Canvas /\ Position \subseteq Nat

VARIABLES
    place,      \* place[n]: the parent directory of n's directory, and its name
    node,       \* node[n]: title, parent_id and metadata in n's node.json
    kids,       \* kids[n]: children_ids in n's node.json
    canvas,     \* canvas[n]: the content of n's canvas.md
    issued      \* the UUIDs handed out so far

fsVars == <<place, node, kids, canvas, issued>>

Live == DOMAIN node
Suffix == 2 .. Cardinality(Id) + 1
Slugs == {SlugOf[t] : t \in Title} \cup {Append(SlugOf[t], k) : t \in Title, k \in Suffix}
NodeRecord == [title: Title, parent: Id \cup {Root}, meta: Meta]

(* Mutant: compares with the slugs of titles, not with directory names.      *)
SlugsOfTitles(p) == {SlugOf[node[m].title] : m \in {m \in Live : place[m].home = p}}

(* The directory names in use under p.                                       *)
SlugsIn(p) == {place[m].slug : m \in {m \in Live : place[m].home = p}}

HomeOf == [x \in Live |-> place[x].home]
Subdirs == [x \in Live |-> {y \in Live : place[y].home = x}]

(* Mutant: does not look below the children.                                 *)
TwoLevels(n) == {n} \cup Subdirs[n]

(* n's directory and every directory below it.                               *)
DirectoryTree(n) == Reach(Subdirs, n)

-----------------------------------------------------------------------------
FsInit ==
    /\ place = << >>
    /\ node = << >>
    /\ kids = << >>
    /\ canvas = << >>
    /\ issued = {}

FsCreate(n, p, t) ==
    /\ n \in Id \ issued
    /\ p \in Live \cup {Root}
    /\ issued' = issued \cup {n}
    /\ place' = [x \in Live \cup {n} |->
                    IF x = n THEN [home |-> p, slug |-> UniqueSlug(SlugsIn(p), SlugOf[t], Suffix)]
                    ELSE place[x]]
    /\ node' = [x \in Live \cup {n} |->
                    IF x = n THEN [title |-> t, parent |-> p, meta |-> NoMeta] ELSE node[x]]
    /\ kids' = [x \in Live \cup {n} |->
                    IF x = n THEN << >> ELSE IF x = p THEN Appended(kids[x], n) ELSE kids[x]]
    /\ canvas' = [x \in Live \cup {n} |-> IF x = n THEN Blank ELSE canvas[x]]

(* The node's own directory does not count as a collision.                   *)
FsRename(n, t) ==
    /\ n \in Live
    /\ LET others == {place[m].slug : m \in {m \in Live \ {n} : place[m].home = place[n].home}}
       IN  place' = [place EXCEPT ![n].slug = UniqueSlug(others, SlugOf[t], Suffix)]
    /\ node' = [node EXCEPT ![n].title = t]
    /\ UNCHANGED <<kids, canvas, issued>>

(* write_node replaces the whole node.json by the Node the caller holds.     *)
FsWriteNode(n, record, list) ==
    /\ n \in Live
    /\ node' = [node EXCEPT ![n] = record]
    /\ kids' = [kids EXCEPT ![n] = list]
    /\ UNCHANGED <<place, canvas, issued>>

(* The name is made unique against every entry of the destination, the       *)
(* node's own directory included when the parent stays the same.             *)
FsMove(n, p, pos) ==
    /\ n \in Live
    /\ p \in (Live \ DirectoryTree(n)) \cup {Root}
    /\ place' = [place EXCEPT ![n] =
                    [home |-> p, slug |-> UniqueSlug(SlugsIn(p), SlugOf[node[n].title], Suffix)]]
    /\ node' = [node EXCEPT ![n].parent = p]
    /\ kids' = [x \in Live |->
                    IF x = p THEN Inserted(kids[x], n, pos)
                    ELSE IF x = node[n].parent THEN Without(kids[x], n)
                    ELSE kids[x]]
    /\ UNCHANGED <<canvas, issued>>

FsDelete(n) ==
    /\ n \in Live
    /\ LET kept == Live \ DirectoryTree(n)
       IN  /\ place' = [x \in kept |-> place[x]]
           /\ node' = [x \in kept |-> node[x]]
           /\ kids' = [x \in kept |->
                          IF x = node[n].parent THEN Without(kids[x], n) ELSE kids[x]]
           /\ canvas' = [x \in kept |-> canvas[x]]
    /\ UNCHANGED issued

FsWriteCanvas(n, c) ==
    /\ n \in Live
    /\ canvas' = [canvas EXCEPT ![n] = c]
    /\ UNCHANGED <<place, node, kids, issued>>

-----------------------------------------------------------------------------
(* The operations as a repository without a cache calls them: update_metadata *)
(* writes back the Node it has just read from disk.                           *)
FsSetMeta(n, m) == n \in Live /\ FsWriteNode(n, [node[n] EXCEPT !.meta = m], kids[n])

FsNext ==
    \/ \E n \in Id, p \in Id \cup {Root}, t \in Title : FsCreate(n, p, t)
    \/ \E n \in Id, t \in Title : FsRename(n, t)
    \/ \E n \in Id, m \in Meta : FsSetMeta(n, m)
    \/ \E n \in Id, p \in Id \cup {Root}, pos \in Position : FsMove(n, p, pos)
    \/ \E n \in Id : FsDelete(n)
    \/ \E n \in Id, c \in Canvas : FsWriteCanvas(n, c)

FsSpec == FsInit /\ [][FsNext]_fsVars

-----------------------------------------------------------------------------
(* Every directory carries a node.json and a canvas.md, its parent directory *)
(* is the workspace root or another node's, and a children list names a      *)
(* child once.                                                               *)
FsTypeOK ==
    /\ issued \subseteq Id
    /\ Live \subseteq issued
    /\ place \in [Live -> [home: Live \cup {Root}, slug: Slugs]]
    /\ node \in [Live -> NodeRecord]
    /\ kids \in [Live -> Seq(Id)]
    /\ canvas \in [Live -> Canvas]
    /\ \A n \in Live : Once(kids[n])

(* TECH_SPEC invariant "every Node exactly one parent": node.json's          *)
(* parent_id is the node whose directory holds the node's directory, through *)
(* every create, rename, move and metadata write.                            *)
ParentIsDirectory == \A n \in Live : node[n].parent = place[n].home

(* parent_id and children_ids are two copies of one relation, in two files,  *)
(* rewritten one after the other: they never disagree between operations.    *)
ListsMatchParents ==
    \A p, c \in Live : c \in ToSet(kids[p]) <=> node[c].parent = p

(* No list keeps the id of a node that is gone.                              *)
ListsNameLiveNodes == \A p \in Live : ToSet(kids[p]) \subseteq Live

(* No sequence of moves puts a directory inside itself.                      *)
NoCycle == Rooted(HomeOf)

(* The name chosen by _unique_slug is free: two nodes never share a          *)
(* directory, whatever titles and numbers renames, moves and deletes leave.  *)
SiblingSlugsDistinct ==
    \A m, n \in Live : m # n /\ place[m].home = place[n].home => place[m].slug # place[n].slug

(* An operation moves, adds or drops one child; the order of all the others  *)
(* in every list survives it (the order is the user's, kept nowhere else).   *)
OrderKept ==
    [][\E n \in Id : \A p \in Live \cap Live' :
          Without(kids[p], n) = Without(kids'[p], n)]_fsVars

(* The directories, lists and files together implement the abstract forest:  *)
(* what delete_node removes by walking directories is the subtree the parent *)
(* links name, and what move_node refuses is a cycle of parent links.        *)
Abstract == INSTANCE WorkspaceTree WITH tree <- node, pages <- canvas, spent <- issued
AbstractSpec == Abstract!TreeSpec
=============================================================================
