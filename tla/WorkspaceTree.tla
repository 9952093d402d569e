---------------------------- MODULE WorkspaceTree ----------------------------
(* What the workspace promises its users, without directories, files, cache  *)
(* or index: a forest of titled nodes with metadata and a canvas each. The   *)
(* order of siblings is not part of the promise (see ListsMatchParents).     *)
EXTENDS NodeTree

CONSTANTS Id, Title, Meta, NoMeta, Canvas, Blank

VARIABLES
    tree,       \* tree[n]: title, parent and metadata of n
    pages,      \* pages[n]: the canvas of n
    spent       \* the ids ever used

treeVars == <<tree, pages, spent>>

Nodes == DOMAIN tree
Below(n) == Reach([x \in Nodes |-> {y \in Nodes : tree[y].parent = x}], n)

TreeInit == tree = << >> /\ pages = << >> /\ spent = {}

Add(n, p, t) ==
    /\ n \in Id \ spent
    /\ p \in Nodes \cup {Root}
    /\ tree' = [x \in Nodes \cup {n} |->
                   IF x = n THEN [title |-> t, parent |-> p, meta |-> NoMeta] ELSE tree[x]]
    /\ pages' = [x \in Nodes \cup {n} |-> IF x = n THEN Blank ELSE pages[x]]
    /\ spent' = spent \cup {n}

Change(n, record) ==
    /\ n \in Nodes
    /\ tree' = [tree EXCEPT ![n] = record]
    /\ UNCHANGED <<pages, spent>>

Retitle(n, t) == n \in Nodes /\ Change(n, [tree[n] EXCEPT !.title = t])
Annotate(n, m) == n \in Nodes /\ Change(n, [tree[n] EXCEPT !.meta = m])

(* A node goes with all that hangs below it, never under itself.             *)
Rehang(n, p) ==
    /\ n \in Nodes
    /\ p \in (Nodes \ Below(n)) \cup {Root}
    /\ Change(n, [tree[n] EXCEPT !.parent = p])

Prune(n) ==
    /\ n \in Nodes
    /\ tree' = [x \in Nodes \ Below(n) |-> tree[x]]
    /\ pages' = [x \in Nodes \ Below(n) |-> pages[x]]
    /\ UNCHANGED spent

WritePage(n, c) ==
    /\ n \in Nodes
    /\ pages' = [pages EXCEPT ![n] = c]
    /\ UNCHANGED <<tree, spent>>

TreeNext ==
    \E n \in Id :
        \/ \E p \in Id \cup {Root}, t \in Title : Add(n, p, t)
        \/ \E t \in Title : Retitle(n, t)
        \/ \E m \in Meta : Annotate(n, m)
        \/ \E p \in Id \cup {Root} : Rehang(n, p)
        \/ Prune(n)
        \/ \E c \in Canvas : WritePage(n, c)

TreeSpec == TreeInit /\ [][TreeNext]_treeVars
=============================================================================
