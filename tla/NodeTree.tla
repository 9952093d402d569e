------------------------------ MODULE NodeTree ------------------------------
(* Operators on the node tree shared by the models of the workspace: the     *)
(* ordered children lists kept in node.json, the sets of nodes reached along *)
(* parent or child links, and the directory names picked for new siblings.   *)
(* A tree is a function from node ids to records with a field parent, which  *)
(* is the constant Root for a root Story; the ordered children lists are a   *)
(* second function from the same ids to sequences.                           *)
EXTENDS Integers, FiniteSets, SequencesExt

CONSTANT Root, NoStory

(* Children lists (with_children in local_filesystem.py).                    *)
Once(s) == IsInjective(s)

(* Mutant: the child stays in the list.                                      *)
WithoutNone(s, x) == s

(* [c for c in children_ids if c != x]. A list names a child once (Once is   *)
(* part of every TypeOK), so one removal takes every occurrence.             *)
Without(s, x) ==
    IF x \in ToSet(s) THEN RemoveAt(s, CHOOSE i \in DOMAIN s : s[i] = x) ELSE s

Appended(s, x) == IF x \in ToSet(s) THEN s ELSE Append(s, x)

(* Mutants: the child is not taken out before it is put in; the child that   *)
(* stands at the position is overwritten.                                    *)
InsertedTwice(s, x, pos) == IF pos >= Len(s) THEN Append(s, x) ELSE InsertAt(s, pos + 1, x)
InsertedOver(s, x, pos) ==
    LET rest == Without(s, x)
    IN  IF pos >= Len(rest) THEN Append(rest, x) ELSE ReplaceAt(rest, pos + 1, x)

(* A position past the end appends, like no position at all.                 *)
Inserted(s, x, pos) ==
    LET rest == Without(s, x)
    IN  IF pos >= Len(rest) THEN Append(rest, x) ELSE InsertAt(rest, pos + 1, x)

(* [c for c in s if c in S], in the form the proofs can open.                *)
Only(s, S) ==
    LET kept[i \in 0 .. Len(s)] ==
            IF i = 0 THEN << >>
            ELSE IF s[i] \in S THEN Append(kept[i - 1], s[i]) ELSE kept[i - 1]
    IN  kept[Len(s)]

(* The least set that holds r and, with a node, its successors.              *)
Reach(succ, r) ==
    {m \in DOMAIN succ :
        \A S \in SUBSET DOMAIN succ :
            r \in S /\ (\A x \in S : succ[x] \subseteq S) => m \in S}

(* Every non-empty set of nodes has one whose parent lies outside it: no     *)
(* parent chain of a finite tree runs in a circle.                           *)
Rooted(parent) ==
    \A S \in SUBSET DOMAIN parent : S # {} => \E x \in S : parent[x] \notin S

(* Over the children lists, skipping the ids that no node has.               *)
ListedIn(lists) == [x \in DOMAIN lists |-> ToSet(lists[x]) \cap DOMAIN lists]
AboveIn(tree) == [x \in DOMAIN tree |-> {tree[x].parent} \cap DOMAIN tree]

(* Tree.subtree: the nodes reached over the children lists, r included. The  *)
(* walk keeps no set of visited nodes: it ends only if no list leads back to *)
(* a node on the way.                                                        *)
Subtree(lists, r) == Reach(ListedIn(lists), r)
WalkEnds(lists, r) ==
    \A S \in SUBSET Subtree(lists, r) :
        S # {} => \E x \in S : ListedIn(lists)[x] \cap S = {}

(* Mutant: the parent instead of the root above it.                          *)
StoryOfParent(tree, n, p) == p

(* _resolve_story_id: the root above a node whose parent is p, NoStory when  *)
(* the walk meets an id the tree lacks.                                      *)
StoryOf(tree, n, p) ==
    IF p = Root THEN n
    ELSE LET tops == {a \in Reach(AboveIn(tree), p) : tree[a].parent = Root}
         IN  IF p \in DOMAIN tree /\ tops # {} THEN CHOOSE a \in tops : TRUE
             ELSE NoStory

(* A directory name is the sequence of the words of its slug; "-2", "-3" ... *)
(* append a number, and a title may itself end in that number.               *)
UniqueSlug(taken, base, Suffix) ==
    IF base \notin taken THEN base
    ELSE Append(base, CHOOSE k \in Suffix :
                          /\ Append(base, k) \notin taken
                          /\ \A j \in Suffix : j < k => Append(base, j) \in taken)
=============================================================================
