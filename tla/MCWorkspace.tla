----------------------------- MODULE MCWorkspace -----------------------------
(* Instances of Workspace for TLC.                                           *)
EXTENDS Workspace

CONSTANTS n1, n2, n3

MCTitle == {"a", "b"}
MCSlugOf == [t \in MCTitle |-> IF t = "a" THEN <<10>> ELSE <<11>>]
SameSlug == [t \in MCTitle |-> <<10>>]    \* as "a" and "A" have
OneTitle == {"a"}
OneSlug == [t \in OneTitle |-> <<10>>]
Ids2 == {n1, n2}
Ids3 == {n1, n2, n3}
Symmetry3 == Permutations(Ids3)
Symmetry2 == Permutations(Ids2)

(* The state without what no request looks at: the names of directories (the *)
(* titles share one slug) and the order of the children. Of the rows it      *)
(* keeps which there are and which are right, and nothing once the flag is   *)
(* up: what else they hold varies with the path of the search only.          *)
ChildSets(lists) == [x \in DOMAIN lists |-> ToSet(lists[x])]
Relevant ==
    <<HomeOf, node, ChildSets(kids), issued, loaded, boot, ChildSets(bootKids), cached, stuck, stale,
      IF stale \/ stuck THEN {} ELSE {n \in Id : RowRight(n)},
      IF stale \/ stuck THEN {} ELSE DOMAIN index>>
=============================================================================
