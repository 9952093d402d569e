----------------------------- MODULE MCDiskSteps -----------------------------
(* Instance of DiskSteps for TLC.                                            *)
EXTENDS DiskSteps, TLC

CONSTANTS n1, n2, n3

OneTitle == {"a"}
OneSlug == [t \in OneTitle |-> <<10>>]
Ids3 == {n1, n2, n3}
Symmetry3 == Permutations(Ids3)

(* Between requests `before` is read no more.                                *)
NoPast == <<files, issued, plan, cut, crashes, IF Quiet THEN << >> ELSE before>>
=============================================================================
