-------------------------- MODULE MCLocalFilesystem --------------------------
(* Instance of LocalFilesystem for TLC. The titles "a" and "a 2" slugify to  *)
(* "a" and "a-2", so a title's own slug can be the numbered name of another. *)
EXTENDS LocalFilesystem, TLC

CONSTANTS n1, n2, n3, n4

MCTitle == {"a", "a 2"}
MCSlugOf == [t \in MCTitle |-> IF t = "a" THEN <<10>> ELSE <<10, 2>>]
Ids3 == {n1, n2, n3}
Ids4 == {n1, n2, n3, n4}
Symmetry3 == Permutations(Ids3)
Symmetry4 == Permutations(Ids4)
=============================================================================
