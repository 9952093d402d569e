------------------------- MODULE MCDirectoryThreads -------------------------
(* Instance of DirectoryThreads for TLC.                                     *)
EXTENDS DirectoryThreads

CONSTANTS n1, n2, t1, t2

MCIds == {n1, n2}
MCThreads == {t1, t2}
MCTitles == {1}
Interchangeable == Permutations(MCIds) \cup Permutations(MCThreads)
=============================================================================
