-------------------------- MODULE MCRequestThreads --------------------------
(* Instance of RequestThreads for TLC.                                       *)
EXTENDS RequestThreads

CONSTANTS n1, t1, t2, t3

MCIds == {n1}
MCThreads == {t1, t2, t3}
Interchangeable == Permutations(MCThreads)
=============================================================================
