------------------------------ MODULE MCStartup ------------------------------
(* Instance of Startup for TLC: a root Story with one node below it.         *)
EXTENDS Startup, TLC

CONSTANTS n1, n2

MCIds == {n1, n2}
MCParent == (n1 :> Root) @@ (n2 :> n1)
=============================================================================
