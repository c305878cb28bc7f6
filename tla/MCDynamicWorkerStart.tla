------------------------ MODULE MCDynamicWorkerStart ------------------------
(* Threads that share the port of one receipt.                             *)
EXTENDS DynamicWorkerStart, TLC

Symmetry == Permutations(Threads)
=============================================================================
