----------------------------- MODULE MCCThreads -----------------------------
(* C threads on a small instance.  The records, and the cprocs other than  *)
(* the main one, are alike.                                                *)
EXTENDS CThreads, TLC

Symmetry == Permutations(Records) \union Permutations(Threads \ {Main})
=============================================================================
