------------------------------ MODULE MCRWLock ------------------------------
(* RWLock for TLC: in the run for the panic threads are interchangeable.  *)
EXTENDS RWLock, TLC

Symmetry == Permutations(Threads)
=============================================================================
