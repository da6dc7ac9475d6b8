---------------------------- MODULE MCThreadCall ----------------------------
(* ThreadCall for TLC: the entries of each kind are interchangeable, and   *)
(* so are the keys (Init names one, but every step treats all alike).      *)
EXTENDS ThreadCall, TLC

Symmetry ==
  Permutations(External) \cup Permutations(Internal) \cup Permutations(Keys)
=============================================================================
