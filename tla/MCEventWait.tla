----------------------------- MODULE MCEventWait -----------------------------
(* EventWait for TLC: threads that may do and suffer the same are          *)
(* interchangeable, and so are the processors.                             *)
EXTENDS EventWait, TLC

Symmetry ==
  {f \in Permutations(Threads) : \A S \in {Waiters, Timed, Held}, t \in Threads :
                                   f[t] \in S <=> t \in S}
  \cup Permutations(Cpus)
=============================================================================
