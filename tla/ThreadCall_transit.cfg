CONSTANTS
  Cpus = {p1, p2}
  Master = p1
  External = {e1}
  Reenters = TRUE
  Internal = {i1}
  Keys = {k1}
  CallThreadMin = 1
  MaxCalls = 3
  MaxTime = 1
SPECIFICATION Spec
SYMMETRY Symmetry
INVARIANT ScheduledOnce
