CONSTANTS
  Threads = {t1, t2}
  NoThread = NoThread
  MaxNest = 1
  RecursiveAfterUpgrade = TRUE
  WriteAfterDowngrade = FALSE
SPECIFICATION Spec
SYMMETRY Symmetry
INVARIANT NoPanic
