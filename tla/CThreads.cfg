CONSTANTS
  Threads = {main, a, b, c}
  Main = main
  Records = {x, y}
  Limits = {0, 2}
  None = None
SPECIFICATION Spec
SYMMETRY Symmetry
INVARIANTS ForkAttended WaitersAttended FreedOnce ExitsLast
CHECK_DEADLOCK FALSE
