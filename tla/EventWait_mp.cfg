CONSTANTS
  Threads = {t1, t2, t3}
  Cpus = {p1, p2}
  Events = {e1}
  Waiters = {t1, t2}
  Timed = {}
  Held = {t1}
  None = None
  MaxHolds = 1
SPECIFICATION Spec
SYMMETRY Symmetry
INVARIANTS OnePlace NoPanic SuspenderRemembered
PROPERTIES StaysStopped
