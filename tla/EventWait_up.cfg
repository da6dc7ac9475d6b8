CONSTANTS
  Threads = {t1, t2}
  Cpus = {p1}
  Events = {e1}
  Waiters = {t1, t2}
  Timed = {t1}
  Held = {t1, t2}
  None = None
  MaxHolds = 1
SPECIFICATION FairSpec
INVARIANTS NoPanic
PROPERTIES EndsAsAllowed TimedWaitEnds SuspendReturns
