CONSTANTS
  Threads = {t1, t2, t3}
  Conds = {plain, timed}
  Timed = {timed}
  Mutexes = {m}
  None = None
SPECIFICATION Spec
INVARIANTS TypeOK OneWakeup
PROPERTIES TakenWakes
CHECK_DEADLOCK FALSE
