CONSTANTS
  Threads = {t1, t2, t3}
  NoThread = NoThread
  MaxNest = 1
  RecursiveAfterUpgrade = FALSE
  WriteAfterDowngrade = FALSE
SPECIFICATION FairSpec
INVARIANTS Exclusion SleepersBlocked BitsMatchHolders NoPanic
PROPERTIES ClaimServed ImplementsAbstract
