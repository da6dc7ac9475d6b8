CONSTANTS
  Cpus = {p1, p2}
  Master = p1
  External = {e1}
  Reenters = FALSE
  Internal = {i1}
  Keys = {k1}
  CallThreadMin = 1
  MaxCalls = 2
  MaxTime = 2
SPECIFICATION FairSpec
INVARIANTS QueuesMatchStatus TimerCoversDelayed CalloutAttended
PROPERTIES NeverEarly ImplementsSupply EventuallyRuns
