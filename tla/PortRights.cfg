SPECIFICATION Spec
CONSTANTS
  p1 = p1
  s1 = s1
  s2 = s2
  None = None
  Ports <- OnePort
  Spaces <- TwoSpaces
  Mortal <- Server
  Slots <- ThreeSlots
  UrefsMax = 3
  MaxNaked = 1
  MaxMscount = 1
  MaxDeaths = 1
  MaxStray = 1
  a = a
  b = b
  c = c
SYMMETRY ClientNames
CHECK_DEADLOCK FALSE
INVARIANTS TypeOK RightsCounted RefsCounted OneReceiver UrefsMatch NoSendersTrue NoSendersNotLost
