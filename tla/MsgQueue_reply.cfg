CONSTANTS
  t1 = t1
  t2 = t2
  Ports = {p1}
  Psets = {s1}
  Threads = {t1, t2}
  Senders = {t1, t2}
  None = None
  Buffers <- SmallBuffers
  QLimits = {1}
  MP = FALSE
  MaxSends = 2
  MaxSeqno = 2
SPECIFICATION Spec
INVARIANT ReplyPortNotFull
CHECK_DEADLOCK FALSE
