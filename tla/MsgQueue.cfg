CONSTANTS
  t1 = t1
  t2 = t2
  Ports = {p1}
  Psets = {s1}
  Threads = {t1, t2}
  Senders = {t1, t2}
  None = None
  Buffers <- SmallBuffers
  QLimits = {0, 2}
  MP = TRUE
  MaxSends = 2
  MaxSeqno = 2
SPECIFICATION Spec
INVARIANTS OneQueue CountsMatch NoSenderStranded SeqnoOrder
           NoSleeperForgotten
PROPERTIES ImplementsFifo
CHECK_DEADLOCK FALSE
