CONSTANTS
  f1 = f1  f2 = f2  f3 = f3
  w0 = w0  w1 = w1  disposal = disposal
  Frame <- TwoFrames
  Worker <- TwoWorkers
  First = w0
  Extra = disposal
  UmemMode = "extra-thread"
  QueueSize = 2
  RingCap = 2
  Timeout = 12
  IntBits = 4
  Faulty <- TwoWorkers
  CtrlC = TRUE
SPECIFICATION FairSpec
INVARIANTS Exclusive ProduceFits BatchPartition
PROPERTIES CreditReturned StopsOnKill
CHECK_DEADLOCK FALSE
