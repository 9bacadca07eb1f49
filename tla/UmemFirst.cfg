CONSTANTS
  f1 = f1  f2 = f2  f3 = f3
  w0 = w0  w1 = w1  disposal = disposal
  Frame <- ThreeFrames
  Worker <- TwoWorkers
  First = w0
  Extra = disposal
  UmemMode = "first-thread"
  QueueSize = 3
  RingCap = 3
  Timeout = 5
  IntBits = 4
  Faulty <- TwoWorkers
  CtrlC = TRUE
SPECIFICATION FairSpec
INVARIANTS TypeOK Exclusive ProduceFits BatchPartition
PROPERTIES LossExplained NeverStuck
CHECK_DEADLOCK FALSE
