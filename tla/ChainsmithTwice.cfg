CONSTANTS
  Config <- TwiceLinked
  Arch <- Targets64
SPECIFICATION ServerSpec
INVARIANTS BranchesCovered
CHECK_DEADLOCK FALSE
