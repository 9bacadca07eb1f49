CONSTANTS
  Config <- Files
  Arch <- Targets64
SPECIFICATION ServerSpec
INVARIANTS ServerTypeOK OneEntry TargetsRunnable BranchesCovered RefusedForCause ServesAllAlike
CHECK_DEADLOCK FALSE
