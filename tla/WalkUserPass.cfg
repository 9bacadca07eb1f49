CONSTANTS
  Config <- UserPass
  Arch <- OneArch
  Target = "x86_64"
  TailLimit = 2
SPECIFICATION WalkSpec
INVARIANTS FateAsConfigured
CHECK_DEADLOCK FALSE
