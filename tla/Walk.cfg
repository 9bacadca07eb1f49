CONSTANTS
  Config <- AllFiles
  Arch <- OneArch
  Target = "x86_64"
  TailLimit = 2
SPECIFICATION WalkSpec
INVARIANTS InstallTypeOK WiredWhenAttached RefusalExplained PacketTypeOK CrashExplained FateExplained
PROPERTIES ImplementsChainWalk WalkEnds
CHECK_DEADLOCK FALSE
