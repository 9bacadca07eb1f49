SPECIFICATION SessionSpec
CONSTANTS
  Pulley = {p1}
  Guest = {g1}
  NChallenges = 2
  CertChallenge = 1
  Arch <- TwoArch
  Opts <- AllOpts
  Scripts <- AllScripts
  Modes = {"NoTls", "ServerAuth", "ClientServerAuth", "PufTls"}
  MaxStarts = 2
  MaxStray = 1
INVARIANT PlainNeedsNoStore
CHECK_DEADLOCK FALSE
