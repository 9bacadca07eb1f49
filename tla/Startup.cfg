CONSTANTS
  Parallelism <- Machines
  CoresOption <- Options
SPECIFICATION Spec
INVARIANTS StartupTypeOK NoFatal RolesMatch
CHECK_DEADLOCK FALSE
