SPECIFICATION Spec
CONSTANTS
  Count = 2
  Dirs = {1}
  Required = {1}
  Versions = {v1, v2}
  Keep = 1
  Updaters = {u1}
  MaxClock = 3
  Faults = TRUE
  OncePerSecond = TRUE
SYMMETRY Symmetric
INVARIANTS
  TypeOK
  RollbackPoint
  WayBack
PROPERTIES
  SuccessIsReal
CHECK_DEADLOCK FALSE
