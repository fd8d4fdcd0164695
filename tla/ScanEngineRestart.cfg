SPECIFICATION Spec
CONSTANTS
  Guids = {g1}
  NoGuid = NoGuid
  Controllers = {c1, c2}
  Scanners = {}
  Loop = loop
  MaxSessions = 2
  MaxScans = 1
  MaxRuns = 2
  Autostart = TRUE
  AdapterStates = {"on"}
  LoopFaults = FALSE
  Erasing = TRUE
SYMMETRY Symmetric
INVARIANTS
  NoOrphanedSession
PROPERTIES
  KeepsLedger
CHECK_DEADLOCK FALSE
