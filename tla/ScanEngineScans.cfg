SPECIFICATION Spec
CONSTANTS
  Guids = {g1, g2}
  NoGuid = NoGuid
  Controllers = {c1}
  Scanners = {s1}
  Loop = loop
  MaxSessions = 1
  MaxScans = 2
  MaxRuns = 1
  Autostart = FALSE
  AdapterStates = {"absent", "on"}
  LoopFaults = TRUE
  Erasing = FALSE
SYMMETRY Symmetric
INVARIANTS
  TypeOK
  RunningScanHasOwner
  ScanningHasOpenSession
PROPERTIES
  FinishedScanIsFinal
CHECK_DEADLOCK FALSE
