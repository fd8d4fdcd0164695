SPECIFICATION Spec
CONSTANTS
  Guids = {g1, g2}
  NoGuid = NoGuid
  Controllers = {c1}
  Scanners = {}
  Loop = loop
  MaxSessions = 2
  MaxScans = 2
  MaxRuns = 1
  Autostart = FALSE
  AdapterStates = {"absent", "on"}
  LoopFaults = FALSE
  Erasing = FALSE
INVARIANT
  SessionClosedWhenStopped
CHECK_DEADLOCK FALSE
