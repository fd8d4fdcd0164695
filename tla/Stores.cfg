SPECIFICATION Spec
CONSTANTS
  Threads = {t1, t2}
  Radios = {"ap"}
  Hosts = {"h"}
  MaxSites = 2
  MaxPoints = 1
  MaxRows = 2
  Heard = {"r"}
  Adapters = {"a"}
  Bands = {"5"}
  Levels <- MCLevels
  MaxScans = 2
  MaxTime = 1
  Devices = {"wifi", "bt"}
  ChipOf <- MCChipOf
  Wireless = {"wifi"}
  MaxRuns = 2
  Callers = {"ui", "api"}
  MaxRelease = 3
  MaxCrashes = 1
  Layouts = {"file", "folder"}
  Wishes = {{"desktop", "autostart"}}
  MaxSetup = 2
  MaxFaults = 1
  Procs = {"p", "q"}
  Columns = {"b", "c"}
  Since <- MCSince
  MaxBuild = 3
  MaxStarts = 4
SYMMETRY Symmetric
INVARIANTS
  TypeOK
  PointsAreWhole
  HistoryIsCovered
  NothingLeftUndone
  NeverWithoutImage
PROPERTIES
  NewSiteIsEmpty
  OnlyAsAnnounced
CHECK_DEADLOCK FALSE
