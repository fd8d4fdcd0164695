SPECIFICATION CasesSpec
CONSTANTS
  Findings <- MCFindings
  Keys <- MCKeys
  KeyOf <- MCKeyOf
  RowKey <- MCRowKey
  Rank <- MCRank
  Scans = {loop, single}
  Loop = loop
  Single = single
  Cooldown = 2
  MaxPerScan = 2
  Faults = FALSE
  People = TRUE
INVARIANTS
  QuietIsRecorded
PROPERTIES
  PersistentIsReportedUnattended
