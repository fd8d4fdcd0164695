SPECIFICATION Spec
CONSTANTS
  Findings <- MCFindings
  Keys <- MCKeys
  KeyOf <- MCKeyOf
  RowKey <- MCRowKey
  Rank <- MCRank
  Scans = {loop}
  Loop = loop
  Cooldown = 2
  MaxPerScan = 1
  Faults = TRUE
  People = TRUE
INVARIANTS
  TypeOK
PROPERTIES
  NoRepeat
