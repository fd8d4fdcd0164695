SPECIFICATION MCSpec
CONSTANTS
  Subjects <- MCSubjects
  Names <- MCNames
  Text <- MCText
  Letters <- MCLetters
  Fold <- MCFold
  Dropped = "dropped"
  MixedNames = {"c0rp"}
  LureNames = {"corp"}
  Levels <- MCLevels
  WrittenElements <- MCWrittenElements
  RecordElements <- MCRecordElements
  Muted = {}
  Severe = {"low", "medium", "high", "critical"}
  Threshold = 1
  Jump = 15
  MaxNames = 1
  Busy = 60
  Paces = {1, 3}
  CrowdRadios = {"ap", "twin"}
  CrowdOui <- MCCrowdOui
  CrowdVendor <- MCCrowdVendor
  CrowdLocal = {"twin"}
  CrowdSounds <- MCCrowdSounds
  CrowdAnswers = {}
  CrowdMarks <- MCCrowdMarks
  CrowdBaseline = 1
  CrowdMissing = 0
  LoneRadios = {"ap"}
  LoneOui <- MCLoneOui
  LoneVendor <- MCLoneVendor
  LoneLocal = {}
  LoneSounds <- MCLoneSounds
  LoneAnswers = {"c0rp"}
  LoneMarks <- MCLoneMarks
  LoneBaseline = 2
  LoneMissing = 2
  SurveyRadios = {"ap", "twin"}
  SurveyLooks <- MCSurveyLooks
  SurveyLevels <- MCSurveyLevels
  MaxPoints = 2
  Steady = {"ap"}
  Interfaces <- MCInterfaces
  Descriptions <- MCDescriptions
  Types <- MCTypes
  Phys <- MCPhys
  Declared <- MCDeclared
  Named = {"a"}
  Keywords <- MCKeywords
  Moves = 2
  Life = 1
  Listed = {"ap", "twin"}
  FirstListed = "ap"
  RuleNames = {"evil"}
  ScreenLooks <- MCScreenLooks
  Pages = {"live", "names", "spectrum", "findings", "marks"}
  MarkPool <- MCMarkPool
  BandChoices = {"", "5"}
  Searches = {"", "corp"}
  MaxScans = 2
  MaxTurns = 2
  MaxLoads = 2
  Tags <- MCTags
  MaxAssets = 3
PROPERTIES
  PostureChangeIsHigh
CHECK_DEADLOCK FALSE
