SPECIFICATION Spec
CONSTANTS
  Settings = {"defaults", "a", "b"}
  FirstTree = "defaults"
  Savers = {"ui", "engine"}
  Main = "ui"
  Faults = TRUE
  Sinks = 2
  AlertConfigs <- MCAlertConfigs
  MaxQueue = 2
  MaxItems = 3
  Callers = {"ui"}
  Ports = {"com3", "com4"}
  NoPort = ""
  MaxReaders = 3
  Alerts = {"none", "syslog"}
  DefaultAlerts = "none"
  Askers = {"loop", "ui"}
  Ttl = 2
  Pause = 2
  Limit = 3
  MaxRepairs = 2
  Tasks = {1, 2}
  MaxWorkers = 1
  Radios = {"ap"}
  NoRadio = ""
  Hosts = {"a", "b"}
  Lookers = {1, 2}
  NoHost = ""
  Reach <- MCReach
  Ssids = {"home", "guest"}
  Hotspots = {"spot"}
  Adapters = {"vpn", "wifi"}
  NoNet = ""
  Procs = {"p", "q"}
  Nobody = ""
  Autostart = FALSE
  MaxSessions = 2
  MaxLives = 2
INVARIANTS
  TypeOK
  Accounted
  OneReader
  HeldUntilDelivered
  AnswersAreTrue
  SessionsAreKept
PROPERTIES
  SavesAreSound
  OrderKept
  PushTakesHold
  NothingWaitsForEver
CHECK_DEADLOCK FALSE
