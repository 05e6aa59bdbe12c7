SPECIFICATION Spec
CONSTANTS
  root = root
  c1 = c1
  s1 = s1
  s2 = s2
  good = good
  spare = spare
  bad = bad
  a = a
  b = b
  refused = refused
  NoConfig = NoConfig
  NoClient = NoClient
  Clients = {root}
  Root = root
  Servers = {s1}
  Configs <- SoloConfigs
  ValidCommons = {a, b}
  ValidProxies = {good, spare}
  MasterStates <- SoloMasterState
  Messages <- RestartMessages
  Procs = {"pull", "rpc", "shutdown"}
  Overlap = TRUE
  Prompt = FALSE
  EarlyClose = {"returns", "runs"}
  MaxHandlers = 3
  MaxMaps = 2
  MaxMessages = 1
  MaxChanges = 0
  MaxFailures = 0
INVARIANTS
  NoOrphan
  StopIsComplete
CHECK_DEADLOCK FALSE
