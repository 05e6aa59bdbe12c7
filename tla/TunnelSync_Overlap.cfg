SPECIFICATION Spec
CONSTANTS
  root = root
  c1 = c1
  s1 = s1
  s2 = s2
  good = good
  spare = spare
  bad = bad
  a = a
  b = b
  refused = refused
  NoConfig = NoConfig
  NoClient = NoClient
  Clients = {root}
  Root = root
  Servers = {s1}
  Configs <- SoloConfigs
  ValidCommons = {a, b}
  ValidProxies = {good, spare}
  MasterStates <- SoloMasterStates
  Messages <- SoloMessagesB
  Procs = {"pull", "rpc"}
  Overlap = TRUE
  Prompt = TRUE
  EarlyClose = {"returns"}
  MaxHandlers = 4
  MaxMaps = 3
  MaxMessages = 1
  MaxChanges = 1
  MaxFailures = 0
INVARIANTS
  SingleRun
PROPERTIES
  WantedAreServed
CHECK_DEADLOCK FALSE
