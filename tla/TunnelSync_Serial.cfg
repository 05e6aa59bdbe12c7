SPECIFICATION Spec
CONSTANTS
  root = root
  c1 = c1
  s1 = s1
  s2 = s2
  good = good
  spare = spare
  bad = bad
  a = a
  b = b
  refused = refused
  NoConfig = NoConfig
  NoClient = NoClient
  Clients = {root, c1}
  Root = root
  Servers = {s1, s2}
  Configs <- MCConfigs
  ValidCommons = {a, b}
  ValidProxies = {good, spare}
  MasterStates <- MCMasterStates
  Messages <- MCMessages
  Procs = {"pull", "rpc", "shutdown"}
  Overlap = FALSE
  Prompt = TRUE
  EarlyClose = {"returns", "runs"}
  MaxHandlers = 4
  MaxMaps = 3
  MaxMessages = 1
  MaxChanges = 1
  MaxFailures = 1
INVARIANTS
  TypeOK
  NoOrphan
PROPERTIES
  WantedAreServed
  HaltedAreSilent
CHECK_DEADLOCK FALSE
