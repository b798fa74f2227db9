SPECIFICATION ComponentsSpec
CONSTANTS
  Procs = {p1, p2}
  Artifacts = {a1, a2, a3}
  Absent = Absent
  Partial = Partial
  NoProc = NoProc
  Models = {ma, mb}
  Users = {u1, u2}
  SharedSource = TRUE
  MaxRecIds = 5
  MaxRecBoots = 1
  HealthModels = {ma}
  Versions = {10, 20}
  MaxStamp = 1
  LibIds = {ma}
  Jobs = {j1, j2}
  MaxRevision = 2
  Tokens = {t1, t2}
  NoToken = NoToken
  HfRequests = {h1, h2}
  EnvTokens = {t1}
  ChatIds = {r1, r2}
  Kinds = {"chat", "responses", "preflight", "embedding"}
  ContextLimit = 1
  MaxRetries = 1
  Clients = {c1, c2}
  Rpm = 2
  RateWindow = 3
  FailureWindow = 3
  FailureMax = 2
  MaxBytes = 3
  MaxClock = 8
  MaxMessages = 5
  MaxSize = 1
  Letters = {"a", "b"}
  MaxLength = 5
  StopLists <- MCStopLists
INVARIANTS
  ComponentsTypeOK
  TransactionSafe
  
  
  
  CatalogSafe
  
PROPERTIES
  Refines
  
CHECK_DEADLOCK FALSE
