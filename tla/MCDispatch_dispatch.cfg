SPECIFICATION FairSpec
CONSTANTS
  r1 = r1  r2 = r2  w1 = w1  nobody = nobody  anonymous = anonymous
  info = info  drop = drop  teardown = teardown  unloaded = unloaded  service = service
  Grants <- GrantsOf
  NoToken = anonymous
  Nobody = nobody
  Requests = {r1, r2}
  Workers = {w1}
  Tools = {info, drop, teardown, unloaded}
  Registered = {info, drop, teardown, unloaded}
  Deployable = {info, drop, teardown, unloaded}
  Loaded = {info, drop, teardown}
  ReadSide = {info}
  ConfirmSet = {drop, teardown, unloaded}
  HardCeiling = {teardown}
  OwnsDryRun = {}
  Tokens = {service}
  CacheMax = 1
  Http = TRUE
  AuthRequired = TRUE
  HumanAtClient = FALSE
  PreviewMode = FALSE
  Cancels = TRUE
INVARIANTS DispatchInv RecordsTellWhatHappened
PROPERTIES EveryCallIsAnswered DeadTokenPassesNoGate
