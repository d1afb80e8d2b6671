SPECIFICATION Spec
CONSTANTS
  Requests = {q1, q2}
  LIMIT = 2
  WINDOW = 3
  FaultKinds = {"timeout", "crash"}
  KeyMaxFaults = 1
  Nobody = Nobody
  Orgs = {"acme", "bloom"}
  Hung = {"bloom"}
  Loads = {"start", "timer"}
  Drains = {1, 2}
  MaxEvents = 2
  Events = {"created"}
  Hooks = {"h1", "h2"}
  MAX_ATTEMPTS = 3
  HookMaxFaults = 2
  TxTabs = {t1, t2}
  TxCalls = {"withdraw_application"}
  TxIssues <- MCTxIssues
  TxGlobalCap = 1
  TxOrgCap = 1
  TxMaxPolls = 2
  TxLifetime = 0
  TxMaxTime = 2
  TxMaxSeq = 1
  IcIssues = {1, 2}
  IcLists = {"available"}
  IcReaders = {r1}
  IcHooks = {h1, h2}
  IcTtl = 1
  IcDeliveries = 2
  GateWalletLimit = 2
  GateWindow = 2
  GateTtl = 2
  GateCalls = {c1}
  LvMaxEvents = 3
  LvMaxStale = 2
  LvMaxPolls = 2
  LvRetries = 3
  MgIssues = {1, 2}
  MgRoles = {"own"}
  MgMaxCalls = 1
  ObSteps = 5
  ToCap = 2
  ToMax = 5
CHECK_DEADLOCK FALSE
INVARIANTS
  ProgressTypeOK
  CountsAreExact
  QueuesDrainInOrder
  OutcomesTold
  NothingGoesStale
PROPERTIES
  OldStatePasses
  OrgsAreServed
  RequestsEnd
  ObShownOnce
  ShellSettles
