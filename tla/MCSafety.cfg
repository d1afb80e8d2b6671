SPECIFICATION Spec
CONSTANTS
  FeFunctions = {"apply_for_issue", "assign_issue", "other"}
  FeFees = {0, 1, 4, 99, 49999995, 12345670, 1234567, 100000}
  UpMaxRetries = 3
  UpBackendRetries = 2
  RegAdmins = {a1, a2}
  RegOrgs = {"acme"}
  RegMaintainers <- MCMaintainers
  CrIssues <- MCCrIssues
  CrEventMax = 4
  PgRows = 5
  PgInserts = 2
  PgLeaves = 2
  PgAsked = {0, 1, 2, 3, 4}
  PgDefault = 2
  PgCap = 3
  TtlApps = {p1, p2, p3}
  TtlGone = {p3}
  TtlBatchSize = 2
  TtlLife = 4
  TtlMaxMisses = 2
  EdContributors = {"c"}
  EdMaintainers = {"m"}
  EdOrgs = {"acme"}
  EdIssues = {1, 2}
  EdMaxEvents = 4
  RoGitHub = {"known"}
  RoAddrs = {"g1", "g2"}
  MpItems = {"i"}
  MpRoles = {"maintainer"}
  MpLoads = {l1, l2}
  MbOrgs = {"own", "other"}
  MbRoles = {"own"}
  MbPageSize = 1
  MbMaxFetches = 2
  OiCount <- MCCount
  OiPageSize = 1
  OiMaxCalls = 1
  IdIssues = {1, 2}
  DaPending <- MCApplications
  DaMaxLoads = 2
  CpWallet = "me"
  CpPending <- MCProfiles
  CpMaxLoads = 2
  CpMaxCalls = 1
  TfApplied = {"42"}
  TfRegistered = {"org"}
  TfMaxSlots = 1
  TcCallers = {k1, k2}
  TcCap = 1
  TcExpiry = 3
  TcNear = 1
  TcMaxTime = 5
  SeAddrs = {"g1"}
  SeOrgs <- MCBookmarks
  SeMaxPins = 1
  SeMaxCalls = 2
  OsOrgs <- MCOrgs
  OsQueries = {"a", "b", "z"}
  OsMatches <- MCMatches
  EtLists <- MCLists
  EtLog <- MCLog
  EtServerCap = 3
  EtPageSize = 2
  EtFilters = {"all", "application"}
  AfCount <- MCFeed
  AfPageSize = 2
  AfMaxLoads = 3
  KsSecond = 2
  KsMaxCards = 2
  VtMax = 3
  AaWho = {"me", "you"}
  AaOrgs <- MCOrgList
  AaMaxLoads = 2
  AaMaxChanges = 1
  OmAddrs = {"GA"}
  OmOrgs = {"x"}
  OmLoads = 3
  OmOutside = 1
  CaMaxCalls = 3
CHECK_DEADLOCK FALSE
INVARIANTS
  SafetyTypeOK
  ReportsAreRight
  RegistrationStands
  WalksComplete
  TtlJobKeeps
  EdRebuilt
  
  LateAnswersIgnored
  OneAtATime
  RoBodyValid
  SessionAgrees
  TimersHonoured
