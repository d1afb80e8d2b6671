SPECIFICATION Spec
CONSTANTS
  a1 = a1
  a2 = a2
  Address = {a1}
  OrgId = {"o1", "o2"}
  IssueId = {1, 2}
  NoAdmin = NoAdmin
  APP_TTL_LEDGERS = 1
  INSTANCE_TTL_LEDGERS = 2
  MIN_PERSISTENT_TTL = 1
  GLOBAL_APP_LIMIT = 2
  GLOBAL_CAP_MAX = 3
  ORG_ASSIGNMENT_LIMIT = 1
  ORG_CAP_MIN = 1
  ORG_CAP_MAX = 2
INVARIANTS TypeOK CounterCoversLive CounterOutlivesEntries AsgnCountExact NoCounterInconsistency CountersBounded
PROPERTIES AdmissionUnderCaps AssignmentConsumesApplication BlockedIsFreed
