SPECIFICATION Spec
CONSTANTS
  a1 = a1
  a2 = a2
  Address = {"c1"}
  OrgId = {"o1"}
  IssueId = {1, 2, 3}
  NoAdmin = NoAdmin
  APP_TTL_LEDGERS = 2
  INSTANCE_TTL_LEDGERS = 3
  MIN_PERSISTENT_TTL = 1
  GLOBAL_APP_LIMIT = 2
  GLOBAL_CAP_MAX = 3
  ORG_ASSIGNMENT_LIMIT = 1
  ORG_CAP_MIN = 1
  ORG_CAP_MAX = 2
INVARIANT CounterEqualsPending
