SPECIFICATION Spec
CONSTANTS
  a1 = a1
  a2 = a2
  Address = {a1, a2}
  OrgId = {"o1"}
  IssueId = {1, 2}
  NoAdmin = NoAdmin
  APP_TTL_LEDGERS = 1
  INSTANCE_TTL_LEDGERS = 1
  MIN_PERSISTENT_TTL = 1
  GLOBAL_APP_LIMIT = 1
  GLOBAL_CAP_MAX = 2
  ORG_ASSIGNMENT_LIMIT = 1
  ORG_CAP_MIN = 1
  ORG_CAP_MAX = 1
PROPERTIES ImplementsFairness
SYMMETRY Symmetry
