SPECIFICATION Spec
CONSTANTS
  Repos = {"r1"}
  Issues = {1, 2, 3}
  Jobs = {"boot", "cron"}
  PageSize = 2
  FaultKinds = {"ratelimit", "http", "db", "crash"}
  MaxFaults = 2
  MaxChanges = 2
  NoEtag = NoEtag
INVARIANTS TypeOK EtagMeansStored
PROPERTY Converges
