SPECIFICATION Spec
CONSTANTS
  Repos = {"r1"}
  Issues = {1, 2}
  Jobs = {"cron"}
  PageSize = 2
  FaultKinds = {"db"}
  MaxFaults = 2
  MaxChanges = 1
  NoEtag = NoEtag
PROPERTY ClosedIsMarked
