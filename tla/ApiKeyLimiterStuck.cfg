SPECIFICATION KeySpec
CONSTANTS
  Requests = {q1, q2}
  LIMIT = 2
  WINDOW = 3
  FaultKinds = {"timeout", "crash"}
  KeyMaxFaults = 1
  Nobody = Nobody
PROPERTY NotBlockedForever
