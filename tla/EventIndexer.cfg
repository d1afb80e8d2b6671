SPECIFICATION Spec
CONSTANTS
  Loops = {1, 2}
  Limit = 2
  MaxEvents = 3
  MaxFaults = 2
INVARIANTS TypeOK NoHoles NothingSkipped
PROPERTY AllAnnounced
CHECK_DEADLOCK FALSE
