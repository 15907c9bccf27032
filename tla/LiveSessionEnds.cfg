CONSTANTS
  Attempts = 2
  Update = {u1}
  MaxSeen = 1
  MaxFailures = 2
  MaxLog = 1
SPECIFICATION FairSpec
PROPERTIES SessionEnds
CHECK_DEADLOCK FALSE
