CONSTANTS
  Update = {u1, u2, u3}
  MaxSeen = 2
  MaxFailures = 2
  MaxLog = 4
SPECIFICATION FairSpec
INVARIANTS NothingLeft NotRepeated
PROPERTIES StopEnds ExpiryIsRepaired
CHECK_DEADLOCK FALSE
