CONSTANTS
  Attempts = 2
  Update = {u1}
  MaxSeen = 1
  MaxFailures = 2
  MaxLog = 1
SPECIFICATION FairSpec
INVARIANTS NothingSurvives HealthShowsHalt
PROPERTIES EndsUnlessSwallowed
CHECK_DEADLOCK FALSE
