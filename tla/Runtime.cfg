CONSTANTS
  Fill = {f1, f2}
  HasSymbols = TRUE
  Cooldown = 2
  MaxTime = 3
  MaxResets = 2
  None = None
SPECIFICATION Spec
INVARIANTS TypeOK BreachMeansHalted StoppedIsFlat ActiveIsLive FillsAccounted
CHECK_DEADLOCK FALSE
