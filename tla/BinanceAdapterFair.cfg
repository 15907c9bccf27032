CONSTANTS
  QuoteCid = {q1}
  HedgeCid = {h1}
  Qty = 1
  MaxAttempts = 2
  MaxRestarts = 1
  MaxReports = 2
  None = None
SPECIFICATION FairSpec
INVARIANTS StopIsFlat
PROPERTIES ClosedOrdersClose
