CONSTANTS
  QuoteCid = {q1}
  HedgeCid = {}
  Qty = 1
  MaxAttempts = 2
  MaxRestarts = 0
  MaxReports = 2
  None = None
SPECIFICATION Spec
INVARIANTS FillsReconciled
