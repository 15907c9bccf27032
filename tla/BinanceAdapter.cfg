CONSTANTS
  QuoteCid = {q1, q2}
  HedgeCid = {}
  Qty = 2
  MaxAttempts = 2
  MaxRestarts = 0
  MaxReports = 2
  None = None
SPECIFICATION Spec
SYMMETRY Symmetry
INVARIANTS TypeOK NoPhantomFill NoSilentOrphan ReportsSettle ReconcileOkIsHealthy
PROPERTIES TrackerUsedValidly
