CONSTANTS
  Cid = {c1, c2}
  Qty = 1
  MaxCancels = 2
  Window = 2
  MinLive = 1
  MaxTime = 4
  MaxWal = 3
  None = None
SPECIFICATION Spec
PROPERTIES RecoveryRestores
