CONSTANTS
  Cid = {c1, c2}
  Qty = 2
  MaxRetries = 2
  Asked = {1, 2}
  MaxPos = 2
  MaxOthers = 2
  Quote = {q1, q2}
  NoQuote = NoQuote
  MaxCancels = 2
  Span = 2
  MinLive = 1
  MaxClock = 6
  Row = {r1, r2, r3}
  MaxMs = 1
  MaxStarts = 2
  EntryZ = 2
  ExitZ = 1
  Fee = 1
  MaxHold = 2
  MaxTicks = 7
  AllowLong = TRUE
  AllowShort = TRUE
  MaxZ = 2
  Spread <- Spreads
  Return <- Returns
  Symbol = {"BTC", "X", "Y"}
  Timeframe = {"1d", "4h"}
  Missing = Missing
  Market <- Markets
  History <- Histories
  Config <- Configurations
  MajorSymbol = {"BTC"}
  MajorTop = 1
  MajorVolume = 5
  Name = {"A", "B"}
  Lot = {1, 2}
  Price = {1, 3}
  MaxFills = 4
  None = None
SPECIFICATION MCSpec
INVARIANTS TypeOK ClosedIffTerminal IndexExact OvershootIsExplained SuccessIsShrunk RowsAccounted TradesAreExplained TopPairsRanked AverageIsExplained
PROPERTIES OrdersOnlyAdvance RateSpec
CHECK_DEADLOCK FALSE
