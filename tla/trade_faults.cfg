SPECIFICATION Spec

CONSTANTS
  a = a
  b = b
  Symbols = {a, b}
  InitiallyListed = {a}
  MaxPrecision = 2
  MaxSent <- SentTradeFaults
  Faults = {"stray", "io", "sigint"}
  PairFilter = {}
  CaptureBook = FALSE
  CaptureTrades = TRUE
  BatchSize = 2
  FlushThreshold = 2

INVARIANTS
  TradeJournal
  RecoveredIsFeedPrefix
  CountsMatch
  RowsExplained
