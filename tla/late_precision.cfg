SPECIFICATION Spec

CONSTANTS
  a = a
  b = b
  Symbols = {a}
  InitiallyListed = {a}
  MaxPrecision = 2
  MaxSent <- SentBooks
  Faults = {}
  PairFilter = {}
  CaptureBook = TRUE
  CaptureTrades = TRUE
  BatchSize = 2
  FlushThreshold = 2

INVARIANTS
  BookRowsAtVenuePrecision
