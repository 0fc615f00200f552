SPECIFICATION Spec

CONSTANTS
  a = a
  b = b
  Symbols = {a, b}
  InitiallyListed = {a}
  MaxPrecision = 1
  MaxSent <- SentTwice
  Faults = {}
  PairFilter = {}
  CaptureBook = TRUE
  CaptureTrades = TRUE
  BatchSize = 2
  FlushThreshold = 2

INVARIANTS
  EveryPairSubscribed
