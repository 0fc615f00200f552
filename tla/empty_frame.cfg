SPECIFICATION FairSpec

CONSTANTS
  a = a
  b = b
  Symbols = {a}
  InitiallyListed = {a}
  MaxPrecision = 1
  MaxSent <- SentLive
  Faults = {"empty"}
  PairFilter = {}
  CaptureBook = TRUE
  CaptureTrades = TRUE
  BatchSize = 2
  FlushThreshold = 2

PROPERTIES
  FeedIsRead
