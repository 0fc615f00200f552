SPECIFICATION FairSpec

CONSTANTS
  a = a
  b = b
  Symbols = {a}
  InitiallyListed = {a}
  MaxPrecision = 1
  MaxSent <- SentBookFaults
  Faults = {"corrupt", "empty", "io", "link", "sigint"}
  PairFilter = {}
  CaptureBook = TRUE
  CaptureTrades = FALSE
  BatchSize = 2
  FlushThreshold = 2

PROPERTIES
  StopEnds
  LostLinkEnds
  FailedHandshakeEnds
  ImplementsFairJournal
