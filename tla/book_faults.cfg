SPECIFICATION Spec

CONSTANTS
  a = a
  b = b
  Symbols = {a}
  InitiallyListed = {a}
  MaxPrecision = 1
  MaxSent <- SentBookFaults
  Faults = {"corrupt", "stray", "malformed", "empty", "link", "io", "sigint"}
  PairFilter = {}
  CaptureBook = TRUE
  CaptureTrades = FALSE
  BatchSize = 2
  FlushThreshold = 2

INVARIANTS
  TypeOK
  BookJournal
  RecoveredIsFeedPrefix
  CountsMatch

PROPERTIES
  StopIsFinal
  SessionSpec
