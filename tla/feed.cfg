SPECIFICATION Spec

CONSTANTS
  a = a
  b = b
  Symbols = {a, b}
  InitiallyListed = {a}
  MaxPrecision = 2
  MaxSent <- SentFeed
  Faults = {"link", "sigint"}
  PairFilter = {a}
  CaptureBook = TRUE
  CaptureTrades = TRUE
  BatchSize = 2
  FlushThreshold = 2

INVARIANTS
  TradesAtVenuePrecision
  BookRowsNeverOlder
  OnlyWantedSymbols
  ReaderArmed
  AbortsOnlyOvertaken
  RowsExplained
  ExitLosesOnlyQueue
