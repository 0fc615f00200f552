SPECIFICATION ReplaySpec

CONSTANTS
  a = a
  Symbols = {a}
  BidPrices = {10, 20, 30}
  AskPrices = {}
  Qtys = {10, 15}
  Precisions <- MCPrecisions
  Scale = 1
  BookDepth = 2
  CrcDepth = 1
  MaxChanges = 1
  MaxMessages = 3
  MaxPairs = 2

INVARIANT ReplayAccepts

CHECK_DEADLOCK FALSE
