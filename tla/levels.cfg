SPECIFICATION Spec

CONSTANTS
  a = a
  Symbols = {a}
  BidPrices = {10, 20, 30}
  AskPrices = {40, 50, 4100}
  Qtys = {10}
  Precisions <- TwoPrecisions
  Scale = 1
  BookDepth = 2
  CrcDepth = 1
  MaxChanges = 1

INVARIANTS
  TypeOK
  MirrorsVenue
  NoFalseAlarm
  PrecisionsAgree
  VerifiedTopAgrees
  DepthBounded
