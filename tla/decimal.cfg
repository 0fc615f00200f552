SPECIFICATION Spec
CONSTANTS
  MaxChars = 7
  Wrap = 64
  Scale = 3
  IntDigits = 2
  Digit <- MCDigit
  Tails <- WithBlank
  Slots = {s1, s2}
INVARIANTS
  OrderAgrees
  StreamAgrees
  RowsReadBack
