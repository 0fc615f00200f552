SPECIFICATION Spec
CONSTANTS
  MaxChars = 7
  Wrap = 64
  Scale = 2
  IntDigits = 2
  Digit <- MCDigit
  Tails <- WithExponent
  Slots = {s1, s2}
INVARIANT NumbersRead
