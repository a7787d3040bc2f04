SPECIFICATION SecuritySpec
CONSTANTS
  Word = 65536
  StrMax = 4096
  MaxPath = 260
  ValueMax = 256
  KeyLen = 40
  Lengths <- MCLengths
INVARIANT
  Z85DecodeTakesMultiplesOf5
