SPECIFICATION ConsoleSpec
CONSTANTS
  Consumer = c
  Printers = {}
  Length = 3
  Capacity = 2
  kLetters = 2
  MaxBytes = 3
  MaxTokens = 5
  MaxArgs = 2
  kLineBuffer = 12
INVARIANTS
  LinesAreRight
PROPERTIES
  WireIsHonest
  BytesAreServed
