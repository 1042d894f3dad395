SPECIFICATION Spec
CONSTANTS
  SymBits = 3
  CodeBits = 11
  UintBits = 3
  Sizes = {3, 6, 9}
  Stale <- Buffers
  Alphabet <- Symbols
  Reserves = {0, 2}
  MaxSymbols = 4
INVARIANTS FitMeansWritten SymbolsReturn
CHECK_DEADLOCK FALSE
