SPECIFICATION DocSpec
CONSTANTS
  MinGenerated = 2
  BufferSize = 3
  Pieces = {0, 1, 2, 3, 4, 5, 6, 7, 8, 9, 10, 11, 12}
  MaxPrefill = 3
  MaxMade = 20
  Kinds = {"json"}
  Values <- MCControl
  MaxCalls = 5
INVARIANT ValuesKept
