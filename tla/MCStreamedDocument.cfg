SPECIFICATION DocSpec
CONSTANTS
  MinGenerated = 2
  BufferSize = 3
  Pieces = {0, 1, 2, 3, 4, 5, 6, 7, 8, 9, 10, 11, 12}
  MaxPrefill = 3
  MaxMade = 20
  Kinds = {"json", "xml", "plain"}
  Values <- MCValues
  MaxCalls = 5
INVARIANTS
  InOrder
  ReadsAsWritten
PROPERTIES
  ConsumesHalf
  Finishes
  ImplementsStream
