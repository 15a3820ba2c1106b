SPECIFICATION FormSpec
CONSTANTS
  XBUF_SIZE = 4
  buffer_size = 9
  Boundary <- MCBoundary
  Disposition <- MCDisposition
  ContentType <- MCContentType
  TransferEncoding <- MCTransfer
  W = 128
  MaxBody = 0
  MaxTotal = 62
  MaxPiece = 4
  SentForms <- MCNestedThenField
INVARIANTS
  ServedParams
