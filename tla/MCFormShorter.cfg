SPECIFICATION FormSpec
CONSTANTS
  XBUF_SIZE = 4
  buffer_size = 9
  Boundary <- MCLongerBoundary
  Disposition <- MCDisposition
  ContentType <- MCContentType
  TransferEncoding <- MCTransfer
  W = 128
  MaxBody = 0
  MaxTotal = 62
  MaxPiece = 4
  SentForms <- MCNestedShorter
INVARIANTS
  ServedParams
