SPECIFICATION FairSpec
CONSTANTS
  Methods = {"GET", "HEAD"}
  Malformed = FALSE
  PoolFull = FALSE
  Uploads = {}
  Chunked = FALSE
  Continues = TRUE
  W = 8
  BodySizes = {0, 2}
  Prefilled = TRUE
  HasTimeout = FALSE
  Shutdowns = FALSE
  MaxUnits = 2
  MaxRead = 2
PROPERTIES
  Answered
