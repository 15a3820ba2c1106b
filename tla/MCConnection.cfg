SPECIFICATION FairSpec
CONSTANTS
  Methods = {"GET", "HEAD", "POST"}
  Malformed = TRUE
  PoolFull = TRUE
  Uploads = {2}
  Chunked = TRUE
  Continues = TRUE
  W = 8
  BodySizes = {0, 2}
  Prefilled = FALSE
  HasTimeout = TRUE
  Shutdowns = TRUE
  MaxUnits = 5
  MaxRead = 2
INVARIANTS
  RequestOwned
PROPERTIES
  CompletedIsDelivered
  WholeBody
  ImplementsLifecycle
  Answered
  StopEnds
  TimeoutEnds
