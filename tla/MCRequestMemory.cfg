SPECIFICATION Spec
CONSTANTS
  PoolSize = 16
  Align = 2
  Increment = 2
  RecordSize = 3
  LeastBuffer = 4
  HeadSizes = {2}
  Versions <- AllVersions
  Wishes <- AllWishes
  Given <- AllGiven
  MaxBody = 1
  MaxPart = 1
INVARIANTS
  AreasApart
  RoomToRead
PROPERTIES
  KeptWhenClear
