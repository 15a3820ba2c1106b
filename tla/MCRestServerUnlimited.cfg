SPECIFICATION Spec
CONSTANTS
  Servers = {s1, s2}
  s1 = s1
  s2 = s2
  Connections <- MCConnections
  Kinds <- MCKinds
  Settings <- MCSettings
  Streams = {"file"}
  MaxStarts = 2
  Half = 4
  DefaultLimit = 3
  TooManyWorkers = 6
INVARIANTS
  UnlimitedAsDocumented
