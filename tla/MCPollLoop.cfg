SPECIFICATION FairSpec
CONSTANTS
  Conns = {c1, c2, c3}
  Stallers = {c2, c3}
  Timeout = 1
  Limit = 2
  Roomy = {c3}
  Modes = {"poll", "select"}
  MaxAge = 2
  NoConn = NoConn
INVARIANTS
  IndexInside
  NormalSorted
PROPERTIES
  InactiveCloses
