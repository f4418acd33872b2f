CONSTANTS
  DivMod = 64
  DivPage = 16
  TimaMax = 3
  Clocks = {8, 16, 32}
SPECIFICATION Spec
PROPERTIES
  PendingNeverDropped
  EdgesLostOnlyAfterWriteOverflow
  ImplementsContract
  PendingResolves
