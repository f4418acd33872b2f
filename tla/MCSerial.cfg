CONSTANTS
  Bits = 3
  ClockSteps = 4
SPECIFICATION Spec
INVARIANTS
  BatchEndsWithByte
PROPERTIES
  InterruptBringsByte
  TransferEnds
