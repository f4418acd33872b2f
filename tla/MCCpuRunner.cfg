CONSTANTS
  PcMod = 4
  PageSize = 2
  NumInterrupts = 2
  handler_address <- MCHandlers
  Forever = 99
SPECIFICATION Spec
INVARIANTS
  StackHoldsReturnAddress
PROPERTIES
  AccessGrid
  ImplementsContract
  HaltEnds
  PendingIsTaken
