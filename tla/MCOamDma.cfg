CONSTANTS
  OamSize = 3
  Pages = {0, 1, 2}
  EchoPage = 2
  EchoOffset = 1
SPECIFICATION Spec
INVARIANTS
  CopiesInRange
PROPERTIES
  ImplementsContract
  TransferEnds
