CONSTANT
  Lines = {1}
SPECIFICATION JoypadSpec
PROPERTIES
  EdgesAreReported
  KeysReachTheGame
