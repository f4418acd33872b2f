CONSTANT
  Lines = {1}
SPECIFICATION JoypadSpec
PROPERTY
  RequestedStaysSet
