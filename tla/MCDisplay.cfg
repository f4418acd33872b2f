CONSTANTS
  Items = {"window", "viewer"}
  Window = "window"
  MaxFrames = 3
SPECIFICATION Spec
CHECK_DEADLOCK FALSE
PROPERTIES
  ImplementsRegister
  LatestIsShown
