CONSTANTS
  Capacity = 2
  FrameSamples = 2
  Volumes = {0, 1, 2}
  Full = 2
SPECIFICATION SoundSpec
CHECK_DEADLOCK FALSE
INVARIANTS
  UsedIsAlive
  StatusIsTrue
  OnlyViewersMissTheEngine
PROPERTIES
  UiReturns
  ImplementsContract
  VolumeFollowsControls
