CONSTANTS
  LcdWidth = 4
  StepDots = 1
  MaxObjects = 2
  MaxExtraDelay = 1
  Scans <- MCScans
  WxValues = {0, 5}
  FineScrolls = {2}
SPECIFICATION Spec
INVARIANTS
  DrawingIsBounded
  FetcherKeepsUp
  SeamlessBackground
  FrontmostObject
PROPERTY LineEnds
