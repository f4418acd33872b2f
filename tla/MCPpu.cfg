CONSTANTS
  LineDots = 13
  OamDots = 6
  VisibleLines = 3
  Lines = 5
  MinDraw = 1
  MaxDraw = 2
  LycValues <- MCLycValues
SPECIFICATION Spec
INVARIANTS
  StatLineFresh
  AtMostOneLycInterrupt
PROPERTIES
  LyAdvances
  ImplementsContract
  FramesEnd
