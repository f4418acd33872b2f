CONSTANTS
  Memory <- MCMemory
  Versions = 2
  RowCount = 2
  Entries = {0, 1, 2, 3, 33, 1023}
SPECIFICATION ViewersSpec
CHECK_DEADLOCK FALSE
INVARIANTS
  SnapshotsAreWhole
  PicturesAreObjects
  BackgroundIsFetched
