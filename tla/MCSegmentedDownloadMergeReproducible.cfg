CONSTANTS
  Total = 3
  MaxSegments = 3
  MinSize = 1
  NoFile = NoFile
  Torn = Torn
SPECIFICATION Spec
PROPERTIES MergeReproducible
CHECK_DEADLOCK FALSE
