CONSTANTS
  Total = 5
  MaxSegments = 3
  MinSize = 1
  NoFile = NoFile
  Torn = Torn
SPECIFICATION Spec
INVARIANTS TypeOK FilesIntact SuccessComplete MergeHasParts ConnectionsOrderly
PROPERTIES PartsKept Ends
CHECK_DEADLOCK FALSE
