CONSTANTS
  Total = 3
  MaxSegments = 3
  MinSize = 1
  NoFile = NoFile
  Torn = Torn
SPECIFICATION Spec
PROPERTIES PartsRemovedWhenFinished
CHECK_DEADLOCK FALSE
