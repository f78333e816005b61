CONSTANTS
  ReconnectCount = 1
  MaxRequests = 0
  MaxDrops = 1
  MaxActions = 1
SPECIFICATION Spec
INVARIANT NotifiedMeansEnded
CHECK_DEADLOCK FALSE
