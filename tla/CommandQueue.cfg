CONSTANTS
  ReconnectCount = 2
  MaxRequests = 2
  MaxDrops = 1
  MaxActions = 2
SPECIFICATION Spec
INVARIANTS TypeOK BusyHasOwner NoLostWakeup RepliesMatchRequests
PROPERTIES GivesUpAfterAllAttempts QueueDrains
CHECK_DEADLOCK FALSE
