CONSTANTS
  Fallback = TRUE
  PassiveFirst = FALSE
  Protect = TRUE
  MaxOps = 2
  MaxKeepalives = 1
  MaxFaults = 1
SPECIFICATION Spec
INVARIANTS TypeOK ReplyMatches PendingExact ServerAgrees TimerRuns NeverStuck
PROPERTIES SuccessIsReal
CHECK_DEADLOCK FALSE
