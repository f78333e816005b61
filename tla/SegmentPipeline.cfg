CONSTANTS
  N = 2
  Extra = {1}
  Length = 6
  MaxPending = 4
  Pool = 2
  BufferSize = 2
SPECIFICATION Spec
INVARIANTS TypeOK RequestsTile CountersBalanced DataHasBuffer StallHasOwner
PROPERTIES Completes
CHECK_DEADLOCK FALSE
