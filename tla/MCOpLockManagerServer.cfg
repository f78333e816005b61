CONSTANTS
  s1 = s1  s2 = s2  s3 = s3
  A = A  B = B
  list = list  mkdir = mkdir
  top = top  sub = sub
  NoSocket = NoSocket
  Sockets = {s1, s2, s3}
  ServerOf <- MCServerOf
  Requests <- MCExclusiveRequests
  ParentOf <- MCParentOf
  MaxLocks = 2
  MaxEvents = 2
  MaxSlots = 4
SPECIFICATION Spec
INVARIANTS WaitsForSameServer
SYMMETRY MCSymmetry
CHECK_DEADLOCK FALSE
