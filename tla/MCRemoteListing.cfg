CONSTANTS
  a = a  b = b
  e1 = e1  e2 = e2
  Nobody = Nobody
  Names = {a, b}
  Paths <- MCPaths
  Limits <- MCLimits
  Engines = {e1, e2}
  Commands <- MCCommands
  Initially <- MCInitially
  MaxCommands = 4
  MaxExpired = 1
SPECIFICATION Spec
INVARIANTS TypeOK CacheHonest CacheBalanced RefreshCurrent
SYMMETRY MCSymmetry
CHECK_DEADLOCK FALSE
