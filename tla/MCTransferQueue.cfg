SPECIFICATION Spec
CONSTANTS
  Items = {"a", "b"}
  Servers = {"limited", "free"}
  Own = {"e1", "e2"}
  Primary = "primary"
  None = "none"
  Loads <- MCLoads
  Limit <- MCLimit
  AskedFor = {"limited"}
  NumTransfers = 2
  MaxDown = 0
  MaxUp = 1
  MaxErrors = 1
  MaxActions = 3
INVARIANTS AccountsExact ActiveHasOwner BrowsingReleased
CHECK_DEADLOCK FALSE
PROPERTIES SuccessIsReal
