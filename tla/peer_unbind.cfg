CONSTANTS
  Nodes = {n1}
  MaxOpen = 1
  MaxChannels = 2
  CanUnbind = TRUE
  CanCrash = FALSE
SPECIFICATION Spec
INVARIANT OpenHasAgent
CHECK_DEADLOCK FALSE
