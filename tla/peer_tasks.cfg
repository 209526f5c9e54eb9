CONSTANTS
  Nodes = {n1, n2}
  MaxOpen = 1
  MaxChannels = 2
  CanUnbind = FALSE
  CanCrash = TRUE
SPECIFICATION Spec
SYMMETRY Symmetry
INVARIANTS TypeOK OpenBounded ResultOwed
PROPERTIES NeverRunsAgain
CHECK_DEADLOCK FALSE
