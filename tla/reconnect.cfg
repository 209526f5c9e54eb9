CONSTANTS
  Work = {w1, w2}
  Lifetime = 1
  MaxEntries = 2
  CanExpire = FALSE
  CanDrop = TRUE
  CanConnect = TRUE
  CanRefuse = TRUE
  CanUnlink = TRUE
  CanLeave = TRUE
  CanCrash = FALSE
SPECIFICATION Spec
INVARIANTS TypeOK ReconnectOwed OneReconnect
SYMMETRY Symmetry
CHECK_DEADLOCK FALSE
