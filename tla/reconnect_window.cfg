CONSTANTS
  Work = {w1, w2}
  Lifetime = 2
  MaxEntries = 2
  CanExpire = TRUE
  CanDrop = TRUE
  CanConnect = FALSE
  CanRefuse = TRUE
  CanUnlink = TRUE
  CanLeave = TRUE
  CanCrash = FALSE
SPECIFICATION Spec
PROPERTY GivesUpLate
SYMMETRY Symmetry
CHECK_DEADLOCK FALSE
