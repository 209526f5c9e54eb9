CONSTANTS
  Work = {w1, w2}
  Lifetime = 1
  MaxEntries = 2
  CanExpire = FALSE
  CanDrop = TRUE
  CanConnect = FALSE
  CanRefuse = TRUE
  CanUnlink = TRUE
  CanLeave = FALSE
  CanCrash = TRUE
SPECIFICATION FairSpec
PROPERTY WorkEnds
CHECK_DEADLOCK FALSE
