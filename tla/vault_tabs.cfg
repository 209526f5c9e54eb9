CONSTANTS
  Vaults = {v1, v2}
  HasLock = TRUE
  MaxSignIns = 1
  MaxRefreshes = 2
  MaxSignOuts = 1
  MaxRestores = 0
  MaxLosses = 1
  MaxCloses = 1
  CanLapse = TRUE
  CanTarry = TRUE
  CanExpire = FALSE
  CanLoseKey = FALSE
SPECIFICATION FairSpec
INVARIANTS SignedOutStaysOut ReuseNeedsLoss KeptIsUsable
PROPERTIES SpendingEndsSession CallsEnd
CHECK_DEADLOCK FALSE
