CONSTANTS
  Vaults = {v1}
  HasLock = FALSE
  MaxSignIns = 2
  MaxRefreshes = 2
  MaxSignOuts = 1
  MaxRestores = 1
  MaxLosses = 1
  MaxCloses = 0
  CanLapse = FALSE
  CanTarry = TRUE
  CanExpire = TRUE
  CanLoseKey = TRUE
SPECIFICATION Spec
INVARIANTS QuietAgrees
PROPERTIES StoreNeverGoesBack ClearedWithCause AnswersStand
CHECK_DEADLOCK FALSE
