CONSTANTS
  Calls = {c1}
  MaxEnds = 2
  MaxLoose = 2
  CanRefuse = TRUE
  CanMeddle = TRUE
SPECIFICATION FairSpec
INVARIANTS TypeOK OffIsGuarded HeldIsWanted MarkerMeans
PROPERTY SleepReturns
CHECK_DEADLOCK FALSE
