CONSTANTS
  Nodes = {n1, n2}
  MaxOpen = 1
  MaxChannels = 2
  CanUnbind = FALSE
  CanGiveUp = FALSE
  CanLeave = FALSE
  CanCrashGiver = TRUE
  CanCrashWorker = TRUE
  CanRefuse = TRUE
  CanRefuseSend = FALSE
  CanCancel = FALSE
  CanStop = TRUE
SPECIFICATION Spec
INVARIANTS WordComes PlaceComes 
PROPERTY KeepsPromise
SYMMETRY Symmetry
CHECK_DEADLOCK FALSE
