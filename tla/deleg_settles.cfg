CONSTANTS
  Nodes = {n1}
  MaxOpen = 1
  MaxChannels = 2
  CanUnbind = TRUE
  CanGiveUp = FALSE
  CanLeave = TRUE
  CanCrashGiver = TRUE
  CanCrashWorker = FALSE
  CanRefuse = FALSE
  CanRefuseSend = FALSE
  CanCancel = TRUE
  CanStop = TRUE
SPECIFICATION FairSpec
PROPERTIES  StopReaches OwesNoMore UnlinkIsHeard
CHECK_DEADLOCK FALSE
