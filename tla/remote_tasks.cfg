CONSTANTS
  Nodes = {n1}
  CanGiveUp = TRUE
  CanLeave = TRUE
  CanCrash = TRUE
SPECIFICATION Spec
INVARIANTS TypeOK OpenIsOwed AckedIsSettled
 
CHECK_DEADLOCK FALSE
