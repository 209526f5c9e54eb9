CONSTANTS
  Windows = {w1, w2}
  SharedTexts = {s1, s2}
  Bodies = {b1}
  Absent = Absent
  Broken = Broken
  MaxEdits = 2
  MaxOutside = 1
  MaxFaults = 2
SPECIFICATION Spec
INVARIANTS EditsKept  RevNamesList
PROPERTY WholeWrites
SYMMETRY Symmetry
CHECK_DEADLOCK FALSE
