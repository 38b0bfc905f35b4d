CONSTANTS
  None = None
  Tables = {t1, t2}
  Sessions = {s1, s2}
  Diners = {d1}
  Orders = {p1, p2}
  Requests = {r1, r2}
  Marks = {"libre"}
SPECIFICATION Spec
INVARIANTS
  OneActivePerTable
  OneLiveOrderPerDiner
PROPERTIES
  SettledAtClose
  ClosedIsEmptied
CONSTRAINTS
  TablesMeet
  NotAllOver
ACTION_CONSTRAINT SerialAcross
SYMMETRY Symmetry
CHECK_DEADLOCK FALSE
