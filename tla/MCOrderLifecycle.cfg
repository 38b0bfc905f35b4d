CONSTANTS
  o1 = o1
  o2 = o2
  l1 = l1
  l2 = l2
  l3 = l3
  a1 = a1
  a2 = a2
  a3 = a3
  cheese = cheese
  NoOrder = NoOrder
  Orders = {o1, o2}
  Lines = {l1, l2, l3}
  Attempts = {a1, a2, a3}
  Ingredients = {cheese}
  Recipe <- MCRecipe
  Stock0 <- MCStock0
  OldLine <- WithOldLine
  OldAttempt <- WithOldAttempt
SPECIFICATION Spec
INVARIANTS
  OneChargePerLine
  ConfirmedIsPaid
  IInv
PROPERTIES
  TerminalIsFinal
CONSTRAINT SomeOrderOpen
SYMMETRY Symmetry
CHECK_DEADLOCK FALSE
