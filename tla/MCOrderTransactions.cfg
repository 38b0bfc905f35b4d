CONSTANTS
  o1 = o1
  l1 = l1
  l2 = l2
  l3 = l3
  a1 = a1
  NoOrder = NoOrder
  NoAttempt = NoAttempt
  Orders = {o1}
  Lines = {l1, l2}
  Attempts = {a1, a2}
  Ingredients = {cheese}
  Recipe <- MCRecipe
  Stock0 <- MCStock0
  OldLine <- NoOldLine
  OldAttempt <- NoOldAttempt
  Requests = {r1, r2}
  Handlers = {"checkout", "block", "approve", "reject", "pay", "close", "cancel", "void", "add", "kitchen", "attempt"}
SPECIFICATION TxSpec
PROPERTIES
  ResolvedOnce
SYMMETRY Symmetry
CHECK_DEADLOCK FALSE
