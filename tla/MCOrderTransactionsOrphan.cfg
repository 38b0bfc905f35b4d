CONSTANTS
  o1 = o1
  l1 = l1
  l2 = l2
  l3 = l3
  a1 = a1
  NoOrder = NoOrder
  NoAttempt = NoAttempt
  Orders = {o1}
  Lines = {l1, l2}
  Attempts = {a1}
  Ingredients = {cheese}
  Recipe <- MCRecipe
  Stock0 <- MCStock0
  OldLine <- NoOldLine
  OldAttempt <- NoOldAttempt
  Requests = {r1, r2}
  Handlers = {"approve", "cancel"}
SPECIFICATION TxSpec
INVARIANTS
  NoOrphanSale
CHECK_DEADLOCK FALSE
