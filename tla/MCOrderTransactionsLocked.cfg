CONSTANTS
  o1 = o1
  l1 = l1
  l2 = l2
  l3 = l3
  a1 = a1
  NoOrder = NoOrder
  NoAttempt = NoAttempt
  Orders = {o1, o2}
  Lines = {l1, l2, l3}
  Attempts = {a1, a2}
  Ingredients = {cheese}
  Recipe <- EditedRecipe
  Stock0 <- EditedStock0
  OldLine <- WithOldLine
  OldAttempt <- WithOldAttempt
  Requests = {r1, r2}
  Handlers = {"checkout", "block", "approve", "reject"}
SPECIFICATION FairLockedSpec
CONSTRAINT Meets
INVARIANTS
  StockFollowsStatus
PROPERTIES
  Serializable
  EveryRequestEnds
  SettlesEveryLine
CHECK_DEADLOCK FALSE
