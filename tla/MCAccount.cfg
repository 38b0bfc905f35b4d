CONSTANTS
  ana = ana
  luis = luis
  topping = topping
  side = side
  o1 = o1
  o2 = o2
  Diners = {ana, luis}
  Guests = {ana}
  Orders = {o1, o2}
  Lines = {1, 2, 3}
  Price <- MCPrice
  Options = {topping, side}
  Extra <- MCExtra
  Surcharge = {side}
  Menu <- MCMenu
  RulesAt <- MCRulesAt
  Quantities = {2}
  MaxCart = 2
SPECIFICATION Spec
INVARIANTS
  ShownIsCharged
  EveryUnitChargedOnce
  SplitKeepsTheBill
SYMMETRY Symmetry
CONSTRAINT Short
CHECK_DEADLOCK FALSE
