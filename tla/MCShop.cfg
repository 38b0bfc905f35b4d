CONSTANTS
  a = a
  b = b
  cone = cone
  cup = cup
  milk = milk
  fruit = fruit
  toppings = toppings
  nata = nata
  fresa = fresa
  Requests = {a, b}
  Sizes = {1, 2, 3}
  Forms <- MCForms
  MaxRows = 3
  Items = {milk}
  NoItem = NoItem
  Groups = {toppings}
  Options = {nata, fresa}
  GroupOf <- MCGroupOf
  Cups = {cup}
  LinkSets <- MCLinkSets
  OptionPrices = {0, 1}
  Quantities = {0, 1}
  Caps = {0, 1}
  Units = {0, 1, 2}
  Strict = FALSE
  EditsAlone = {"close", "reprice"}
  Promos = {a, b}
  Products = {cone, cup}
  ProductOf <- MCProductOf
  Prices = {5, 7}
  Windows <- MCWindows
  RuleSets <- MCRuleSets
  Carts <- MCCarts
  HoursPerDay = 3
  Offset = 1
  MaxTime = 5
SPECIFICATION MCSpec
INVARIANTS
  OneRulePerVariant
  DiscountAddsUp
  NoBetterGrouping
  MenuIsCharged
  SavedAsListed
  OfferedAsRuled
  PouredAsForeseen
CONSTRAINT Few
SYMMETRY Symmetry
VIEW View
