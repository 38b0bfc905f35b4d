CONSTANTS
  r1 = r1
  r2 = r2
  none = none
  flavour = flavour
  mint = mint
  NoItem = NoItem
  bare = bare
  full = full
  p1 = p1
  c1 = c1
  noPrefix = noPrefix
  own = own
  ana = ana
  bea = bea
  carl = carl
  cash = cash
  card = card
  prod1 = prod1
  prod2 = prod2
  k1 = k1
  k2 = k2
  k3 = k3
  url = url
  l1 = l1
  l2 = l2
  number = number
  qr = qr
  blank = blank
  filled = filled
  file = file
  q1 = q1
  q2 = q2
  q3 = q3
  Items = {1, 2}
  Lines = {1, 2}
  Purchases = {p1}
  Requests = {r1, r2}
  Configs = {bare, full}
  Need <- MCNeed
  Sellable <- MCSellable
  Batches <- MCBatches
  Amounts <- MCAmounts
  Stock0 <- MCStock0
  Alone = {"buy", "receive"}
  MaxEdits = 1
  MaxManual = 1
  Clerks = {r1, r2}
  Null = none
  Registers = {c1}
  Shifts = {1, 2}
  InvoicePrefixes = {noPrefix, own}
  Openings = {1}
  Moves <- MCMoves
  Counts = {3}
  Accounts <- MCAccounts
  DeskAlone = {"close"}
  MaxSales = 2
  MaxOrders = 2
  MaxMoves = 1
  Emails = {ana, bea, carl}
  Founder = ana
  Methods = {cash, card}
  MaxTables = 2
  MaxSent = 2
  Plans <- MCPlans
  TenantAlone = {"manage", "off", "plan"}
  Rows = {prod1, prod2}
  Keys = {k1, k2, k3}
  Foreign = {url}
  Forms = {"key", "url"}
  ImagesAlone = {"rewrite", "script"}
  Links = {l1, l2}
  Logins = {q1, q2, q3}
  Life = 3
  AccessLife = 4
  RefreshLife = 6
  MaxTime = 4
  Fields = {number, qr}
  Images = {qr}
  Values <- MCValues
  Blank = blank
  Rules <- MCRules
  FieldsAlone = {"info"}
  MaxCatalogEdits = 1
SPECIFICATION MCSpec
INVARIANTS
  KardexExplainsStock
  OrdersAreAccounted
  OrderedLocksNoCircle
  NumberedInOrder
  DrawerAddsUp
  TenantIsUsable
  ReferencedIsStored
PROPERTIES
  WithinPlan
  CredentialsHold
SYMMETRY Symmetry
VIEW View
CHECK_DEADLOCK FALSE
