CONSTANTS
  staff = staff
  session = session
  cashier = cashier
  r1 = r1
  r2 = r2
  display = display
  Items = {1}
  Screens = {display}
  Staff = {display}
  Requests = {r1, r2}
SPECIFICATION MCSpec
INVARIANTS
  AnnouncedIsCommitted
PROPERTIES
  Arrives
  ShowsTheTruth
  HealsInTheEnd
CHECK_DEADLOCK FALSE
