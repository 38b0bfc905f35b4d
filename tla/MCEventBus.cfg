CONSTANTS
  staff = staff
  session = session
  cashier = cashier
  diner = diner
  inApp = inApp
  order1 = order1
  sale1 = sale1
  sale2 = sale2
  Facts = {order1, sale1, sale2}
  NoticeChannels = {inApp}
  Push = push
  Enabled <- EnabledFor
  Devices = {phone, laptop}
  Limit = 1
  MaxPurged = 1
  None = none
  Clients = {cashier, diner}
  Channels = {staff, session}
  Listens <- MCListens
  Announced <- MCAnnounced
  QueueSize = 1
  ReplayMax = 2
  MaxLen = 1
  MaxEvents = 3
SPECIFICATION MCSpec
INVARIANTS
  SubscribersHaveReader
  NoHole
PROPERTIES
  InOrderOnce
  NoticesReach
SYMMETRY Symmetry
CHECK_DEADLOCK FALSE
