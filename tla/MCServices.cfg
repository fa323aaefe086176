SPECIFICATION ServicesSpec
CONSTANTS
  g1 = g1
  g2 = g2
  q1 = q1
  q2 = q2
  b1 = b1
  b2 = b2
  b3 = b3
  p1 = p1
  p2 = p2
  t1 = t1
  t2 = t2
  e1 = e1
  e2 = e2
  e3 = e3
  admin = admin
  responder = responder
  manager = manager
  u1 = u1
  u2 = u2
  s1 = s1
  None = None
  NoReport = NoReport
  Unbound = Unbound
  Requests = {q1, q2}
  Gateways = {g1, g2}
  GatewayOf <- MCGatewayOf
  Skew <- MCSkew
  MaxSkew = 1
  BurstSize = 2
  Margin = 1
  MaxClock = 3
  MaxRestarts = 1
  MaxUnmetered = 1
  MaxRewound = 1
  Procs = {p1, p2}
  Transports = {t1, t2}
  Bookings = {b1, b2, b3}
  capacity <- MCCapacity
  Reports = {e1, e2, e3}
  Near <- MCNear
  Window = 2
  MaxChanges = 2
  Units <- MCUnits
  Dist <- MCDist
  RegDist <- MCRegDist
  UnitType <- MCUnitType
  TTL = 2
  Radius = 20000
  Limit <- MCLimit
  Needs <- MCNeeds
  Users = {admin, responder, manager}
  UnitIds = {u1, u2}
  Shelters = {s1}
  Demo <- MCDemo
  DemoUnit = u1
  DemoShelter = s1
  ExpiryHours = 2
  MaxTokens = 2
  MaxAssigns = 1
INVARIANTS
  TypesOK
  BudgetExplained
  SeatsExact
  LastAnnounced
  CountedOnce
  DuplicatesExplained
  NotOverlooked
  NeverStopped
  Undominated
  AsGiven
PROPERTIES
  ImplementsLedger
  Reindexed
  DemotionLands
  OnlyAges
CHECK_DEADLOCK FALSE
