SPECIFICATION FairSpec
CONSTANTS
  s1 = s1
  s2 = s2
  None = None
  Procs = {p1, p2}
  Replicas = {r1}
  Victims = {v1, v2}
  Shelters = {s1, s2}
  Capacity <- MCCapacity
  RedisFails = TRUE
  MaxToggles = 1
INVARIANTS
  TypeOK
  NoOverflow
  OccupancyExact
  AnnouncedExactly
  StaleExplained
PROPERTIES
  ClosedAdmitsNobody
  Converges
  ImplementsLedger
CHECK_DEADLOCK FALSE
