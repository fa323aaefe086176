SPECIFICATION Spec
CONSTANTS
  i1 = i1
  i2 = i2
  None = None
  Procs = {p1, p2}
  Units = {1, 2}
  Incidents = {i1, i2}
  Dispatches = {d1, d2}
  Severity <- MCSeverity
  Ops = {"reserve", "optimistic", "advance", "reroute", "preempt", "patch", "override", "crash"}
  MaxManual = 1
SYMMETRY Symmetry
INVARIANTS
  TypeOK
  NoDoubleBooking
  OutboxAgrees
PROPERTIES
  TakesOnlyAvailable
  Lifecycle
  ImplementsFleet
CHECK_DEADLOCK FALSE
