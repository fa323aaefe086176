SPECIFICATION FairSpec
CONSTANTS
  i1 = i1
  i2 = i2
  None = None
  Procs = {p1, p2}
  Units = {1, 2}
  Incidents = {i1, i2}
  Dispatches = {d1, d2}
  Severity <- MCSeverity
  Ops = {"reserve", "optimistic", "advance", "reroute", "preempt", "override"}
  MaxManual = 1
PROPERTIES
  RequestsEnd
CHECK_DEADLOCK FALSE
