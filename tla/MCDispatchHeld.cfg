SPECIFICATION Spec
CONSTANTS
  i1 = i1
  i2 = i2
  None = None
  Procs = {p1, p2}
  Units = {1, 2, 3}
  Incidents = {i1, i2}
  Dispatches = {d1, d2, d3}
  Severity <- MCSeverity
  Ops = {"reserve", "optimistic", "advance", "reroute", "preempt"}
  MaxManual = 0
SYMMETRY Symmetry
INVARIANTS
  AvailableIffUnheld
  NoWaitCycle
PROPERTIES
  TerminalStays
CHECK_DEADLOCK FALSE
