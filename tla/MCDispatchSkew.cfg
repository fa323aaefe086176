SPECIFICATION Spec
CONSTANTS
  i1 = i1
  i2 = i2
  None = None
  Procs = {p1, p2}
  Units = {1, 2}
  Incidents = {i1, i2}
  Dispatches = {d1, d2}
  Severity <- MCSeverity
  Ops = {"reserve", "advance"}
  MaxManual = 0
SYMMETRY Symmetry
INVARIANTS
  NobodyForgotten
CHECK_DEADLOCK FALSE
