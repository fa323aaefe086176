SPECIFICATION LimiterSpec
CONSTANTS
  g1 = g1
  g2 = g2
  r1 = r1
  r2 = r2
  Requests = {r1, r2}
  Gateways = {g1, g2}
  GatewayOf <- MCGatewayOf
  Skew <- NoSkew
  MaxSkew = 0
  BurstSize = 2
  Margin = 1
  MaxClock = 6
  MaxRestarts = 0
  MaxUnmetered = 0
  MaxRewound = 4
INVARIANTS
  GlobalLimit
CHECK_DEADLOCK FALSE
