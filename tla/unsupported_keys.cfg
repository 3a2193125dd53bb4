SPECIFICATION CSpec
CONSTANTS
  Keys = {k1, k2, nan}
  Vals = {v1, v2}
  Unsupported = {nan}
  MaxStray = 4
  Capacities = {0, 1, 2}
INVARIANTS ArenaCoherent StorageBounded ServesLatest
