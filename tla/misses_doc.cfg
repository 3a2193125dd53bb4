SPECIFICATION ASpec
CONSTANTS
  Threads = {t1}
  Keys = {k1}
  Policies = {"Lru"}
  Capacities = {0, 1}
  Ttls = { {} }
  Responsive = {}
  MaxCalls = 2
  MaxVersion = 0
  MaxTime = 0
INVARIANTS MissesCountFallThrough
