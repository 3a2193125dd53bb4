SPECIFICATION FairRSpec
CONSTANTS
  Threads = {t1, t2}
  Keys = {k1, k2}
  Policies = {"Lru"}
  Capacities = {0, 1}
  Ttls = { {} }
  Responsive = {t2}
  MaxCalls = 3
  MaxVersion = 1
  MaxTime = 0
  U64Max = 3
INVARIANTS StatsOwedToMisses LookupsCurrent
PROPERTIES SearchReturns StatsReturns
