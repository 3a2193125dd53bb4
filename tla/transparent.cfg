SPECIFICATION Spec
CONSTANTS
  Threads = {t1, t2}
  Keys = {k1, k2, k3}
  Policies = {"Lru", "Lfu", "Fifo", "Arc"}
  Capacities = {0, 1, 2}
  Ttls = { {}, {1} }
  Responsive = {}
  MaxCalls = 4
  MaxVersion = 1
  MaxTime = 1
INVARIANTS TypeOK NoStale EvictionLedger CapacityBound
PROPERTIES Transparent
