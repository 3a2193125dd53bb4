SPECIFICATION ASpec
CONSTANTS
  Threads = {t1, t2}
  Keys = {k1, k2}
  Policies = {"Lru", "Lfu", "Fifo"}
  Capacities = {0, 1, 2}
  Ttls = { {}, {0}, {1} }
  Responsive = {}
  MaxCalls = 4
  MaxVersion = 1
  MaxTime = 2
INVARIANTS AccountedOnce
PROPERTIES RefreshOverwrites
