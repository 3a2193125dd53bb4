SPECIFICATION SSpec
CONSTANTS
  Threads = {t1, t2}
  Keys = {k1}
  Policies = {"Lru", "Arc"}
  Capacities = {2}
  Ttls = { {0}, {1} }
  Responsive = {}
  MaxCalls = 3
  MaxVersion = 2
  MaxTime = 4
  MaxLag = 1
PROPERTIES StalenessBounded
