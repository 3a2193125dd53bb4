SPECIFICATION ASpec
CONSTANTS
  Threads = {t1}
  Keys = {k1, k2, k3}
  Policies = {"Lfu"}
  Capacities = {2}
  Ttls = { {1} }
  Responsive = {}
  MaxCalls = 5
  MaxVersion = 0
  MaxTime = 1
PROPERTIES VictimHasFewestHits
