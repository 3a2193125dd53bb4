SPECIFICATION Spec
CONSTANTS
  Threads = {t1}
  Keys = {k1, k2}
  Policies = {"Arc"}
  Capacities = {2}
  Ttls = { {1} }
  Responsive = {}
  MaxCalls = 3
  MaxVersion = 1
  MaxTime = 2
PROPERTIES RefreshOverwrites
