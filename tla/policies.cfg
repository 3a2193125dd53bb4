SPECIFICATION HSpec
CONSTANTS
  Keys = {k1, k2, k3, k4}
  Vals = {v1, v2}
  Policies = {"Lru", "Lfu", "Fifo", "Arc"}
  Capacities = {0, 1, 2, 3}
  Disciplined = {"Arc"}
  MaxFreq = 3
INVARIANTS TypeOK LfuConsistent ArcPartition
PROPERTIES ImplementsBoundedCache LruVictim FifoVictim LfuVictimRule ArcScanResistant
