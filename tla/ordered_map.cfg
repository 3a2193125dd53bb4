SPECIFICATION Spec
CONSTANTS
  Keys = {k1, k2, k3}
  Vals = {v1, v2}
  Unsupported = {}
  MaxStray = 0
INVARIANTS ArenaCoherent
PROPERTIES GrowsOnlyWhenFull ImplementsRecencyOrder
