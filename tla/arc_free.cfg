SPECIFICATION Spec
CONSTANTS
  Keys = {k1, k2, k3, k4}
  Vals = {v1}
  Policies = {"Arc"}
  Capacities = {1, 2, 3}
  Disciplined = {}
  MaxFreq = 1
INVARIANTS TypeOK ArcBounded
