SPECIFICATION CallerSpec
CONSTANTS
  Ids = {i1, i2, i3}
  Vectors <- ExampleVectors
  Dims = {0, 1}
  Ks = {2, 4}
  Policies = {"Lru"}
  Capacities = {0, 2}
  MaxRows = 3
INVARIANTS TypeOK Fresh NearestFirst
PROPERTIES NeverMisled
