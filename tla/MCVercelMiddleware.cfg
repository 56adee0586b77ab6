SPECIFICATION Spec
CONSTANTS
  c1 = c1
  c2 = c2
  c3 = c3
  k1 = k1
  k2 = k2
  k3 = k3
  Calls = {c1, c2, c3}
  Keys = {k1, k2, k3}
  Limits = {0, 1, 2}
INVARIANTS
  TypeOK
  OnlyIdleForgotten
  OneEnd
PROPERTIES
  ImplementsEventChains
CHECK_DEADLOCK FALSE
SYMMETRY Symmetry
