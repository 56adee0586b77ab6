SPECIFICATION Spec
CONSTANTS
  c1 = c1
  c2 = c2
  c3 = c3
  b1 = b1
  b2 = b2
  k1 = k1
  k2 = k2
  NoChain = NoChain
  Calls = {}
  Batchers = {b1, b2}
  Chains = {k1}
  ChainOf <- SameName
  Kind <- NoKinds
  Options <- StrictOptions
  MaxCheckpoints = 2
PROPERTIES
  ChainsLinear
CHECK_DEADLOCK FALSE
