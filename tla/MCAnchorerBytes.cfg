SPECIFICATION Spec
CONSTANTS
  c1 = c1
  c2 = c2
  c3 = c3
  b1 = b1
  b2 = b2
  k1 = k1
  k2 = k2
  NoChain = NoChain
  Calls = {c1}
  Batchers = {}
  Chains = {k1}
  ChainOf <- Alone
  Kind <- InMemory
  Options <- StrictOptions
  MaxCheckpoints = 2
INVARIANTS
  StoredIsHashed
CHECK_DEADLOCK FALSE
