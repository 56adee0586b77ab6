SPECIFICATION Spec
CONSTANTS
  r1 = r1
  r2 = r2
  r3 = r3
  r4 = r4
  Outer = Outer
  NoRun = NoRun
  Runs = {r1, r2, r3, r4}
  Forests <- Trees
  Retrievers = {r3, r4}
INVARIANTS
  TypeOK
  ChainsRestartOnce
  RootsTrue
  MapsBounded
PROPERTIES
  ImplementsEventChains
CHECK_DEADLOCK FALSE
