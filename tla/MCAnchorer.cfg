SPECIFICATION Spec
CONSTANTS
  c1 = c1
  c2 = c2
  c3 = c3
  b1 = b1
  b2 = b2
  k1 = k1
  k2 = k2
  NoChain = NoChain
  Calls = {c1, c2, c3}
  Batchers = {b1}
  Chains = {k1, k2}
  ChainOf <- SharedAndSole
  Kind <- Kinds
  Options <- BothModes
  MaxCheckpoints = 2
SYMMETRY Alike
CONSTRAINT FewRecords
INVARIANTS
  TypeOK
  LinksStayOnChain
  HeadsStayOnChain
  ReceiptsTrue
PROPERTIES
  SoleWriterLinear
CHECK_DEADLOCK FALSE
