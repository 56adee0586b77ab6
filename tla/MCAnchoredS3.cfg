SPECIFICATION S3Spec
CONSTANTS
  p1 = p1
  p2 = p2
  object = object
  sidecar = sidecar
  beyond = beyond
  NoChain = NoChain
  NoName = NoName
  Names = {object, sidecar, beyond}
  Calls = {p1, p2}
  Puts = {p1, p2}
  Batchers = {}
  Chains = {}
  ChainOf <- Unchained
  Kind <- Bodies
  Options <- S3Options
  MaxCheckpoints = 0
  SidecarOf <- Sidecars
INVARIANTS
  S3TypeOK
  SidecarsAnchored
  ObjectsVerify
CHECK_DEADLOCK FALSE
