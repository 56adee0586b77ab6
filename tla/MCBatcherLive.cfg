SPECIFICATION FairSpec
CONSTANTS
  e1 = e1
  e2 = e2
  e3 = e3
  Events = {e1, e2, e3}
  Bytes = {e1}
  Malformed = {e2}
  Options <- LiveOptions
  MaxFlushCalls = 0
PROPERTIES
  EverySettles
  CloseReturns
  ImplementsNotary
  ImplementsAnchorer
CHECK_DEADLOCK FALSE
