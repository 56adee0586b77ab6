SPECIFICATION Spec
CONSTANTS
  e1 = e1
  e2 = e2
  e3 = e3
  Events = {e1, e2, e3}
  Bytes = {e1, e2}
  Malformed = {}
  Options <- SafetyOptions
  MaxFlushCalls = 1
  MaxReceipts = 3
INVARIANTS
  TypeOK
  FlushedSettled
  TriggersHold
  ReceiptSound
  RetentionGate
  ChainKeepsOrder
  RecoveryIndex
  ReceiptsOnChain
  BundlesVerify
CHECK_DEADLOCK FALSE
