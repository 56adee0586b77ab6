SPECIFICATION Spec
CONSTANTS
  i1 = i1
  i2 = i2
  Items = {i1, i2}
  Content <- MCContent
  Configs <- MCConfigs
  Retries = {0, 1, 2}
INVARIANTS
  TypeOK
  AnchoredAccepted
  SettledOnce
  RetriesExhausted
  ItemsVerify
PROPERTIES
  UploadsEnd
CHECK_DEADLOCK FALSE
