SPECIFICATION Spec
CONSTANTS
  Offers <- SharingOffers
  MaxCrashes = 2
  MaxLines = 4
INVARIANTS
  TypeOK
  RetainedBytes
  CrashKeepsTrace
  LedgerEnumerated
CHECK_DEADLOCK FALSE
