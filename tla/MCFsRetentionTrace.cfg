SPECIFICATION Spec
CONSTANTS
  Offers <- SharingOffers
  MaxCrashes = 2
  MaxLines = 4
INVARIANTS
  TraceReads
CHECK_DEADLOCK FALSE
