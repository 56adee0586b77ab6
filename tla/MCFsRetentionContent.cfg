SPECIFICATION Spec
CONSTANTS
  Offers <- SharingOffers
  MaxCrashes = 2
  MaxLines = 4
INVARIANTS
  AnchoredBytes
CHECK_DEADLOCK FALSE
