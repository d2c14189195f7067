SPECIFICATION FairSpec
CONSTANTS
  Bikes <- MCBikes
  Records <- MCRecords
  MaxEvents = 3
INVARIANTS TypeOK 
PROPERTIES ShippingHolds Settles
CHECK_DEADLOCK FALSE
