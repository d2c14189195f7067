\* Events, faults and orders are bounded: a machine may come to its end.
SPECIFICATION AnySpec
CONSTANTS
  SessionKeys = {"a"}
  NoRecord = "x"
  NConns = 2
  Patience = 2
  LinkEvents = 4
  Phones = {"p", "q"}
  LastType = 1
  Sector = 4
  SlotCells = 8
  Chunk = 3
  Sizes = {5, 8, 9}
  PhoneActs = 3
  NBlocks = 6
  Wrap = 4
  MaxRetries = 2
  MaxResends = 2
  LineFaults = 3
  Keys = {"a", "b", "c"}
  Keyed = 2
  Page = 2
  Tries = 2
  FlashFaults = 2
  MaxOrders = 3
  Batches <- MCBatches
  Wear = {{}, {1}}
INVARIANTS TypeOK PhonesAreKnown 
PROPERTY ComesToRest
CHECK_DEADLOCK FALSE
