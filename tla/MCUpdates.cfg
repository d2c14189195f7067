\* Upsets, cuts and orders are bounded: a machine may come to its end.
SPECIFICATION AnySpec
CONSTANTS
  Values = {d, x, y}
  Default = d
  Torn = torn
  Restores = TRUE
  SingleFault = TRUE
  Packs <- MCPacks
  Blocks = 1
  Asks = 2
  Tries = 1
  MaxUpsets = 1
  Images = {"a", "b"}
  NPages = 2
  MaxCuts = 2
  MaxOrders = 5
  PackOrders = 2
  Alien = "x"
  NSlots = 2
  MaxSends = 2
INVARIANTS TypesOK PushedIsSound  
PROPERTIES  Implements ComesToRest
CHECK_DEADLOCK FALSE
