\* Slots in two bitmap bytes, so that a loaded byte is shared by several
\* slots and not every slot is in it; one client polls, one has a callback.
SPECIFICATION Spec
CONSTANTS
  NoCb = "none"
  NSlots = 3
  ByteWidth = 2
  Clients = {"polls", "calls"}
  CbClients = {"calls"}
  MaxTicks = 2
INVARIANT ReleasedIsFree
CHECK_DEADLOCK FALSE
