CONSTANTS
  Writer = {w1, w2, w3}
  Payload = {p, q}
  NoWriter = NoWriter
  MaxId = 4
SPECIFICATION Spec
INVARIANTS
  ChainVerifies
  TamperingShows
  ReturnedIsStored
PROPERTIES
  GrowsAtTheEnd
  AppendsEnd
CHECK_DEADLOCK FALSE
