CONSTANTS
  Terminals = {1, 2}
  Menu = {2}
  Clients = {c1, c2}
  NoClient = NoClient
  MaxPending = 2
SPECIFICATION Spec
INVARIANTS OneThread CarrierPresent NoLeak
PROPERTIES StopEnds
CHECK_DEADLOCK FALSE
