CONSTANTS
  N = 3
  Always = {1}
  Queued = {2, 3}
  MaxDelay = 1
  MaxInput = 1
  StoreBuffer = FALSE
SPECIFICATION Spec
INVARIANTS NoRequestLost
PROPERTIES InputServed
