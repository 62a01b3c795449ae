CONSTANTS
  N = 3
  Always = {2}
  Queued = {3}
  MaxDelay = 3
  MaxInput = 1
  StoreBuffer = TRUE
SPECIFICATION Spec
INVARIANTS IrqCoherent
PROPERTIES ImplementsWalk
