SPECIFICATION BridgeSpec
CONSTANTS
  Nd5000s = {c1, c2}
  Processes = {p1, p2}
  Nobody = Nobody
  DeferredMax = 1
  MaxMessages = 6
  MaxKicks = 1
  FirstCpus = {c1}
  FirstProcesses = {p1}
  LiveResets = TRUE
INVARIANTS NoWaitCycle
CHECK_DEADLOCK FALSE
