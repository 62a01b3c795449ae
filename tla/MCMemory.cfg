SPECIFICATION Spec
CONSTANTS
  Pages = 1
  PageWords = 16
  Tables4 = 2
  Tables16 = 4
  Entries <- MmEntries
  MaxStored = 2
  MemoryPages = 2
  PCRs <- MmPCRs
  MaxErrors = 3
  MemSize = 8
  BankMax = 4
  Words = 12
  Cards = {c1, c2}
  WindowSize = 2
  SharedStart = 10
  SharedSize = 2
  OtherCpus = {o1, o2}
  BpThreads = {TRUE, FALSE}
  PCs = {0, 1}
  WatchAddrs = {1, 2, 3}
  BpKinds <- BpKindSet
  MatchMax = 2
  MaxBreakpoints = 3
  WatchKinds <- WatchKindSet
  MaxWatchpoints = 2
  PageOf <- Half
  SkipHits = 1
INVARIANTS ShadowInBounds WrittenIsMarked BanksConsistent SemaphoreOwned FiltersComplete HitsAlive
PROPERTIES LowRingsKeepTables BusComesBack
