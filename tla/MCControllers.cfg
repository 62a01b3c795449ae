SPECIFICATION Spec
CONSTANTS
  SmdUnits = {u0, u1}
  SmdPending = 2
  SearchTicks = 2
  HdPending = 2
  SurfaceSizes = {0, 3, 4}
  SectorWords = 2
  MaxSector = 3
  MaxCount = 4
  HdModulus = 16
  FlPending = 2
  WatchChunks = 2
  DataBytes = 2
  CommandBytes = 2
  ScsiRare = {}
  RingSize = 3
  HostRing = 2
  LanceQueue = 1
  FrameBuffers = 2
  MaxFrames = 3
  EthRare = {}
  RxBlocks = 3
  MaxRxFrames = 4
  MaxRxBuf = 2
  MaxTxLists = 2
  HdlcRare = {}
INVARIANTS OperationsEnd InterruptsTold WithinSurface DataInOrder LinksSound
PROPERTIES OperationsOver
