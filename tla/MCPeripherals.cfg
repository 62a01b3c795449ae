SPECIFICATION Spec
CONSTANTS
  QueueSize = 2
  KeyNumbers = 4
  CharTicks = 2
  WriteTicks = 2
  MaxWrites = 2
  SharedQueues = {TRUE, FALSE}
  Period = 3
  Division = 2
  Backlog = 2
  BatchNs = 2
  BatchMax = 2
  MaxGap = 12
  TapeLengths = {1}
  TapeCapacity = 1
  MaxPunched = 3
  MaxPunching = 2
  PunchTicks = 2
  HostTimes = {36000, 41400, 45000, 126000, 133200}
  DisplaySize = 3
  WrittenBytes = {0, 255}
INVARIANTS OwnKeysInOrder InterruptsCoherent RtcBacklogBounded
PROPERTIES KeyArrives RtcPulseComes
