CONSTANTS
  Levels = {0, 12, 13, 14}
  DeviceLevels = {12, 13}
  Sources = {1, 3, 6, 7}
  Devs = {1, 2, 3, 4}
  LevelOf <- MCLevelOf
SPECIFICATION MSpec
INVARIANTS LinePreempts
PROPERTIES RequestServed
