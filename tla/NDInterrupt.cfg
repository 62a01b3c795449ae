CONSTANTS
  Levels = {0, 14, 15}
  DeviceLevels = {15}
  Sources = {1, 3, 5, 9}
SPECIFICATION Spec
INVARIANTS PriorityRule InternalPreempts NothingForgotten
PROPERTIES LevelFrozen ImplementsPriority
