CONSTANTS
  Slice = 3
  PollEvery = 4
  Faults = TRUE
  LineSteps = TRUE
SPECIFICATION Spec
INVARIANTS ExclusiveCpu
PROPERTIES PauseAnswered StopReported
CHECK_DEADLOCK FALSE
