CONSTANTS
  Slice = 2
  PollEvery = 1
  Faults = FALSE
  LineSteps = FALSE
SPECIFICATION Spec
PROPERTIES KeyboardServed
CHECK_DEADLOCK FALSE
