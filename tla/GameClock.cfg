CONSTANTS
  GameTime = 3
  StepTime = 2
  EndStepTime = 1
  TicksPerSecond = 2
  Start = 7
  MaxLag = 1
  MaxTime = 11
  MaxMoves = 5
SPECIFICATION ClockSpec
INVARIANTS ChargedFairly StepBounded
CHECK_DEADLOCK FALSE
