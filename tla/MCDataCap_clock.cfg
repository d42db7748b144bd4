SPECIFICATION Spec
CONSTANTS
  Lines = {"RA"}
  MIN_INTERVAL = 2
  Word = 64
  QinMax = 6
  TestModes = {FALSE}
  Prompt = TRUE
  MaxTime = 10
  MaxClock = 12
  MaxFalls = 5
  MaxSteps = 2
  MaxRestarts = 0
  MaxSignals = 0
CHECK_DEADLOCK FALSE
INVARIANT
  ClockStepCostsOnePulse
