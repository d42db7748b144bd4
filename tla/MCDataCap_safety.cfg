SPECIFICATION Spec
CONSTANTS
  Lines = {"RA"}
  MIN_INTERVAL = 2
  Word = 64
  QinMax = 2
  TestModes = {FALSE, TRUE}
  Prompt = FALSE
  MaxTime = 4
  MaxClock = 6
  MaxFalls = 4
  MaxSteps = 1
  MaxRestarts = 1
  MaxSignals = 1
CHECK_DEADLOCK FALSE
INVARIANTS
  TypeOK
  NoPhantomPulse
  RateBounded
