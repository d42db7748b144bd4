SPECIFICATION FairSpec
CONSTANTS
  Modes = {TRUE, FALSE}
  Feeds <- SmallFeeds
  Hour = 1
  MaxTroubles = 1
CHECK_DEADLOCK FALSE
INVARIANTS
  EndsOnlyInWindow
  PowerOfTwoPulses
PROPERTIES
  ScreenOnlyAdvances
  PulseIsShown
  SessionResumes
  PageJoins
