SPECIFICATION Spec
CONSTANTS
  Programs = {"mqtt", "amqp"}
  Feeds <- OneFeed
  MaxDups = 1
  MaxKills = 1
  MaxOutages = 0
  MaxFaults = 0
CHECK_DEADLOCK FALSE
INVARIANTS
  StateSurvivesRestart
