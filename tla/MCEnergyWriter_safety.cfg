SPECIFICATION FairSpec
CONSTANTS
  Programs = {"mqtt", "amqp"}
  Feeds <- SmallFeeds
  MaxDups = 1
  MaxKills = 2
  MaxOutages = 1
  MaxFaults = 1
CHECK_DEADLOCK FALSE
INVARIANTS
  TotalsAreBounded
  EventsAccountedFor
  PowerOfTwoEvents
PROPERTIES
  RetainedNeverFalls
  TotalIsRetained
  FeedResumes
