SPECIFICATION FairSpec
CONSTANTS
  k1 = k1
  k2 = k2
  Samples = {k1, k2}
  NoMsg = NoMsg
  QinMax = 2
  QoutMax = 1
  MaxCommit = 2
  StatementFaults = {}
  CommitFaults = {"busy"}
  MaxFaults = 2
  MaxCaptures = 3
  MaxCrashes = 0
  MaxStops = 1
PROPERTIES
  CapturedIsPersisted
  ReportIsRecorded
  CommitIsRetried
  ShutdownHonoured
