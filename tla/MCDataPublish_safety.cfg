SPECIFICATION Spec
CONSTANTS
  k1 = k1
  k2 = k2
  Samples = {k1, k2}
  NoMsg = NoMsg
  QinMax = 1
  QoutMax = 2
  EnableAmqp = TRUE
  MaxTimers = 3
  MaxFed = 2
  AmqpOutages = 2
  MqttOutages = 1
  MaxLosses = 1
  MaxStops = 1
  MaxCrashes = 1
SYMMETRY Symmetry
INVARIANTS
  ContextNotShared
  RetryIsPending
  ReportedIsAcked
  FaultOnlyAtExit
PROPERTY
  IsPublisher
