SPECIFICATION Spec
CONSTANTS
  k1 = k1
  k2 = k2
  Samples = {k1, k2}
  NoMsg = NoMsg
  QinMax = 1
  QoutMax = 2
  EnableAmqp = TRUE
  MaxTimers = 2
  MaxFed = 1
  AmqpOutages = 0
  MqttOutages = 1
  MaxLosses = 1
  MaxStops = 0
  MaxCrashes = 0
PROPERTY
  EveryAttemptAnswered
