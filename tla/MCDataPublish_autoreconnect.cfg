SPECIFICATION FairSpec
CONSTANTS
  k1 = k1
  k2 = k2
  Samples = {k1, k2}
  NoMsg = NoMsg
  QinMax = 1
  QoutMax = 2
  EnableAmqp = FALSE
  MaxTimers = 1
  MaxFed = 1
  AmqpOutages = 0
  MqttOutages = 1
  MaxLosses = 0
  MaxStops = 0
  MaxCrashes = 0
PROPERTY
  AutoReconnect
