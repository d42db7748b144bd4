SPECIFICATION FairSpec
CONSTANTS
  k1 = k1
  Samples = {k1}
  NoMsg = NoMsg
  QinMax = 1
  QoutMax = 2
  EnableAmqp = TRUE
  MaxTimers = 3
  MaxFed = 2
  AmqpOutages = 1
  MqttOutages = 1
  MaxLosses = 1
  MaxStops = 1
  MaxCrashes = 0
PROPERTIES
  AmqpReconnects
  MqttReconnects
  MqttDelivers
  ShutdownHonoured
