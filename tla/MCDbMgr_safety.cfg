SPECIFICATION Spec
CONSTANTS
  k1 = k1
  k2 = k2
  k3 = k3
  Samples = {k1, k2, k3}
  NoMsg = NoMsg
  QinMax = 2
  QoutMax = 1
  MaxCommit = 3
  StatementFaults = {"busy", "full"}
  CommitFaults = {"busy", "full"}
  MaxFaults = 2
  MaxCaptures = 3
  MaxCrashes = 1
  MaxStops = 1
SYMMETRY Symmetry
INVARIANTS
  TypeOK
  DeliveredIsAcked
  CountTracksTransaction
  AtRiskBounded
  ForwardedIsStored
PROPERTIES
  RefinesSampleStore
  HonoursContract
