SPECIFICATION FairSpec
CONSTANTS
  MaxEvents = 4
  MaxOutages = 2
  MaxStops = 1
CHECK_DEADLOCK FALSE
INVARIANTS
  StoredInOrder
  NothingIsLost
PROPERTY
  BacklogIsStored
