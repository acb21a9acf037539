SPECIFICATION LiveSpec
CONSTANTS
  Capacity = 2
  MaxChanges = 1
  MaxVersion = 1
  MaxSwitches = 0
  MaxCongestions = 0
PROPERTY SentArrives
PROPERTY PeersAreServed
PROPERTY PathsSettle
PROPERTY VideoRecovers
PROPERTY InputReopens
CHECK_DEADLOCK FALSE
