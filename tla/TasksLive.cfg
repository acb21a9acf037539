SPECIFICATION LiveSpec
CONSTANTS
  MaxCommands = 2
  MaxWorkers = 4
  MaxEndings = 1
  Nothing = Nothing
  Foreign = Foreign
  Junk = Junk
PROPERTY TransfersEnd
PROPERTY CancelReachesPeer
PROPERTY CommandsEnd
CHECK_DEADLOCK FALSE
