SPECIFICATION StreamsSpec
CONSTANTS
  Keys = {1}
  Displays = {1, 2}
  Layouts = {1, 2}
  MaxChanges = 1
  MaxSelections = 1
  MaxInputs = 3
  MaxBlocks = 1
  Classes = {1, 2}
  MaxRefusals = 4
  MaxSerial = 15
  Screens = {s1, s2}
  Choices = 3
  Assemblies = 2
  ScreenChanges = 1
  Configurations = 1
  PathSwitches = 0
  Congestions = 1
INVARIANT InputOfItsEpoch
INVARIANT RestrictionIsTrue
INVARIANT ConfigurationAgrees
PROPERTY EpochsKeptApart
PROPERTY OldestFirst
PROPERTY Decodable
CHECK_DEADLOCK FALSE
