SPECIFICATION ApplicationsSpec
CONSTANTS
  Devices = {d1, d2}
  NoDevice = none
  MaxCommands = 3
  MaxRetries = 1
  HostCommands = 3
  HostWorkers = 6
  HostEndings = 1
  EndStreams = 3
  EndClicks = 2
  AccountUsers = {1, 2}
  AccountSessions = 3
  AccountOps = 3
  AccountFaults = 1
  AccountCrashes = 1
 
INVARIANT HostKeepsPause
INVARIANT AccountKept
PROPERTY AccountOwned
CHECK_DEADLOCK FALSE
