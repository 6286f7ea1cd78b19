SPECIFICATION FairSpec
CONSTANTS
  HostIds = {a}
  Cmds = {c1}
  MaxInFlight = 1
  LogMax = 1
  MaxToggles = 2
  MaxLocks = 1
  MaxEnds = 1
PROPERTIES LockNeverWaits RevokedCommandEnds
CHECK_DEADLOCK FALSE
