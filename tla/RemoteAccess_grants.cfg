SPECIFICATION MCSpec
CONSTANTS
  HostIds = {a, b}
  Cmds = {c1, c2}
  MaxInFlight = 1
  LogMax = 1
  MaxToggles = 3
  MaxLocks = 1
  MaxEnds = 0
INVARIANTS LockedHasNoGrant NoStrayGrant AuditIsTrue CountsAreHonest
PROPERTY KeepsPromise
SYMMETRY Interchangeable
CHECK_DEADLOCK FALSE
