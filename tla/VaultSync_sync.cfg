SPECIFICATION MCFairSpec
CONSTANTS
  Hosts = {h1}
  Extras = {k1}
  NoFp = {nofp}
  Slots = {c1, c2}
  MaxPushes = 1
  MaxEdits = 1
  MaxFaults = 1
  MaxRekeys = 1
  MaxKeys = 2
  StartVaults = {{h1}, {k1}}
  StartAccounts = {{h1}, {nofp}}
  StartPaired = TRUE
INVARIANTS AgreementIsReal
PROPERTIES NoBlindOverwrite SyncingEnds
CHECK_DEADLOCK FALSE
