SPECIFICATION MCFairSpec
CONSTANTS
    MaxMints = 2
    MaxOthers = 2
    MaxFaults = 1
    MaxUnsaved = 1
    MaxKeys = 1
    MaxCmds = 1
CHECK_DEADLOCK FALSE
INVARIANT PublishedKeyWasSaved
PROPERTIES AccessSurvives SwapIsNoticed
