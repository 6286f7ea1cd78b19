SPECIFICATION FairSpec
CONSTANTS
    Cap = 2
    MaxBytes = 4
    MaxChunk = 3
    MaxAttach = 2
CHECK_DEADLOCK FALSE
INVARIANTS RingKeepsTheTail NoGapNoDouble RemoteGetsTheText
PROPERTIES LeavingSparesOthers NeverWedged
