SPECIFICATION FairSpec
CONSTANTS
    f1 = f1
    f2 = f2
    Fwds = {f1, f2}
    Conns = {1}
CHECK_DEADLOCK FALSE
INVARIANT NothingLeaks
PROPERTY EndIsTold
