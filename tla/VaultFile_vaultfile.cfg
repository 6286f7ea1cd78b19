SPECIFICATION MCSpec
CONSTANTS
    p1 = p1
    p2 = p2
    acc = acc
    h1 = h1
    h2 = h2
    Passwords = {p1, p2}
    AccountPw = acc
    Hosts = {h1}
    AccountHosts = {h2}
    MaxCodes = 2
    MaxEdits = 1
    MaxFaults = 1
    MaxCrashes = 1
    MaxRaces = 1
    MaxOthers = 1
SYMMETRY Symm
CHECK_DEADLOCK FALSE
INVARIANTS AlwaysOpens AckedIsKept OneWriter
