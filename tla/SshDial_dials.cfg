SPECIFICATION SilentSpec
CONSTANTS
    k1 = k1
    k2 = k2
    k3 = k3
    Keys = {k1, k2, k3}
    NoKey = NoKey
    BatchSize = 2
    MaxRounds = 2
    MaxAsked = 2
    MaxDials = 2
    Setups <- AllSetups
CHECK_DEADLOCK FALSE
INVARIANTS TrustComesFirst HopelessOnlyWhenTried AnswerableUnlessCovered
PROPERTY EscEndsDial
