SPECIFICATION MCSpec
CONSTANTS
    w1 = w1
    w2 = w2
    e1 = e1
    None = None
    Spawner = w1
    Adopters <- OneAdopter
    Execs = {e1}
    MaxPrompts = 2
    MaxUses = 2
CHECK_DEADLOCK FALSE
INVARIANTS OneStream AnswerFitsPrompt
PROPERTIES NoStrandedHost DeadHostFreesExec
