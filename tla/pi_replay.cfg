SPECIFICATION Spec
CONSTANTS
    Message = {m1, m2}
    m1 = m1
    m2 = m2
    Token = {t1, t2}
    t1 = t1
    t2 = t2
    Tolerance = 1
    Replay = 1
    MaxMessages = 2
    MaxTokens = 2
    MaxTurns = 2
    CanCrash = FALSE
    CanFailIO = FALSE
    CanTruncate = FALSE
    CanAlign = TRUE
INVARIANTS
    PreviousPromptCached
