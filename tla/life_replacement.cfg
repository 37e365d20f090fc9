SPECIFICATION Spec
CONSTANTS
    Ctl = {c1}
    c1 = c1
    Pids = {p1, p2}
    p1 = p1
    p2 = p2
    MaxBirth = 3
    Ops = {"launch", "stop"}
    MaxGivenUp = 0
    CanCrash = FALSE
    CanExit = TRUE
    CanRaise = FALSE
INVARIANTS
    NeverKillsReplacement
