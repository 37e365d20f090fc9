SPECIFICATION Spec
CONSTANTS
    Ctl = {c1, c2}
    c1 = c1
    c2 = c2
    Pids = {p1, p2}
    p1 = p1
    p2 = p2
    MaxBirth = 3
    Ops = {"launch", "api", "stop"}
    MaxGivenUp = 0
    CanCrash = TRUE
    CanExit = TRUE
    CanRaise = FALSE
SYMMETRY ShellAndPidSymmetry
INVARIANTS
    TypeOK
    NoStaleKill
    StoppedMeansGone
    RefusedLaunchLeavesNothing
