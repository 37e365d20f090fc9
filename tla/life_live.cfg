SPECIFICATION FairSpec
CONSTANTS
    Ctl = {c1}
    c1 = c1
    Pids = {p1, p2}
    p1 = p1
    p2 = p2
    MaxBirth = 3
    Ops = {"launch", "stop_save"}
    MaxGivenUp = 1
    CanCrash = FALSE
    CanExit = TRUE
    CanRaise = TRUE
INVARIANTS
    RefusedLaunchLeavesNothing
    RunningRecordWatched
PROPERTIES
    OrphanWatchdogEnds
    ViolationStopsServer
