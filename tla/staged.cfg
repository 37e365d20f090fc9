SPECIFICATION FairSpec
CONSTANTS
    Bounds <- ThreeStages
    MaxSpoil = 1
    CanCrash = TRUE
    CanIntrude = TRUE
INVARIANTS
    TypeOK
    StageContinues
    LoadableWasRestored
    LoadableWasQuiet
    OneServer
    PlanIsSound
    EveryTokenOnce
PROPERTY
    ServerEnds
