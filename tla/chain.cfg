SPECIFICATION FairSpec
CONSTANTS
    MaxRun <- TwoExtensions
    MaxServer <- SixServers
    CanIntrude = TRUE
    BaseTexts = 2
    Corpus = 4
    MaxGrow = 1
    Fragile = {1}
INVARIANTS
    TypeOK
    PassContinues
    BaseIsOwn
    NoTextTwice
    PassWasRevived
    PassWasQuiet
PROPERTIES
    ProbeResultFinal
    SessionsEnd
