SPECIFICATION FairSpec
CONSTANTS
    FixtureCount <- TwoFixtures
    MinRepeats <- TwoRepeats
    Repeats <- TwoRepeats
    Wanting = {1}
    Answers <- OneOrTwo
    Fragile = {"source", "copy"}
    MaxFaults = 2
INVARIANTS
    TypeOK
    PassIsGrounded
    ParityIsReal
    TargetFirst
    PassWasQuiet
PROPERTIES
    ServersEnd
