SPECIFICATION Spec
CONSTANTS
    Shell = {c1, c2}
    c2 = c2
    c1 = c1
    Prompt = {q1}
    q1 = q1
    Profile = {1, 2}
    MaxSaves = 2
    CanBreak = TRUE
    MaxDamage = 1
    CanEditLive = FALSE
    LaunchUnderRestore = FALSE
SYMMETRY SlotSymmetry
INVARIANTS
    TypeOK
    LatestIsWhole
    SlotIsOwn
