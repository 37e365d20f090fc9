SPECIFICATION Spec
CONSTANTS
    Shell = {c1}
    c1 = c1
    Prompt = {q1}
    q1 = q1
    Profile = {1, 2}
    MaxSaves = 2
    CanBreak = FALSE
    MaxDamage = 0
    CanEditLive = TRUE
    LaunchUnderRestore = FALSE
SYMMETRY SlotSymmetry
INVARIANTS
    SlotIsOwn
