\* The constants of MemoryTurns: m3 is sent in another space than m1 and m2,
\* and the envelope is that of Google Workspace add-ons.
SPECIFICATION Spec
CONSTANTS
    m1 = m1
    m2 = m2
    m3 = m3
    Messages = {m1, m2, m3}
    Instances = {"first", "second"}
    On <- MCOn
    Space <- MCSpace
    Classic = FALSE
    MaxTurns = 3
    Budget = 2
    Length <- MCLength
    MaxAttempts = 2
    MaxResets = 1
CHECK_DEADLOCK FALSE
INVARIANTS
    OwnSpaceOnly
