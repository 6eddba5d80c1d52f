\* Three messages of the one session there is with the envelope of Google
\* Workspace add-ons, two of them on one instance, one reset.  Nothing happens
\* any more when every message has been handled and no reset is left.
SPECIFICATION FairSpec
CONSTANTS
    m1 = m1
    m2 = m2
    m3 = m3
    Messages = {m1, m2, m3}
    Instances = {"first", "second"}
    On <- MCOn
    Space <- MCSpace
    Classic = FALSE
    MaxTurns = 3
    Budget = 2
    Length <- MCLength
    MaxAttempts = 2
    MaxResets = 1
CHECK_DEADLOCK FALSE
INVARIANTS
    TypeOK
    PairsUnbroken
PROPERTIES
    KeepsWhatWasSaid
    HistoryIsNewest
    EveryMessageEnds
