\* An operator tests with --limit 1; no run dies.
SPECIFICATION Spec
CONSTANTS
    a1 = a1
    a2 = a2
    NoLimitValue = NoLimitValue
    Articles = {a1, a2}
    MaxChunks = 1
    Language <- MCLanguage
    Broken <- MCNone
    Rejected <- MCNone
    Jobs = {1}
    Modes <- MCNightlyAndLimited
    NoLimit = NoLimitValue
    Overlap = FALSE
    CrashAt <- MCNotBetweenWrites
    MaxEdits = 2
    MaxCrashes = 0
INVARIANTS
    NoLostUpdate
