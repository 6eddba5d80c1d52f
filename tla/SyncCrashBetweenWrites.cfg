\* Nightly runs only, one of which dies between the two writes of the sync
\* state.
SPECIFICATION Spec
CONSTANTS
    a1 = a1
    a2 = a2
    NoLimitValue = NoLimitValue
    Articles = {a1, a2}
    MaxChunks = 1
    Language <- MCLanguage
    Broken <- MCNone
    Rejected <- MCNone
    Jobs = {1}
    Modes <- MCNightly
    NoLimit = NoLimitValue
    Overlap = FALSE
    CrashAt <- MCBetweenWrites
    MaxEdits = 2
    MaxCrashes = 1
INVARIANTS
    NoLostUpdate
