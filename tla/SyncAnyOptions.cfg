\* One run at a time with any command line, dying anywhere, of articles that
\* have several chunks, one of which Vector Search refuses.
SPECIFICATION Spec
CONSTANTS
    a1 = a1
    a2 = a2
    NoLimitValue = NoLimitValue
    Articles = {a1, a2}
    MaxChunks = 2
    Language <- MCLanguages
    Broken <- MCNone
    Rejected <- MCRejected
    Jobs = {1}
    Modes <- MCAnyOptions
    NoLimit = NoLimitValue
    Overlap = FALSE
    CrashAt <- MCAnywhere
    MaxEdits = 2
    MaxCrashes = 1
INVARIANTS
    TypeOK
    RunInv
PROPERTIES
    NeverRegresses
    WatermarkBehindRuns
    RetriedUntilFetched
