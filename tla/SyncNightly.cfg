\* The safe deployment: one run at a time, nightly or by hand with
\* --skip-watermark, and no crash between the two writes of the sync state.
\* a2 can never be fetched; a1 must be served in the end all the same.
SPECIFICATION FairSpec
CONSTANTS
    a1 = a1
    a2 = a2
    NoLimitValue = NoLimitValue
    Articles = {a1, a2}
    MaxChunks = 1
    Language <- MCLanguage
    Broken <- MCBroken
    Rejected <- MCNone
    Jobs = {1}
    Modes <- MCNightlyAndFull
    NoLimit = NoLimitValue
    Overlap = FALSE
    CrashAt <- MCNotBetweenWrites
    MaxEdits = 3
    MaxCrashes = 1
INVARIANTS
    SyncInv
    NoLostUpdate
PROPERTIES
    EventuallyServed
