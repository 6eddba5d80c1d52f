\* Three coroutines, a burst of two, two attempts: measured against twice the
\* configured rate.
SPECIFICATION FairSpec
CONSTANTS
    Callers = {c1, c2, c3}
    NoCaller = NoCaller
    Unit = 2
    Capacity = 4
    MaxRetries = 2
    Delays <- MCDelays
    Drain = 2
INVARIANTS
    TypeOK
    WithinRate
PROPERTIES
    EveryCallEnds
