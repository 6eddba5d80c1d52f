\* Two coroutines, measured against the configured rate.
SPECIFICATION Spec
CONSTANTS
    Callers = {c1, c2}
    NoCaller = NoCaller
    Unit = 2
    Capacity = 4
    MaxRetries = 2
    Delays <- MCDelays
    Drain = 1
INVARIANTS
    WithinRate
