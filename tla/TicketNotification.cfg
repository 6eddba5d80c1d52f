\* The default of three retries.
SPECIFICATION Spec
CONSTANTS
    MaxRetries = 3
CHECK_DEADLOCK FALSE
INVARIANTS
    NotificationIsTrue
