\* Two messages with up to three traits each (two that are told apart by the
\* order of the chain and one exclusion), so that the second reads what is
\* remembered of the first; a dialog; and two retries of its submission.
SPECIFICATION ServiceFairSpec
CONSTANTS
    MaxMessages = 2
    MaxTraits = 3
    MaxRetries = 2
CHECK_DEADLOCK FALSE
INVARIANTS
    TypeOK
    TicketsAccountedFor
    ChatTypeOK
    KnownPiiStaysOut
    FormTypeOK
    NothingInvented
    DetailBelongsToSystem
    RequiredWidgetsSuffice
PROPERTIES
    EverySubmissionEnds
    LoudestAlarmWins
    SafetyReferralKept
    EmergenciesAreReported
    EveryMessageIsAnswered
    EveryClickEnds
