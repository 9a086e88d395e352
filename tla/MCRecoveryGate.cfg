CONSTANTS
    LoadAttempts = 3
    DisableAfter = 3
    PollLimit = 5
    DeliveryLimit = 2
    RestartLimit = 1
SPECIFICATION Spec
INVARIANTS
    TypeOK
    DisabledOnEvidence
    NothingPilesUpWhenParked
PROPERTIES
    ForeignCheckpointIsKept
    LoadIsDecided
CHECK_DEADLOCK FALSE
