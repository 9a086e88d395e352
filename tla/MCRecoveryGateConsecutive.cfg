CONSTANTS
    LoadAttempts = 3
    DisableAfter = 3
    PollLimit = 5
    DeliveryLimit = 2
    RestartLimit = 1
SPECIFICATION Spec
INVARIANT AheadOnConsecutiveObservations
CHECK_DEADLOCK FALSE
