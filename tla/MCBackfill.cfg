CONSTANTS
    Ledger <- SmallLedger
    ConfirmedAtStart = 5
    Settings <- SomeSettings
    Now = 10
    Since = 6
    PageLimit = 2
    FetchWindow = 2
    BatchLimit = 3
    PushAttempts = 2
    ChannelCapacity = 2
    OutOfOrderWindow = 2
    FaultLimit = 1
SPECIFICATION Spec
INVARIANTS
    TypeOK
    PushedOnlyIfWhole
    EveryOccurrenceIsArchived
    NeverTooFarBehind
    NothingIsTooOld
PROPERTY
    ImplementsPromise
CHECK_DEADLOCK FALSE
