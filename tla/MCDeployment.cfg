SPECIFICATION Spec
CONSTANTS
    SchedulerInterval = 2
    HealthInterval = 6
    HealthLogWindow = 24
    InterruptionWindow = 180
    StreamTimeout = 24
    GapWindow = 120
    DeliveryWindow = 120
    FailureWindow = 180
    PollIntervalLimit = 60
    MaxExactInteger = 16
    ActionNames <- Actions4
    Bundle <- SixBundles
    First = 1
    Urls <- TwoUrls
    PublishLimit = 2
    MoveLimit = 1
    StopLimit = 1
    DeathLimit = 1
    Samples <- SmallSamples
    Gaps <- TwoGaps
    None = None
INVARIANTS
    TypeOK
    AppliedRunsItsInputs
    AppliedConfigStarts
    GrafanaFollowsConfig
    LinkedPanelsShow
    EveryMatchIsEvaluated
    HealthRulesFire
    OutagePagesOnTime
    QueryMeansConditions
PROPERTIES
    RetriesUntilApplied
CHECK_DEADLOCK FALSE
