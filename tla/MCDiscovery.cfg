\* One page holds one signature, so most scans need several pages.
CONSTANTS
    Transaction <- MCTransaction
    SlotOf <- MCSlotOf
    ReplayWindow = 3
    ReplicaSkew = 1
    PageLimit = 1
    IndexLag = 1
    ReplicaLead = 1
    HeadLimit = 6
    RestartLimit = 1
SPECIFICATION Spec
INVARIANTS
    TypeOK
    NothingOutOfReachIsMissed
PROPERTIES
    CursorRegressesLessThanOneWindow
    ImplementsScanAtOnce
CHECK_DEADLOCK FALSE
