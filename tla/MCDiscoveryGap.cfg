\* One page holds one signature.
CONSTANTS
    Transaction <- MCTransaction
    SlotOf <- MCSlotOf
    ReplayWindow = 2
    ReplicaSkew = 1
    PageLimit = 1
    IndexLag = 1
    ReplicaLead = 0
    HeadLimit = 6
    RestartLimit = 1
SPECIFICATION Spec
INVARIANT NoSilentGap
CHECK_DEADLOCK FALSE
