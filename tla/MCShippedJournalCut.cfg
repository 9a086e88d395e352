CONSTANTS
    Transaction <- MCTransaction
    SlotOf <- MCSlotOf
    Target = {here, elsewhere}
    FaultLimit = 2
SYMMETRY Interchangeable
SPECIFICATION KillsSpec
INVARIANT OnlyTheCutEntryIsLost
CHECK_DEADLOCK FALSE
