CONSTANTS
    Transaction <- MCTransaction
    SlotOf <- MCSlotOf
    Target = {here, elsewhere}
    FaultLimit = 2
SYMMETRY Interchangeable
SPECIFICATION Spec
INVARIANT NoForeignSuppression
CHECK_DEADLOCK FALSE
