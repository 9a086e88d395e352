CONSTANTS
    Transaction <- MCTransaction
    SlotOf <- MCSlotOf
    Target = {here, elsewhere}
    FaultLimit = 2
SYMMETRY Interchangeable
SPECIFICATION Spec
INVARIANTS
    TypeOK
    WrittenIsInFile
    JournaledIsRestorable
    ForeignOnlyIfUnclaimed
    CheckpointIsFoundWhole
PROPERTY
    ForgottenForDurable
CHECK_DEADLOCK FALSE
