CONSTANTS
    program = program
    multisig = multisig
    Address <- OneAddress
    Transaction <- TwoTransactions
    SlotOf <- ConsecutiveSlots
    AddressesOf <- OnTheProgram
    Streamable = {1}
    Suspect = {}
    ReplayWindow = 2
    ReplicaSkew = 1
    IndexLag = 0
    ReplicaLead = 1
    HeadSkew = 1
    StreamLag = 0
    MaxFailures = 1
    ChannelCapacity = 2
    HeadLimit = 6
    CrashLimit = 2
SPECIFICATION Spec
INVARIANTS
    TypeOK
    NothingIsLost
    SettledIsSuppressed
    NothingIsForgotten
    ReplayOnlyOfDropped
CHECK_DEADLOCK FALSE
