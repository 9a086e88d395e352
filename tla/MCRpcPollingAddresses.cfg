CONSTANTS
    program = program
    multisig = multisig
    Address <- TwoAddresses
    Transaction <- TwoTransactions
    SlotOf <- FirstSlots
    AddressesOf <- OneOfThemShared
    Streamable = {}
    Suspect = {1}
    ReplayWindow = 1
    ReplicaSkew = 1
    IndexLag = 0
    ReplicaLead = 0
    HeadSkew = 0
    StreamLag = 0
    MaxFailures = 2
    ChannelCapacity = 1
    HeadLimit = 3
    CrashLimit = 1
SPECIFICATION Spec
INVARIANTS
    NothingIsLost
    NothingIsForgotten
PROPERTIES
    ImplementsAtLeastOnce
    
CHECK_DEADLOCK FALSE
