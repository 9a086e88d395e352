CONSTANTS
    program = program
    multisig = multisig
    Address <- OneAddress
    Transaction <- OneTransaction
    SlotOf <- SlotTwo
    AddressesOf <- OneOnTheProgram
    Streamable = {1}
    Suspect = {}
    ReplayWindow = 1
    ReplicaSkew = 1
    IndexLag = 0
    ReplicaLead = 0
    HeadSkew = 1
    StreamLag = 0
    MaxFailures = 1
    ChannelCapacity = 2
    HeadLimit = 4
    CrashLimit = 2
SPECIFICATION Spec
INVARIANT NeverReplayed
CHECK_DEADLOCK FALSE
