SPECIFICATION FairSpec
CONSTANTS
    Handlers = {h1, h2, h3}
    None = None
    Nodes <- OneNode
    NodeOf <- InOneNode
    Setups <- EverySetup
    MaxEvents = 2
    MaxFaults = 2
    MaxBoth = 3
CHECK_DEADLOCK FALSE
INVARIANTS
    OrderLock
    CreditMatchesStatus
PROPERTIES
    ImplementsGrant
    EveryHandlerEnds
    
