SPECIFICATION Spec
CONSTANTS
    r1 = r1
    r2 = r2
    r3 = r3
    n1 = n1
    n2 = n2
    N = 1
    Requests = {r1, r2}
    Nodes = {n1}
    Total <- One
    Amounts = {2}
    Deltas <- SmallDeltas
    Duration = 3
    Upgrades = {1}
    Periods = {"never", "calendar", "custom"}
    Length = 2
    Batch = 1
    Horizon = 4
    RowLocks = TRUE
    PlanChanges = TRUE
    Admin = TRUE
    TxFails = TRUE
SYMMETRY RequestSymmetry
INVARIANTS
    UsedMatchesHeld
    WithinTotal
PROPERTIES
    ImplementsSerial
    ResetOncePerPeriod
