SPECIFICATION FairSpec
CONSTANTS
    r1 = r1
    r2 = r2
    r3 = r3
    n1 = n1
    n2 = n2
    N = 2
    Requests = {r1}
    Nodes = {n1}
    Total <- Two
    Amounts = {2}
    Deltas = {1}
    Duration = 2
    Upgrades = {1, 2}
    Periods = {"calendar", "custom"}
    Length = 2
    Batch = 1
    Horizon = 4
    RowLocks = TRUE
    PlanChanges = FALSE
    Admin = TRUE
    TxFails = FALSE

    
PROPERTIES
    EndedExpire
    DueIsReset
