SPECIFICATION Spec
CONSTANTS
    a = a
    b = b
    c = c
    d = d
    e = e
    Channels = {a, b, c, d, e}
    None = None
    NGroups = 2
    GroupOf <- TwoGroups
    Priority <- Levels
    Weight <- Weights
    RetryTimes = 2
    MaxChanges = 1
CHECK_DEADLOCK FALSE
INVARIANTS
    AttemptsBounded
    EveryGroupTried
    HigherFirst
    PricedByItsGroup
