SPECIFICATION Spec
CONSTANTS
    r1 = r1
    r2 = r2
    Requests <- TwoRequests
    Kinds = {"relay", "playground"}
    Prefs = {"wallet_first", "subscription_first"}
    Quotes = {0, 2}
    Actuals = {0, 3}
    ReserveTargets = {1, 3}
    WalletInit = 3
    TokenInit = 3
    TokenUnlimited = FALSE
    HasSub = TRUE
    SubTotal = 4
    TrustQuota = 3
    FeeQuota = 0
    CacheLag <- TooHigh
    Failing = {"wallet", "token", "subscription", "record", "ack", "read"}
    Crashes = TRUE
SYMMETRY RequestSymmetry
INVARIANTS
    ExactCharge
    ChargeBounded
    NeverOverRefunded
    SubscriptionWithinTotal
