SPECIFICATION FairSpec
CONSTANTS
    r1 = r1
    r2 = r2
    Requests <- TwoRequests
    Kinds = {"relay", "free", "task"}
    Prefs = {"subscription_first", "wallet_only"}
    Quotes = {2}
    Actuals = {3}
    ReserveTargets = {}
    WalletInit = 3
    TokenInit = 3
    TokenUnlimited = FALSE
    HasSub = TRUE
    SubTotal = 4
    TrustQuota = 1
    FeeQuota = 1
    CacheLag <- SomeLag
    Failing = {"wallet", "token", "subscription", "ack", "read"}
    Crashes = FALSE
PROPERTIES
    EveryRequestEnds
    SettledIsFinal
