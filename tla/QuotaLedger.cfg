SPECIFICATION FairSpec
CONSTANTS
    Deltas <- TwoDeltas
    QuotaInit = 3
    Values <- OneValue
    Gifts <- OneGift
    Batching = TRUE
    RedisEnabled = TRUE
    MaxChanges = 2
    MaxReads = 1
    WritesFail = TRUE
    Crashes = TRUE
INVARIANTS
    LedgerBalance
PROPERTIES
    ImplementsCounter
    AllWritten
    CopyConverges
