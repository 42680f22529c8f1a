SPECIFICATION FairSpec
CONSTANTS
    p1 = p1
    p2 = p2
    N = 2
    Pollers = {p1}
    Fetchers = {"f1"}
    MaxLooks = 1
    Platforms = {"suno", "gemini"}
    Quotas = {2}
    Prices = {0}
    IdKnown = {TRUE, FALSE}
    SubmitDays = {20600}
    Timeouts = TRUE
    SweepLimit = 1
    QueryLimit = 1
    ChannelsVanish = TRUE
    Failing = {}
    Crashes = FALSE
PROPERTIES
    TasksEnd
