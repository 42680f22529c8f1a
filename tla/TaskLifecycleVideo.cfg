SPECIFICATION Spec
CONSTANTS
    p1 = p1
    p2 = p2
    N = 1
    Pollers = {p1, p2}
    Fetchers = {}
    MaxLooks = 0
    Platforms = {"video"}
    Quotas = {0, 2}
    Prices = {0, 1, 3}
    IdKnown = {TRUE}
    SubmitDays = {20000, 20600}
    Timeouts = TRUE
    SweepLimit = 1
    QueryLimit = 1
    ChannelsVanish = FALSE
    Failing = {"insert", "cas", "funding", "token", "upstream"}
    Crashes = TRUE
SYMMETRY PollerSymmetry
INVARIANTS
    RefundedAtMostOnce
    ExactTaskCharge
PROPERTIES
    TerminalIsFinal
