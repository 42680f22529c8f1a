SPECIFICATION Spec
CONSTANTS
    MaxRequests = 3
    MaxChunks = 2
    MaxReloads = 1
    MaxChanges = 1
CHECK_DEADLOCK FALSE
INVARIANTS
    PageAgrees
    AnswersInPlace
