SPECIFICATION EnrichSpec
CONSTANTS
    Receipts = {j1, j2}
    Key = {k1}
    KeyOf <- MCKeyOf
    Workers = {w1}
    QueueCap = 1
    NoJob = NoJob
    Request = {q1, q2}
    MaxAttempts = 2
    DbMayFail = TRUE
INVARIANTS
    EnrichSound
PROPERTIES
    QueuedIsRun
    ImplementsQueue
CHECK_DEADLOCK FALSE
