SPECIFICATION QueueSpec
CONSTANTS
    Receipts = {r1, r2, r3, r4}
    Workers = {w1, w2}
    QueueCap = 2
    NoJob = NoJob
INVARIANTS
    Bookkeeping
    CleanMeansDone
PROPERTIES
    ImplementsService
    JobsEnd
    ShutdownReturns
CHECK_DEADLOCK FALSE
