SPECIFICATION Spec
CONSTANTS
    Receipts = {r1, r2}
    Workers = {w1}
    QueueCap = 1
    NoJob = NoJob
    Requests = {q1}
    RequeueCap = 2
    GuardMayRefuse = TRUE
    DbMayFail = TRUE
INVARIANTS
    PipelineSound
    ScanExtractsOnce
    BootAdoptsPending
PROPERTY
    ImplementsQueue
SYMMETRY Symmetry
CHECK_DEADLOCK FALSE
