\* Two workers on one pool, batches of two jobs, jobs of one product together
\* in a batch or spread over two; one failure and one restart.
SPECIFICATION Spec
CONSTANTS
    Products = {p1}
    NoProduct = NoProduct
    MaxVersion = 1
    ZeroStock = {}
    MaxJobs = 3
    MaxRetries = 2
    MaxFaults = 1
    MaxCrashes = 1
    CreateWorkers = {c1}
    UpdateWorkers = {u1, u2}
    CreateFetchLimit = 2
    UpdateFetchLimit = 2
    CreateBatchSize = 2
    UpdateBatchSize = 2
    Prompt = TRUE
SYMMETRY Interchangeable
INVARIANTS TypeOK OneHolder RecordedIsReal
PROPERTY TerminalIsFinal
CHECK_DEADLOCK TRUE
