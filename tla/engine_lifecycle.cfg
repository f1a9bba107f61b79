\* Two products, so that create batches hold two jobs; update batches hold one.
SPECIFICATION Spec
CONSTANTS
    Products = {p1, p2}
    NoProduct = NoProduct
    MaxVersion = 1
    ZeroStock = {}
    MaxJobs = 3
    MaxRetries = 2
    MaxFaults = 1
    MaxCrashes = 1
    CreateWorkers = {c1}
    UpdateWorkers = {u1}
    CreateFetchLimit = 2
    UpdateFetchLimit = 2
    CreateBatchSize = 2
    UpdateBatchSize = 1
    Prompt = TRUE
SYMMETRY Interchangeable
INVARIANT RecordedIsReal
PROPERTY ImplementsLifecycle
