\* Two update workers; the product changes twice.
SPECIFICATION Spec
CONSTANTS
    Products = {p1}
    NoProduct = NoProduct
    MaxVersion = 2
    ZeroStock = {}
    MaxJobs = 3
    MaxRetries = 2
    MaxFaults = 0
    MaxCrashes = 0
    CreateWorkers = {c1}
    UpdateWorkers = {u1, u2}
    CreateFetchLimit = 1
    UpdateFetchLimit = 1
    CreateBatchSize = 1
    UpdateBatchSize = 1
    Prompt = TRUE
    Scrapers = {auto}
    MaxScrapes = 3
    MaxChanges = 2
SYMMETRY Interchangeable
INVARIANT QueuedChangesArrive
