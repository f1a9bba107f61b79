\* Two scrapes race with each other and with the engine.
SPECIFICATION Spec
CONSTANTS
    Products = {p1}
    NoProduct = NoProduct
    MaxVersion = 2
    ZeroStock = {}
    MaxJobs = 2
    MaxRetries = 2
    MaxFaults = 1
    MaxCrashes = 1
    CreateWorkers = {c1}
    UpdateWorkers = {u1}
    CreateFetchLimit = 1
    UpdateFetchLimit = 1
    CreateBatchSize = 1
    UpdateBatchSize = 1
    Prompt = TRUE
    Scrapers = {auto, manual}
    MaxScrapes = 3
    MaxChanges = 1
INVARIANTS TypeOK OneCreateJobPerRow UpdatesHaveATarget QueuedChangesArrive
PROPERTY JobsLive
