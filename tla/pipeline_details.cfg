\* A product that is in the shop and has its details changes once.
SPECIFICATION Spec
CONSTANTS
    Products = {p1}
    NoProduct = NoProduct
    MaxVersion = 2
    ZeroStock = {}
    MaxJobs = 2
    MaxRetries = 2
    MaxFaults = 0
    MaxCrashes = 0
    CreateWorkers = {c1}
    UpdateWorkers = {u1}
    CreateFetchLimit = 1
    UpdateFetchLimit = 1
    CreateBatchSize = 1
    UpdateBatchSize = 1
    Prompt = TRUE
    Scrapers = {auto}
    MaxScrapes = 2
    MaxChanges = 1
PROPERTY DetailsAreKept
