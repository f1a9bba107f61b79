\* Two jobs in one batch or in two; two failures and a restart.
SPECIFICATION FairSpec
CONSTANTS
    Products = {p1, p2}
    NoProduct = NoProduct
    MaxVersion = 1
    ZeroStock = {}
    MaxJobs = 2
    MaxRetries = 2
    MaxFaults = 2
    MaxCrashes = 1
    CreateWorkers = {c1}
    UpdateWorkers = {u1}
    CreateFetchLimit = 2
    UpdateFetchLimit = 2
    CreateBatchSize = 2
    UpdateBatchSize = 1
    Prompt = TRUE
PROPERTY EveryJobSettles
