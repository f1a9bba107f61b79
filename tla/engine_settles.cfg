\* Three create jobs in batches of one for one worker: the channel holds two,
\* so a batch can be refused.
SPECIFICATION FairSpec
CONSTANTS
    Products = {p1, p2, p3}
    NoProduct = NoProduct
    MaxVersion = 1
    ZeroStock = {}
    MaxJobs = 3
    MaxRetries = 2
    MaxFaults = 0
    MaxCrashes = 0
    CreateWorkers = {c1}
    UpdateWorkers = {u1}
    CreateFetchLimit = 3
    UpdateFetchLimit = 3
    CreateBatchSize = 1
    UpdateBatchSize = 1
    Prompt = TRUE
PROPERTY EveryJobSettles
