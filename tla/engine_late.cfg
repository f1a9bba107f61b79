\* One job and one worker; 15 minutes may pass while its batch is processed.
SPECIFICATION Spec
CONSTANTS
    Products = {p1}
    NoProduct = NoProduct
    MaxVersion = 1
    ZeroStock = {}
    MaxJobs = 1
    MaxRetries = 2
    MaxFaults = 0
    MaxCrashes = 0
    CreateWorkers = {c1}
    UpdateWorkers = {u1}
    CreateFetchLimit = 2
    UpdateFetchLimit = 2
    CreateBatchSize = 2
    UpdateBatchSize = 1
    Prompt = FALSE
PROPERTY TerminalIsFinal
