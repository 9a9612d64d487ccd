SPECIFICATION FairWorkerSpec
CONSTANTS
    w1 = w1
    w2 = w2
    eod = eod
    check = check
    price = price
    f1 = f1
    f2 = f2
    Workers = {w1}
    Jobs = {eod, check, price}
    StaleCheck = check
    Early = {}
    Feeds = {f1}
    Limit = 2
    Interval = 1
    Backoff <- MCBackoff
    MaxFaults = 1
INVARIANTS
    WorkerTypeOK
PROPERTIES
    DueJobsRun
