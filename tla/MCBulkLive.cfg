\* Liveness without faults: one job of two items, one thread, a clean restart.
SPECIFICATION FairSpec
CONSTANTS
    a1 = a1
    t1 = t1
    t2 = t2
    None = None
    Accounts = {a1}
    Threads = {t1}
    Jobs <- OneJob
    Items <- TwoItems
    JobOf <- JobOfTwo
    AccountOf <- OneJobAccount
    Serves <- ServedByOne
    ITEM_MAX_ATTEMPTS = 2
    Faults = FALSE
    MaxStops = 1
PROPERTY
    ActiveJobsSettle
CHECK_DEADLOCK FALSE
