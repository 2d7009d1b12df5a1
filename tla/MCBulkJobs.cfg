\* One job of two items and two threads, which two workers may leave alive at once,
\* with failed commits and recoveries, dying threads and a crash.
SPECIFICATION Spec
CONSTANTS
    a1 = a1
    t1 = t1
    t2 = t2
    None = None
    Accounts = {a1}
    Threads = {t1, t2}
    Jobs <- OneJob
    Items <- TwoItems
    JobOf <- JobOfTwo
    AccountOf <- OneJobAccount
    Serves <- ServedByTwo
    ITEM_MAX_ATTEMPTS = 2
    Faults = TRUE
    MaxStops = 1
SYMMETRY Interchangeable
INVARIANTS
    TypeOK
    CountersMatchItems
    ClaimIsExclusive
    AttemptsWithinBudget
    VerdictIsHonest
PROPERTIES
    ImplementsLedger
CHECK_DEADLOCK FALSE
