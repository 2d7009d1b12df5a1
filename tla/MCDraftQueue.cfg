\* A queue of one place, two workers and one job of an account at a time.
SPECIFICATION FairSpec
CONSTANTS
    r1 = r1
    r2 = r2
    r3 = r3
    r4 = r4
    k1 = k1
    k2 = k2
    k3 = k3
    a1 = a1
    a2 = a2
    None = None
    Requests = {r1, r2, r3}
    Keys = {k1, k2}
    KeyOf <- EmailOf
    Accounts = {a1}
    AccountOf <- BoxOf
    Workers = {w1, w2}
    QUEUE_MAX = 1
    PER_ACCOUNT_MAX = 1
    PER_ACCOUNT_QUEUE_MAX = 2
INVARIANTS
    TypeOK
    RegistryMatchesJobs
    LimitsHold
PROPERTIES
    ImplementsDesk
    AcceptedIsServed
CHECK_DEADLOCK FALSE
