\* Two requests for one inbox and one for the account of another user in the
\* same project shard: only one of the jobs fits into a window.
SPECIFICATION Spec
CONSTANTS
    r1 = r1
    r2 = r2
    r3 = r3
    inbox = inbox
    other = other
    a1 = a1
    a2 = a2
    s1 = s1
    None = None
    Requests = {r1, r2, r3}
    Scopes = {inbox, other}
    ScopeOf <- InboxTwice
    LimitOf <- Growing
    Accounts = {a1, a2}
    AccountOf <- TwoAccounts
    Shards = {s1}
    ShardOf <- OneShard
    Gmail = {a1, a2}
    ACCOUNT_UNITS = 50
    SHARD_UNITS = 60
    Dispatchers = {t, d}
    Ticker = t
    CONCURRENCY = 1
    MAX_ATTEMPTS = 1
    JobIds = {1, 2, 3}
    Leases = {l1, l2, l3, l4}
    MaxMishaps = 1
INVARIANTS
    TypeOK
    OneActivePerScope
    LeaseProtectsWorker
PROPERTIES
    CompletionCoversRequests
CHECK_DEADLOCK FALSE
