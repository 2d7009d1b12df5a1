\* Two jobs that are ready at a time, in a project shard that has room for one of
\* them in a window; retries and a restart.
SPECIFICATION FairSpec
CONSTANTS
    r1 = r1
    r2 = r2
    r3 = r3
    inbox = inbox
    other = other
    a1 = a1
    a2 = a2
    s1 = s1
    None = None
    Requests = {r2, r3}
    Scopes = {inbox, other}
    ScopeOf <- InboxTwice
    LimitOf <- Growing
    Accounts = {a1, a2}
    AccountOf <- TwoAccounts
    Shards = {s1}
    ShardOf <- OneShard
    Gmail = {a1, a2}
    ACCOUNT_UNITS = 50
    SHARD_UNITS = 60
    Dispatchers = {t}
    Ticker = t
    CONCURRENCY = 2
    MAX_ATTEMPTS = 2
    JobIds = {1, 2}
    Leases = {l1, l2, l3, l4, l5, l6}
    MaxMishaps = 1
INVARIANTS
    WithinQuota
PROPERTIES
    JobsEnd
CHECK_DEADLOCK FALSE
