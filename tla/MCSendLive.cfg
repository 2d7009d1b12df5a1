\* Two accounts, one without lookup, no send-now requests and no faults.
SPECIFICATION FairSpec
CONSTANTS
    a1 = a1
    a2 = a2
    m1 = m1
    m2 = m2
    None = None
    Scheduler = scheduler
    Mails = {m1, m2}
    AccountOf <- TwoAccounts
    Verifies = {a1}
    Accounts = {a1, a2}
    Clicks = {}
    MAX_SEND_ATTEMPTS = 3
    Faults = FALSE
    EditBound = 1
    CrashBound = 2
INVARIANT AttemptsCapped
PROPERTY DueIsSettled
CHECK_DEADLOCK FALSE
