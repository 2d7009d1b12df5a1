\* Two messages of one account, a send-now request, crashes and lost records.
SPECIFICATION Spec
CONSTANTS
    a1 = a1
    a2 = a2
    m1 = m1
    m2 = m2
    None = None
    Scheduler = scheduler
    Mails = {m1, m2}
    AccountOf <- SharedAccount
    Verifies = {a1}
    Accounts = {a1}
    Clicks = {c1}
    MAX_SEND_ATTEMPTS = 2
    Faults = TRUE
    EditBound = 0
    CrashBound = 2
INVARIANTS
    TypeOK
    NoCopyUnsought
    OneSender
PROPERTIES
    ImplementsOutbox
CHECK_DEADLOCK FALSE
SYMMETRY SameMails
