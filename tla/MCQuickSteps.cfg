\* One mail that arrives and changes once, a rule that replies and stands twice in the sweep's list.
SPECIFICATION FairSpec
CONSTANTS
    e1 = e1
    e2 = e2
    s1 = s1
    s2 = s2
    k1 = k1
    Emails = {e1}
    Steps = {s1}
    Rules <- FirstRule
    Inbox <- OneMail
    TimeRules <- RuleTwice
    Actions <- ReplyFirst
    CAP = 2
    Evals = {t1}
    Sweep = sweep
    Calls = {c1, c2}
    Keys = {k1}
    KeyOf <- SameKey
    PairOf <- SameRule
    MaxChanges = 1
    MaxWanted = 2
    MaxMishaps = 1
INVARIANTS
    TypeOK
    RerunsBounded
PROPERTIES
    FiredMeansWhole
    SweepHonoursRows
    RetryIsReplayed
    Settles
CHECK_DEADLOCK FALSE
