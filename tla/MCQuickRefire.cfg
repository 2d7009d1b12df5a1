\* Two evaluations of one mail, no fault: each looks before the other's row is there.
SPECIFICATION Spec
CONSTANTS
    e1 = e1
    e2 = e2
    s1 = s1
    s2 = s2
    k1 = k1
    Emails = {e1}
    Steps = {s1, s2}
    Rules <- TwoRules
    Inbox <- OneMail
    TimeRules <- NoRule
    Actions <- ReplyFirst
    CAP = 1
    Evals = {t1, t2}
    Sweep = sweep
    Calls = {c1, c2}
    Keys = {k1}
    KeyOf <- SameKey
    PairOf <- SameRule
    MaxChanges = 1
    MaxWanted = 2
    MaxMishaps = 0
INVARIANT FiresOnce
CHECK_DEADLOCK FALSE
