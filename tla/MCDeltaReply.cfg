\* Two mails in one batch, no fault: the second savepoint sends the first reply.
SPECIFICATION Spec
CONSTANTS
    Mails = {m1, m2}
    Workers = {w1}
    LIMIT = 2
    Faults = {}
    MaxFaults = 0
PROPERTY
    RepliesFollowCommit
CHECK_DEADLOCK FALSE
