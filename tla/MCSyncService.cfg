\* Two accounts for one slot, a provider call that hangs, failures of every kind.
SPECIFICATION FairSpec
CONSTANTS
    Accounts = {1, 2}
    CAP = 1
    N = 2
    Gens <- OneToSix
    MaxCalls = 2
    MaxHangs = 1
    MaxMishaps = 2
INVARIANTS
    TypeOK
    SyncsApart
    PushIsRemembered
PROPERTIES
    OthersKeepTheirs
    DeactivationIsEarned
    QueueIsServed
CHECK_DEADLOCK FALSE
