\* Two mails that come and go, one sync at a time, two faults of any kind.
SPECIFICATION FairSpec
CONSTANTS
    Mails = {m1, m2}
    Workers = {w1}
    LIMIT = 1
    Faults <- EveryFault
    MaxFaults = 2
INVARIANTS
    TypeOK
    LossesAreKnown
    OldMailIsNotAnswered
PROPERTIES
    CheckpointAdvances
CHECK_DEADLOCK FALSE
