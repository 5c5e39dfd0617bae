SPECIFICATION FairSpec
CONSTANTS
    Threads = {t1, t2}
    Keys = {k1}
    ProviderKeys <- OwnOrOther
    FailureThreshold = 2
    ResetTimeout = 2
    MaxFaults = 4
INVARIANTS TypeOK NeverOpensEarly
PROPERTY Recovers
