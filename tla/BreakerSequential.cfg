SPECIFICATION SequentialSpec
CONSTANTS
    Threads = {t1}
    Keys = {k1, k2}
    ProviderKeys <- ProviderPerKey
    FailureThreshold = 2
    ResetTimeout = 2
    MaxFaults = 5
INVARIANT ClosedBelowThreshold
PROPERTY Implements
