SPECIFICATION Spec
CONSTANTS
    Callers = {c1, c2}
    Operations = {"chat", "stream", "rerank"}
    MaxRetries = 1
    BaseDelay = 2
    MaxDelay = 3
    Jitters = {3}
    RetryAfters = {4}
    Injections <- MCInjections
    MaxInjections = 1
    MaxLost = 1
    MaxStops = 1
INVARIANT TypeOK
INVARIANT BooksBalance
INVARIANT OutlastsFailures
INVARIANT PermanentIsLast
