SPECIFICATION Spec
CONSTANTS
    Callers = {c1}
    Operations = {"chat", "stream"}
    MaxRetries = 1
    BaseDelay = 2
    MaxDelay = 3
    Jitters = {3}
    RetryAfters = {4}
    Injections <- MCInjections
    MaxInjections = 1
    MaxLost = 0
    MaxStops = 0
INVARIANT StreamsRetried
