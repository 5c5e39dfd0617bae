SPECIFICATION Spec
CONSTANTS
    Kinds <- AllKinds
    MaxLen = 2
    MaxRetries = 1
    MaxChunks = 2
    MaxCount = 5
INVARIANT ErrorsReachHooks
