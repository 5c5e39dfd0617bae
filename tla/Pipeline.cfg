SPECIFICATION FairSpec
CONSTANTS
    Kinds <- AllKinds
    MaxLen = 3
    MaxRetries = 2
    MaxChunks = 2
    MaxCount = 5
INVARIANT TypeOK
INVARIANT HooksRunOnce
INVARIANT AttemptBudget
INVARIANT RetriesReported
INVARIANT BreakerSeesRequests
PROPERTY NoCallAfterDelivery
PROPERTY Finishes
