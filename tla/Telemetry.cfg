SPECIFICATION Spec
CONSTANTS
    Threads = {t1, t2}
    Operations = {"chat"}
    Durations = {2}
    Bounds <- MCBounds
    Answers <- MCAnswers
    MaxRequests = 2
    ClearBy = 1
INVARIANT TypeOK
INVARIANT CountsHonestly
INVARIANT NoTornAverage
INVARIANT ViewsAgree
