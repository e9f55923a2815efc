SPECIFICATION FairSpec
CONSTANTS
    NCases = 2
    MaxFaults = 1
    NoResult = NoResult
INVARIANTS
    TypeOK
    VerdictIsEarned
    UserIsConfined
    FailureHasCause
PROPERTY Ends
CHECK_DEADLOCK FALSE
