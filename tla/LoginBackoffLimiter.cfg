SPECIFICATION Spec
CONSTANTS
    Text <- MCPlainText
    Empty = ""
    ToLower <- MCPlainSame
    TrimSpace <- MCPlainSame
    MaxIdentifierAttempts = 1
    MaxIPAttempts = 1
    IdentifierLockoutSeconds = 1
    IPLockoutSeconds = 1
    CountCap = 2
    Request = {r1, r2}
    Identifier = {"x"}
    Address = {"", "x"}
    MaxRetries = 0
    Faults = {"unreachable", "replyLost", "dataLoss"}
INVARIANTS
    NoEarlyLockout
PROPERTIES
    LockoutEnds
    EveryRequestAnswered
    ImplementsLimiter
