SPECIFICATION Spec
CONSTANTS
    Text <- MCSpelledText
    Empty = ""
    ToLower <- MCSpelledLower
    TrimSpace <- MCSpelledTrim
    MaxIdentifierAttempts = 1
    MaxIPAttempts = 1
    IdentifierLockoutSeconds = 1
    IPLockoutSeconds = 2
    CountCap = 2
    Request = {r1, r2}
    Identifier = {" ", " X"}
    Address = {"x"}
    MaxRetries = 2
    Faults = {"unreachable", "replyLost", "cancelled", "dataLoss"}
SYMMETRY MCSymmetry
INVARIANTS
    TypeOK
    OneCounterPerSubject
    NoImmortalCounter
    GrantsBounded
    RetryAfterHonest
PROPERTIES
    FixedWindow
    
