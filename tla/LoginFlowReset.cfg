SPECIFICATION FlowSpec
CONSTANTS
    Text <- MCText
    Empty = ""
    ToLower <- MCLower
    TrimSpace <- MCTrim
    MaxIdentifierAttempts = 1
    MaxIPAttempts = 1
    IdentifierLockoutSeconds = 1
    IPLockoutSeconds = 1
    CountCap = 2
    Request = {r1}
    Identifier = {}
    Address = {}
    MaxRetries = 0
    Faults = {"unreachable", "dataLoss"}
    Post <- MCPost
    ValidIP <- MCValidIP
    MaxHooks = 2
INVARIANTS
    FlowTypeOK
    
PROPERTIES
    EverySubmissionAnswered
