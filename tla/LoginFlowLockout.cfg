SPECIFICATION FlowSpec
CONSTANTS
    Text <- MCText
    Empty = ""
    ToLower <- MCLower
    TrimSpace <- MCTrim
    MaxIdentifierAttempts = 1
    MaxIPAttempts = 1
    IdentifierLockoutSeconds = 1
    IPLockoutSeconds = 1
    CountCap = 2
    Request = {r1, r2}
    Identifier = {}
    Address = {}
    MaxRetries = 1
    Faults = {}
    Post <- MCOnePost
    ValidIP <- MCValidIP
    MaxHooks = 1
PROPERTY
    LockoutStands
