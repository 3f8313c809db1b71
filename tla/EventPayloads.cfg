SPECIFICATION PayloadSpec
CONSTANTS
    Worker = {w1, w2}
    Identity = {"ann"}
    NoWorker = NoWorker
    NoIdentity = "nobody"
    Faults = {"redisDown", "linkLoss"}
    MaxEmitted = 2
    Text <- MCText
    Empty = ""
    TrimSpace <- MCTrim
    Stamp <- MCStamp
    VerificationPayload <- MCVerificationPayload
    PasswordPayload <- MCPasswordPayload
    MaxClock = 1
    MaxQueued = 2
INVARIANTS
    QueuesKeepApart
    
