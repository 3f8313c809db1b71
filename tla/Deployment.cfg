SPECIFICATION DeploymentSpec
CONSTANTS
    Worker = {w1}
    Identity = {ann}
    NoWorker = NoWorker
    NoIdentity = NoIdentity
    Faults = {"redisDown", "linkLoss", "crash", "hangUp", "expiry"}
    MaxEmitted = 1
    Probe = {p1, p2}
    NoProbe = NoProbe
    FailureThreshold = 2
    HostFaults = {"badConfig", "brokerDown", "brokerStall", "redisOutage", "kill"}
INVARIANTS
    GatewayTypeOK
    ClientsOutliveHandlers
    
    
PROPERTIES
    ShutdownEnds
    ProbeAnswered
    ReadyAgain
    OutOfServiceIsNoticed
