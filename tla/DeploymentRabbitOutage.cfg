SPECIFICATION DeploymentSpec
CONSTANTS
    Worker = {w1}
    Identity = {ann}
    NoWorker = NoWorker
    NoIdentity = NoIdentity
    Faults = {"redisDown", "linkLoss", "crash"}
    MaxEmitted = 1
    Probe = {p1, p2}
    NoProbe = NoProbe
    FailureThreshold = 2
    HostFaults = {"brokerDown"}
PROPERTY WebhooksStayAnswered
