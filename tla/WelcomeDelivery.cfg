SPECIFICATION DeliverySpec
CONSTANTS
    Worker = {w1, w2}
    Identity = {ann}
    NoWorker = NoWorker
    NoIdentity = NoIdentity
    Faults = {"hangUp", "linkLoss", "crash"}
    MaxEmitted = 3
    BrokerFaults = {"restart"}
INVARIANTS
    TypeOK
    MarkedWasEmitted
    DeliveryTypeOK
    DuplicatesBounded
    
PROPERTIES
    AnsweredTruthfully
    EveryWebhookAnswered
    MarkedIsWelcomed
    EveryoneWelcomed
    KeepsPromise
