SPECIFICATION Spec
CONSTANTS
    Worker = {w1, w2}
    Identity = {ann}
    NoWorker = NoWorker
    NoIdentity = NoIdentity
    Faults = {}
    MaxEmitted = 3
INVARIANT
    AtMostOnce
