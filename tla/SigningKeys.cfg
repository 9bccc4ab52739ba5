SPECIFICATION Spec
CONSTANTS
    r1 = r1
    r2 = r2
    Replicas <- MCReplicas
    MaxKeys = 4
    MaxFaults = 2
INVARIANTS
    TypeOK
    PublishedKeyVerifies
    KeyPerDisturbance
