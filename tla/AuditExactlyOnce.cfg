SPECIFICATION Spec
CONSTANTS
    w1 = w1
    w2 = w2
    p1 = p1
    e1 = e1
    e2 = e2
    None = None
    Workers <- MCWorkers
    Partitions <- MCPartitions
    PartitionOf <- MCPartitionOf
    Poison = {}
    BatchLimit = 2
    MaxFaults = 2
CHECK_DEADLOCK FALSE
INVARIANTS
    FailedIsNotCommitted
