SPECIFICATION Spec
CONSTANTS
    r1 = r1
    r2 = r2
    probe = probe
    Requests <- MCRequests
    Noise <- MCNoise
    MaxRetryCount = 1
    MaxFaults = 1
CHECK_DEADLOCK FALSE
INVARIANTS
    ResendIsHarmless
