SPECIFICATION Spec
CONSTANTS
    r1 = r1
    r2 = r2
    r3 = r3
    Callers <- MCCallers
    threshold = 2
    MaxAttempts = 2
    MaxFaults = 3
INVARIANTS
    TypeOK
    FlagHasProbe
    OpenOnEvidence
PROPERTIES
    KeepsProbing
    RecoversWithUpstream
