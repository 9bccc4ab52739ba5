SPECIFICATION MCSpec
CONSTANTS
    a1 = a1
    a2 = a2
    e1 = e1
    e2 = e2
    j1 = j1
    j2 = j2
    None = None
    Appenders <- MCAppenders
    Events <- MCEvents
    Untimed = {}
    SubMicro <- MCSubMicro
    Respelled <- MCOther
    PageLimit = 1
    Jobs <- MCOneJob
    MaxLeaves = 5
    MinNewEntries = 1
    MaxFaults = 1
INVARIANTS
    VerifyNeverBlames
