SPECIFICATION Spec
CONSTANTS
    h1 = h1
    h2 = h2
    c1 = c1
    c2 = c2
    k1 = k1
    None = None
    Handlers <- MCHandlers
    Clients <- MCClients
    Keys <- MCKeys
    MaxFaults = 2
INVARIANTS
    TypeOK
    OneHandlerPerClient
    CreatedKeepsWorking
    SecretDisclosedOnce
    OrphansExplained
