SPECIFICATION VerifySpec
CONSTANTS
    g1 = g1
    v1 = v1
    v2 = v2
    q1 = q1
    h1 = h1
    h2 = h2
    None = None
    Grants <- MCGrants
    Revokers <- MCRevokers
    Queries <- MCQueries
    Ref <- MCRef
    Covered <- MCCovered
    Handlers <- MCHandlers
    NiraStatuses <- MCNiraStatuses
SYMMETRY MCSymmetry
INVARIANTS
    TypeOK
    RevocationHonoured
    RevocationsAgree
    NegativeAnswersAreFresh
