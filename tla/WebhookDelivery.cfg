SPECIFICATION Spec
CONSTANTS
    s1 = s1
    h1 = h1
    h2 = h2
    None = None
    Subs <- MCSubs
    Matches <- MCMatches
    Slots <- MCSlots
    MaxAttempts = 2
    MaxFaults = 1
CHECK_DEADLOCK FALSE
INVARIANTS
    TypeOK
    JobNotLost
    StatusIsEarned
    CommittedIsFannedOut
PROPERTIES
    JobResolved
