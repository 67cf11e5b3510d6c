SPECIFICATION Spec
CONSTANTS
    None = None
    Slots = 2
    MaxAsks = 1
    MaxDeaths = 1
    MaxFaults = 1
CHECK_DEADLOCK FALSE
INVARIANTS TypeOK ClaimExclusive
PROPERTIES RedeploysOnce Recovers
