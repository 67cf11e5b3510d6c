SPECIFICATION FairSpec
CONSTANTS
    b1 = b1
    b2 = b2
    a1 = a1
    a2 = a2
    Benches <- MCBenches
    Agents <- MCAgents
    Teams <- MCTeams
    None = None
    MaxRuns = 1
    MaxOpens = 2
    MaxRetries = 1
    MaxFaults = 1
CHECK_DEADLOCK FALSE
INVARIANTS TypeOK SentAgainForCause NeverStuck
PROPERTIES KeptUntilReached ShownIsResolved
