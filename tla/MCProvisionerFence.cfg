SPECIFICATION FairSpec
CONSTANTS
    Calls = {c1, c2, c3}
    Gens = {1, 2, 3}
    Sids = {s1}
    NoCall = NoCall
    Order = "advancing"
    MaxFaults = 0
    MaxCrashes = 0
CHECK_DEADLOCK FALSE
INVARIANTS DestroyedMeansGone
PROPERTIES EventuallyGone
