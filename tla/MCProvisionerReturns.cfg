SPECIFICATION FairSpec
CONSTANTS
    Calls = {c1, c2, c3}
    Gens = {1}
    Sids = {s1, s2}
    NoCall = NoCall
    Order = "any"
    MaxFaults = 1
    MaxCrashes = 1

CHECK_DEADLOCK FALSE
PROPERTIES CallsReturn
