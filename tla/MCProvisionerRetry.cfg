SPECIFICATION Spec
CONSTANTS
    Calls = {c1, c2, c3, c4}
    Gens = {1, 2, 3, 4}
    Sids = {s1}
    NoCall = NoCall
    Order = "reconciler"
    MaxFaults = 1
    MaxCrashes = 0
SYMMETRY CallSymmetry
CHECK_DEADLOCK FALSE
INVARIANTS DestroyedMeansGone
