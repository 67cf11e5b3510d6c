SPECIFICATION Spec
CONSTANTS
    Calls = {c1, c2, c3}
    Gens = {1, 2, 3}
    Sids = {s1}
    NoCall = NoCall
    Order = "advancing"
    MaxFaults = 1
    MaxCrashes = 1
SYMMETRY CallSymmetry
CHECK_DEADLOCK FALSE
INVARIANTS TypeOK FenceIsDurable OrphanFree
