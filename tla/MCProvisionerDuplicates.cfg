SPECIFICATION Spec
CONSTANTS
    Calls = {c1, c2, c3}
    Gens = {1, 2}
    Sids = {s1}
    NoCall = NoCall
    Order = "any"
    MaxFaults = 0
    MaxCrashes = 0
SYMMETRY CallSymmetry
CHECK_DEADLOCK FALSE
INVARIANTS NoDuplicateUnits
