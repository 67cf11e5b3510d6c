SPECIFICATION Spec
CONSTANTS
    Ops = {o1, o2}
    Tabs = {t1, t2}
    Handles = {exa, linear}
    BuiltIn = exa
    Benches = {b1, b2}
    None = None
    MaxFaults = 1
SYMMETRY Symmetry
CHECK_DEADLOCK FALSE
INVARIANTS TypeOK BuiltInOnce SettledCatalogue FailedAddGone AddedStays QueueServed
