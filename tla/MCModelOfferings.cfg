SPECIFICATION Spec
CONSTANTS
    Ops = {o1, o2, o3}
    Models = {m1, m2, m3}
    Benches = {b1, b2}
    Earlier = Earlier
    None = None
    MaxFaults = 1
SYMMETRY Symmetry
CHECK_DEADLOCK FALSE
INVARIANTS TypeOK LivePins NoBareProvider RetrySucceeds
PROPERTIES EditServes
