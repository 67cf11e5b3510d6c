SPECIFICATION Spec
CONSTANTS
    Installs = {i1, i2, i3}
    NoInstall = NoInstall
    MaxFaults = 3
SYMMETRY Symmetry
CHECK_DEADLOCK FALSE
INVARIANTS TypeOK BearersAccounted RetrySucceeds SuccessServes Published
