SPECIFICATION FairSpec
CONSTANTS
    Hubs = {h1, h2}
    Releases = {4, 5}
    UserTable = 3
    Packages = 2
    Nobody = Nobody
    MaxBoots = 4
    MaxFaults = 2
CHECK_DEADLOCK FALSE
INVARIANTS TypeOK BootsAreRepeatable ServesWhole
PROPERTIES BootsEnd
