SPECIFICATION FairSpec
CONSTANT
    MaxFaults = 3
INVARIANTS
    ReleasedOnce
PROPERTIES
    ServesInTheEnd
