\* When the object is gone nothing is left to do.
CHECK_DEADLOCK FALSE
SPECIFICATION FairSpec
CONSTANTS
    MaxChanges = 3
    MaxFaults = 2
INVARIANTS
    NoSpareZones
PROPERTIES
    NoDanglingDelegation
    ZoneSettles
