\* When the tenant and its sets are gone nothing is left to do.
CHECK_DEADLOCK FALSE
SPECIFICATION Spec
CONSTANTS
    MaxSets = 2
    Resources <- MCResources
    Contents <- MCContents
    Passing = {2}
    MaxLag = 2
    MaxFaults = 1
INVARIANTS
    TypeOK
    SetsGoBeforeTheStream
    ResourcesGoBeforeTheSet
    OnlySealsAreLeft


