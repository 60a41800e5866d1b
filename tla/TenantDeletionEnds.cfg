\* When the tenant and its sets are gone nothing is left to do.
CHECK_DEADLOCK FALSE
SPECIFICATION FairSpec
CONSTANTS
    MaxSets = 2
    Resources <- MCResources
    Contents <- MCContentsApart
    Passing = {2}
    MaxLag = 1
    MaxFaults = 1
PROPERTIES
    Completes
