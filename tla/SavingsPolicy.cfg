CHECK_DEADLOCK FALSE
SPECIFICATION FairSpec
CONSTANTS
    Deployments <- MCDeployments
    Replicas <- MCReplicas
    TargetLists <- MCTargetLists
    MaxChanges = 2
    MaxFaults = 1
INVARIANTS
    TypeOK
    AsleepIsTracked
    GoneMeansAwake
PROPERTIES
    RecordedBeforeSleep
    Settles
