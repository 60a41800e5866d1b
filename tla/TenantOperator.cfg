SPECIFICATION FairSpec
CONSTANTS
    Blueprints <- MCBlueprints
    Templates <- MCTemplates
    Reporting = {"HostedZone"}
    Reports = {"z1", "z2"}
    MaxTenantResourceSets = 2
    MaxChanges = 1
    MaxFaults = 1
INVARIANTS
    TypeOK
    OneActiveUnlessAbandoned
    NoRollback
    DroppedSetsAreInactive
PROPERTIES
    Converges
    StreamComesToRest
    FailuresStayInTheirGroup
