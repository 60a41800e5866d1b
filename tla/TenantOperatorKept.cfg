SPECIFICATION FairSpec
CONSTANTS
    Blueprints <- MCBlueprints
    Templates <- MCTemplates
    Reporting = {"HostedZone"}
    Reports = {"z1"}
    MaxTenantResourceSets = 2
    MaxChanges = 3
    MaxFaults = 0
PROPERTIES
    KeepsAtMostMax
