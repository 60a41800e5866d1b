SPECIFICATION Spec
CONSTANTS
    Blueprints <- MCBlueprints
    Templates <- MCTemplates
    Reporting = {"HostedZone"}
    Reports = {"z1"}
    MaxTenantResourceSets = 2
    MaxChanges = 2
    MaxFaults = 0
INVARIANTS
    LookupsFind
