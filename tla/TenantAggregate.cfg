SPECIFICATION Spec
CONSTANTS
    Labels = {"l1", "l2"}
    Blueprints <- MCBlueprints
    Templates <- MCTemplates
    Clusters <- MCClusters
    References <- MCReferences
    MaxSetVersion = 3
INVARIANTS
    TypeOK
    SetMatchesAggregate
    OnlyCurrentIsActive
    OrphansAreExact
    QuietMeansInSync
    LabelsReachTheSet
    NoNewsNoEvents
    ReferencesAgree
PROPERTIES
    StaleResourcesHalve
    SupersededSetsAreKept
