SPECIFICATION FairSpec

CONSTANTS
    Apps = {a1, a2}
    MaxBuilds = 3
    MaxRestarts = 1
    Removable = {a1}
    MaxVersionHistory = 2
    NoApp = NoApp
    NoService = NoService
    Placeholder = Placeholder
    NoImage = NoImage

INVARIANTS
    NoStrandedBuild
    BuildsHoldDistinctVersions

PROPERTIES
    QueuedBuildsStart

CHECK_DEADLOCK FALSE
