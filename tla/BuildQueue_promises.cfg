SPECIFICATION FairSpec

CONSTANTS
    Apps = {a1, a2}
    MaxBuilds = 3
    MaxRestarts = 0
    Removable = {}
    MaxVersionHistory = 2
    NoApp = NoApp
    NoService = NoService
    Placeholder = Placeholder
    NoImage = NoImage

PROPERTIES
    PromisesSettle

CHECK_DEADLOCK FALSE
