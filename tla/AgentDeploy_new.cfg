SPECIFICATION FairDeploySpec

CONSTANTS
    Apps = {a1}
    MaxBuilds = 3
    MaxRestarts = 0
    Removable = {}
    MaxVersionHistory = 3
    Jobs = {d1}
    Contents = {c1}
    NoVersion = NoVersion
    NoApp = NoApp
    NoService = NoService
    Placeholder = Placeholder
    NoImage = NoImage

PROPERTIES
    NewAppDeploymentsEnd

CHECK_DEADLOCK FALSE
