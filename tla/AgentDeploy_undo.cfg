SPECIFICATION DeploySpec

CONSTANTS
    Apps = {a1, a2}
    MaxBuilds = 4
    MaxRestarts = 1
    Removable = {}
    MaxVersionHistory = 3
    Jobs = {d1}
    Contents = {c1}
    NoVersion = NoVersion
    NoApp = NoApp
    NoService = NoService
    Placeholder = Placeholder
    NoImage = NoImage

INVARIANTS
    StartedReplacementsAreAnswered

PROPERTIES
    UndoKeepsLaterDeploys

CHECK_DEADLOCK FALSE

SYMMETRY AppSymmetry
