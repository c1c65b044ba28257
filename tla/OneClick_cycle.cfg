\* Two projects are saved and deleted.
SPECIFICATION Spec
CONSTANTS
    a1 = a1
    a2 = a2
    ProjectIds = {P1, P2}
    Apps = {a1, a2}
    None = None
    Missing = Missing
    Templates <- MCTemplates
    MaxOps = 4
    MaxJobs = 0
    MaxStoredJobs = 1
    MaxFaults = 0
SYMMETRY ProjectSymmetry
CHECK_DEADLOCK FALSE
INVARIANT DeletedProjectsAreGone
