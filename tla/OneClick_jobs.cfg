\* Two deployments beside the requests of the dashboard.
SPECIFICATION Spec
CONSTANTS
    a1 = a1
    a2 = a2
    ProjectIds = {P1, P2}
    Apps = {a1, a2}
    None = None
    Missing = Missing
    Templates <- MCTemplates
    MaxOps = 2
    MaxJobs = 2
    MaxStoredJobs = 1
    MaxFaults = 1
SYMMETRY ProjectSymmetry
CHECK_DEADLOCK FALSE
INVARIANTS
    ServicesComeAfterTheirNeeds
    UnfinishedJobsRun
    VerdictsStay
    ProjectsStayWhole
