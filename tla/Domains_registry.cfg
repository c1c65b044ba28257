\* A second self-hosted registry is asked for.
SPECIFICATION Spec
CONSTANTS
    r1 = r1
    r2 = r2
    a1 = a1
    a2 = a2
    c1 = c1
    R1 = R1
    R2 = R2
    Requests = {r1, r2}
    Renewal = Renewal
    Apps = {a1}
    Customs = {c1}
    Roots = {R1}
    FirstRoot = R1
    None = None
    Kinds <- RegistryKinds
    MaxRequests = 3
    MaxDisconnects = 0
    MaxRestarts = 0
    MaxRenewals = 0
CHECK_DEADLOCK FALSE
INVARIANT LocalRegistryIsAuthorized
