\* All operations, one disconnected client, a renewal and a restart.
SPECIFICATION Spec
CONSTANTS
    r1 = r1
    r2 = r2
    a1 = a1
    a2 = a2
    c1 = c1
    R1 = R1
    R2 = R2
    Requests = {r1, r2}
    Renewal = Renewal
    Apps = {a1, a2}
    Customs = {c1}
    Roots = {R1, R2}
    FirstRoot = R1
    None = None
    Kinds <- AllKinds
    MaxRequests = 4
    MaxDisconnects = 1
    MaxRestarts = 1
    MaxRenewals = 1
SYMMETRY Symmetry
CHECK_DEADLOCK FALSE
INVARIANTS
    CertbotIsExclusive
    FlagsHaveCertificates
    LocalRegistryIsServed
