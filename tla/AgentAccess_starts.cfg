SPECIFICATION FairSpec

CONSTANTS
    deployer = deployer
    asker = asker
    Keys = {deployer, asker}
    Role <- MCRole
    Scope <- MCScope
    Apps = {api}
    IdempotencyKeys = {i1}
    NoIdempotencyKey = NoIdempotencyKey
    Handlers = {h1, h2}
    MaxRequests = 1
    MaxStored = 1
    MaxEvents = 1
    Nobody = Nobody

INVARIANTS
    LaunchedAtMostOnce
    RevokedKeysStartNothing

PROPERTIES
    OpenRequestsClose
    RequestsFollowLifecycle

CHECK_DEADLOCK FALSE
