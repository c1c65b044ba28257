SPECIFICATION Spec

CONSTANTS
    deployer = deployer
    asker = asker
    Keys = {asker}
    Role <- MCRole
    Scope <- MCScope
    Apps = {api}
    IdempotencyKeys = {i1}
    NoIdempotencyKey = NoIdempotencyKey
    Handlers = {h1}
    MaxRequests = 3
    MaxStored = 2
    MaxEvents = 0
    Nobody = Nobody

INVARIANTS
    OnePendingRequestPerNewApp
    IdempotencyKeyNamesOneRequest
PROPERTIES
    CapDropsTheOldest

CHECK_DEADLOCK FALSE
