\* Two calls of one tab; logins, rotations, a password change, a crash.
SPECIFICATION Spec
CONSTANTS
    t1 = t1
    c1 = c1
    c2 = c2
    b1 = b1
    Tabs = {t1}
    Calls = {c1, c2}
    Browsers = {b1}
    KindsOf <- MCKindsOf
    TabOf <- MCTabOf
    BrowserOf <- MCBrowserOf
    MaxSessions = 2
    Lifetime = 2
    AccessLife = 1
    None = None
    Keep = Keep
    MaxTime = 2
    MaxTokens = 3
    MaxChanges = 1
    MaxCrashes = 1
CHECK_DEADLOCK FALSE
INVARIANTS
    OneSessionPerLogin
    SessionsEndInTime
    OldLoginsAreRefused
