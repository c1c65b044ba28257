SPECIFICATION FairSpec
CONSTANTS
    Machines = {here, there}
    Main = here
    Apps = {a, b}
    None = none
    MaxSwarms = 2
    MaxFailures = 1
    MaxFailAllowed = 0
    MaxBackups = 1
    UserApps = {a}
INVARIANTS
    ServesWithTheSaltOfItsData
    ServesWithItsServices
PROPERTIES
    BackupIsKept
    CreatedCaptainServes
