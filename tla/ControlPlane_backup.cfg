SPECIFICATION Spec
CONSTANTS
    Machines = {here, there}
    Main = here
    Apps = {a}
    None = none
    MaxSwarms = 2
    MaxFailures = 1
    MaxFailAllowed = 0
    MaxBackups = 1
    UserApps = {a}
INVARIANTS
    BackupsCanBeRestored
