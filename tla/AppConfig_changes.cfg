\* An app and the system configs, two changes, a restart and a renewal.
SPECIFICATION FairSpec
CONSTANTS
    a1 = a1
    Apps = {a1}
    System = System
    Base = Base
    Captain = Captain
    NoRequest = NoRequest
    Startup = Startup
    Nobody = Nobody
    MaxChanges = 2
    MaxEvents = 2
    Requests <- MCRequests
CHECK_DEADLOCK FALSE
INVARIANTS
    StaleFilesAreDue
PROPERTIES
    AnswersAreFresh
    ChangesEnd
