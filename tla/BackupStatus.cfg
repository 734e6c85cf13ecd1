SPECIFICATION Spec
CONSTANTS
    Client = {c1}
    NoArchive = none
    MaxAge = 1
    Slack = 1
    MaxClock = 3
    MaxRecord = 2
    MaxFaults = 1
INVARIANTS
    TypeOK
    GreenMeansCovered
PROPERTY
    VerdictExact
