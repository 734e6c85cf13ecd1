SPECIFICATION Spec
CONSTANTS
    Client = {c1}
    NoArchive = none
    MaxAge = 1
    Slack = 0
    MaxClock = 2
    MaxRecord = 1
    MaxFaults = 1
PROPERTY
    ExistingInWindow
