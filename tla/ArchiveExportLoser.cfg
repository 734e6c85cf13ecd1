SPECIFICATION Spec
CONSTANTS
    Exporter = {e1, e2}
    StagingName = {d1, d2}
    NoName = none
    MaxSegment = 1
    MaxRecord = 1
    MaxClock = 1
    StaleAge = 1
    MaxFaults = 0
    LockChoice = {FALSE}
    Indexed = FALSE
    Expires = FALSE
INVARIANT
    LoserExitsZero
