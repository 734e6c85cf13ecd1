SPECIFICATION Spec
CONSTANTS
    Exporter = {e1, e2}
    StagingName = {d1, d2, d3}
    NoName = none
    MaxSegment = 1
    MaxRecord = 2
    MaxClock = 2
    StaleAge = 1
    MaxFaults = 1
    LockChoice = {TRUE, FALSE}
    Indexed = FALSE
    Expires = FALSE
SYMMETRY Symmetry
INVARIANTS
    SuccessCovers
    StagingSound
    TypeOK
    ArchivesRestorable
    OnlySweepFails
PROPERTIES
    ArchivesKept
    ServiceSpec
