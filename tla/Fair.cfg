SPECIFICATION FairCopiesSpec
CONSTANTS
    Drill = {w1}
    WorkDir = {w1}
    Target <- OwnTarget
    Archive = {"indexed", "plain", "misnamed", "headless"}
    Vault <- MCVault
    Damaged <- MCDamaged
    ConfigChoice = {"none", "unreadable", "foreign", "own"}
    StagingName = {d1, d2}
    NoName = none
    MaxSegment = 2
    MaxRecord = 2
    MaxClock = 3
    StaleAge = 1
    MaxFaults = 1
    Exporter = {e1, e2}
    ExportStaging = {s1, s2}
    ExportClock = 2
    ServerWrites = FALSE
    Indexed = FALSE
    Expires = FALSE
PROPERTIES
    EveryRunEnds
    EveryLeftoverGoes
