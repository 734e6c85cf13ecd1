SPECIFICATION CopiesSpec
CONSTANTS
    Drill = {w1, w2}
    WorkDir = {w1, w2}
    Target <- OwnTarget
    Archive = {"indexed", "plain"}
    Vault <- MCVault
    Damaged <- MCDamaged
    ConfigChoice = {"own"}
    StagingName = {d1, d2, d3}
    NoName = none
    MaxSegment = 3
    MaxRecord = 2
    MaxClock = 2
    StaleAge = 1
    MaxFaults = 1
    Exporter = {e1}
    ExportStaging = {s1, s2}
    ExportClock = 1
    ServerWrites = TRUE
    Indexed = TRUE
    Expires = TRUE
SYMMETRY CopiesSymmetry
VIEW PartView
INVARIANTS
    ExportsSound
    DrillsSound
    DrillStagingSound
    GoodDrillPasses
PROPERTY
    PassMeansRestored
